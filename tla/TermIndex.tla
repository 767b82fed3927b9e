------------------------------ MODULE TermIndex ------------------------------
(****************************************************************************)
(* The term index (RRTI): the tokenizer of rust/src/terms.rs, the           *)
(* front-coded dictionary blocks of rust/src/terms_dict.rs, the file that   *)
(* rust/src/terms_build.rs writes, and the reader of rust/src/terms.rs.     *)
(* Opening keeps the header and the router, which names every dictionary    *)
(* block by its last term; a query reads the blocks and the postings it     *)
(* needs.  Every varint takes one cell.                                     *)
(****************************************************************************)
EXTENDS PostingBytes, Chars

CONSTANTS
    StopWords,      \* language -> its stop words
    Stem(_, _),     \* the stemmer of a language
    NoLanguage,
    BlockCap,       \* the cells a dictionary block is closed at
    SizeLimit,      \* SIZE_BITS, what a head posting's length must be below
    Refused         \* an error of the writer

ASSUME TermAssumption == {BlockCap, SizeLimit} \subseteq Nat \ {0}

------------------------------------------------------------------------------
\* tokenize_with: the maximal runs of letters, folded if asked.
BaseTokens(text, caseFold) ==
    LET runs == Runs(text, LAMBDA c : ~IsLetter(c))
    IN << >> \o [i \in DOMAIN runs |-> FoldAll(runs[i], caseFold)]

\* Tokenizer::tokenize: base tokens, without the stop words, stemmed.
Tokenize(spec, text) ==
    LET stem(t) == IF spec.stem /\ spec.language # NoLanguage THEN Stem(spec.language, t) ELSE t
        stopped(t) == spec.stopwords /\ spec.language # NoLanguage /\ t \in StopWords[spec.language]
        kept == SelectSeq(BaseTokens(text, spec.caseFold), LAMBDA t : ~stopped(t))
    IN << >> \o [i \in DOMAIN kept |-> stem(kept[i])]

\* Terms compare by their bytes.
CommonPrefix(s, t) ==
    Max({n \in 0 .. Min({Len(s), Len(t)}) : SubSeq(s, 1, n) = SubSeq(t, 1, n)})
Before(s, t) ==
    LET n == CommonPrefix(s, t) IN n < Len(t) /\ (n = Len(s) \/ s[n + 1] < t[n + 1])
StartsWith(t, p) == CommonPrefix(t, p) = Len(p)
QueryTerms(spec, query) == SortedBy(Range(Tokenize(spec, query)), Before)

------------------------------------------------------------------------------
\* BlockWriter.  `prev` is empty exactly when the open block is.
NewBlocks == [cur |-> << >>, prev |-> << >>, prevOff |-> 0, blocks |-> << >>, len |-> 0]

\* Mutant: the first term of a block is coded against the block before.
SealKeepingTerm(w) ==
    IF w.cur = << >> THEN w
    ELSE [w EXCEPT !.blocks = Append(@, [off |-> w.len, bytes |-> w.cur, last |-> w.prev]),
                   !.len = @ + Len(w.cur), !.cur = << >>, !.prevOff = 0]

\* BlockWriter::flush.
Seal(w) ==
    IF w.cur = << >> THEN w
    ELSE [w EXCEPT !.blocks = Append(@, [off |-> w.len, bytes |-> w.cur, last |-> w.prev]),
                   !.len = @ + Len(w.cur), !.cur = << >>, !.prev = << >>, !.prevOff = 0]

\* An entry after the previous one: shared length, suffix, offset delta, size.
Coded(w, e) ==
    LET shared == CommonPrefix(w.prev, e.term)
    IN << shared, Len(e.term) - shared >> \o SubSeq(e.term, shared + 1, Len(e.term))
       \o << e.off - w.prevOff, e.size >>

\* BlockWriter::push: seal the block first if the entry does not fit in it.
PushTerm(v, e) ==
    LET w == IF v.cur # << >> /\ Len(v.cur) + Len(Coded(v, e)) > BlockCap THEN Seal(v) ELSE v
    IN [w EXCEPT !.cur = @ \o Coded(w, e), !.prev = e.term, !.prevOff = e.off]

\* BlockIter: the entries of a block, up to its end.
BlockEntries(block) ==
    LET decode(a) ==
            LET shared == Min({block[a.pos], Len(a.prev)})
                suffix == block[a.pos + 1]
                term   == SubSeq(a.prev, 1, shared) \o SubSeq(block, a.pos + 2, a.pos + 1 + suffix)
                off    == a.off + block[a.pos + 2 + suffix]
            IN [pos |-> a.pos + 4 + suffix, prev |-> term, off |-> off,
                out |-> Append(a.out, [term |-> term, off |-> off, size |-> block[a.pos + 3 + suffix]])]
    IN FoldLeft(LAMBDA a, c : IF a.pos > Len(block) THEN a ELSE decode(a),
                [pos |-> 1, prev |-> << >>, off |-> 0, out |-> << >>], block).out

\* scan_block: where `term` is, if the block has it.
ScanBlock(block, term) ==
    SelectSeq(BlockEntries(block), LAMBDA e : e.term = term)

------------------------------------------------------------------------------
\* TermIndexStreamWriter: the postings go to a region as they come, and the
\* dictionary is kept.
NewTerms == [region |-> << >>, blocks |-> NewBlocks, count |-> 0, refused |-> FALSE]

\* push: a term's posting is [tail_size][head][tail].
WriteTerm(w, term, head, tail) ==
    IF w.refused \/ Len(head) >= SizeLimit THEN [w EXCEPT !.refused = TRUE]
    ELSE [w EXCEPT !.region = @ \o << Len(tail) >> \o head \o tail, !.count = @ + 1,
                   !.blocks = PushTerm(@, [term |-> term, off |-> Len(w.region), size |-> Len(head)])]

\* finish_meta and finish_into: [header][router][dictionary][postings].
FinishTerms(w, spec, boundary) ==
    LET blocks == Seal(w.blocks).blocks
        router == << >> \o [i \in DOMAIN blocks |->
                     [last |-> blocks[i].last, off |-> blocks[i].off, len |-> Len(blocks[i].bytes)]]
        dict   == FlattenSeq(<< >> \o [i \in DOMAIN blocks |-> blocks[i].bytes])
        language == IF spec.stem \/ spec.stopwords THEN spec.language ELSE NoLanguage
    IN IF w.refused \/ ((spec.stem \/ spec.stopwords) /\ spec.language = NoLanguage)
          \/ \E i \in DOMAIN router : router[i].len >= SizeLimit
       THEN Refused
       ELSE << [flags |-> [stem |-> spec.stem, stopwords |-> spec.stopwords,
                           sensitive |-> ~spec.caseFold],
                language |-> language, terms |-> w.count, boundary |-> boundary,
                routerLen |-> Len(router), dictLen |-> Len(dict)] >>
            \o router \o dict \o w.region

\* TermIndexBuilder: the documents of every term of `corpus`, a function from
\* documents to texts.
TermPostings(corpus, spec) ==
    LET terms == [d \in DOMAIN corpus |-> Range(Tokenize(spec, corpus[d]))]
    IN [t \in UNION Range(terms) |-> {d \in DOMAIN corpus : t \in terms[d]}]

\* write_term_index_from_postings.
WriteTermIndex(postings, spec, boundary) ==
    LET write(w, t) == LET half == SplitPosting(postings[t], boundary)
                       IN WriteTerm(w, t, Serialize(half.head, TRUE), Serialize(half.tail, TRUE))
    IN FinishTerms(FoldLeft(write, NewTerms, SortedBy(DOMAIN postings, Before)), spec, boundary)

------------------------------------------------------------------------------
CONSTANTS
    MaxPrefixTerms, \* MAX_PREFIX_TERMS, the terms a prefix search unites
    BlockWave,      \* PREFIX_BLOCK_WAVE, the blocks read at a time
    NoTerm          \* a query is given up: one of its terms is not there

ASSUME PrefixAssumption == {MaxPrefixTerms, BlockWave} \subseteq Nat \ {0}

\* rrti_boot_len, TermIndex::from_parts: the tokenizer is the header's.
HeaderSize == 1
BootLen(file) == HeaderSize + file[1].routerLen
SpecOfHeader(h) ==
    [language |-> IF h.flags.stem \/ h.flags.stopwords THEN h.language ELSE NoLanguage,
     stem |-> h.flags.stem, stopwords |-> h.flags.stopwords, caseFold |-> ~h.flags.sensitive]
FromParts(header, router, file) ==
    [file |-> file, router |-> router, spec |-> SpecOfHeader(header), terms |-> header.terms,
     dictStart |-> HeaderSize + header.routerLen,
     postings |-> HeaderSize + header.routerLen + header.dictLen]

\* TermIndex::open reads its boot region, from_boot is handed it.
OpenTerms(file) == FromParts(file[1], ReadAt(file, HeaderSize, BootLen(file) - HeaderSize), file)
TermsFromBoot(boot, file) == FromParts(boot[1], SubSeq(boot, HeaderSize + 1, BootLen(boot)), file)

\* The router's blocks from the first whose last term is not before `t`.
BlocksFrom(ix, t) == SelectSeq(ix.router, LAMBDA b : ~Before(b.last, t))
BlockOf(ix, b) == ReadAt(ix.file, ix.dictStart + b.off, b.len)

\* resolve_locs: where the postings of the terms are, the terms of one block
\* from one read of it.  Strictly, a term that is absent gives the query up;
\* leniently it is left out.
ResolveLocs(ix, terms, lenient) ==
    LET from    == << >> \o [i \in DOMAIN terms |-> BlocksFrom(ix, terms[i])]
        range(i) == [off |-> ix.dictStart + from[i][1].off, len |-> from[i][1].len]
        present == {i \in DOMAIN terms : from[i] # << >>}
        blocks  == ReadOnce(ix.file, {range(i) : i \in present})
        locs    == << >> \o [i \in DOMAIN terms |->
                       IF i \in present THEN ScanBlock(blocks[range(i)], terms[i]) ELSE << >>]
    IN IF ~lenient /\ << >> \in Range(locs) THEN NoTerm ELSE FlattenSeq(locs)

\* head_block: a head posting and where its tail is; tail.
HeadBlock(ix, loc) ==
    LET base  == ix.postings + loc.off
        block == ReadAt(ix.file, base, loc.size + 1)
    IN [off |-> loc.off, head |-> Deserialize(Tail(block)),
        tailOff |-> base + 1 + loc.size, tailSize |-> block[1]]
HeadBlocks(ix, locs) == << >> \o [i \in DOMAIN locs |-> HeadBlock(ix, locs[i])]
TailDocs(ix, b) == IF b.tailSize = 0 THEN {} ELSE Deserialize(ReadAt(ix.file, b.tailOff, b.tailSize))
FullDocs(ix, blocks) == << >> \o [i \in DOMAIN blocks |-> blocks[i].head \union TailDocs(ix, blocks[i])]
HeadDocs(blocks) == << >> \o [i \in DOMAIN blocks |-> blocks[i].head]
HasTail(blocks) == \E b \in Range(blocks) : b.tailSize > 0

\* and_locs: the tails are read if the heads give too few.
AndLocs(ix, locs, limit) ==
    LET blocks == HeadBlocks(ix, locs)
        heads  == AndAll(HeadDocs(blocks))
    IN IF locs = << >> THEN << >>
       ELSE IF Cardinality(heads) >= limit \/ ~HasTail(blocks) THEN Least(heads, limit)
       ELSE Least(AndAll(FullDocs(ix, blocks)), limit)

\* search.
SearchTerms(ix, query, limit) ==
    LET terms == QueryTerms(ix.spec, query)
        locs  == ResolveLocs(ix, terms, FALSE)
    IN IF limit = 0 \/ terms = << >> \/ locs = NoTerm THEN << >> ELSE AndLocs(ix, locs, limit)

\* query_head_postings and, leniently, query_head_postings_present.
QueryHeads(ix, query, lenient) ==
    LET terms == QueryTerms(ix.spec, query)
        locs  == ResolveLocs(ix, terms, lenient)
    IN IF terms = << >> THEN IF lenient THEN << >> ELSE NoTerm
       ELSE IF locs = NoTerm THEN NoTerm ELSE HeadBlocks(ix, locs)

\* query_postings: every term's whole posting by its address.
QueryPostings(ix, query) ==
    LET heads == QueryHeads(ix, query, FALSE)
        full  == FullDocs(ix, heads)
    IN IF heads = NoTerm THEN NoTerm
       ELSE << >> \o [i \in DOMAIN heads |-> [off |-> heads[i].off, docs |-> full[i]]]

\* dict_terms, dict_block_locs: the whole dictionary in order.
DictTerms(ix) == FlattenSeq(<< >> \o [i \in DOMAIN ix.router |-> BlockEntries(BlockOf(ix, ix.router[i]))])

------------------------------------------------------------------------------
\* scan_prefix: blocks in waves from the first that could have the prefix, to
\* the end of the prefix or to `max` terms.
ScanPrefix(ix, p, max) ==
    LET blocks == BlocksFrom(ix, p)
        waves  == (Len(blocks) + BlockWave - 1) \div BlockWave
        entries(n) == FlattenSeq(<< >> \o
            [i \in 1 .. Min({BlockWave, Len(blocks) - (n - 1) * BlockWave}) |->
               BlockEntries(BlockOf(ix, blocks[(n - 1) * BlockWave + i]))])
        entry(a, e) ==
            IF a.done \/ Before(e.term, p) THEN a
            ELSE IF ~StartsWith(e.term, p) THEN [a EXCEPT !.done = TRUE]
            ELSE [out |-> Append(a.out, e), done |-> Len(a.out) + 1 >= max]
        wave(a, n) == IF a.done THEN a ELSE FoldLeft(entry, a, entries(n))
    IN IF max = 0 THEN << >>
       ELSE FoldLeft(wave, [out |-> << >>, done |-> FALSE], [n \in 1 .. waves |-> n]).out

FoldPrefix(ix, prefix) == FoldAll(prefix, ix.spec.caseFold)

\* Mutant: a prefix that exactly fills the cap is reported cut.
PrefixLocsAtCap(ix, p) ==
    LET found == ScanPrefix(ix, p, MaxPrefixTerms)
    IN [locs |-> found, truncated |-> Len(found) >= MaxPrefixTerms]

\* prefix_locs: one more than the cap is looked for, to tell whether it was cut.
PrefixLocs(ix, p) ==
    LET found == ScanPrefix(ix, p, MaxPrefixTerms + 1)
    IN [locs |-> Cut(found, MaxPrefixTerms),
        truncated |-> Len(found) > MaxPrefixTerms]

\* union_locs: as and_locs, for a union.
UnionLocs(ix, locs, limit) ==
    LET blocks == HeadBlocks(ix, locs)
        heads  == UNION Range(HeadDocs(blocks))
    IN IF locs = << >> \/ limit = 0 THEN << >>
       ELSE IF Cardinality(heads) >= limit \/ ~HasTail(blocks) THEN Least(heads, limit)
       ELSE Least(UNION Range(FullDocs(ix, blocks)), limit)

\* search_prefix_capped, complete.
SearchPrefix(ix, prefix, limit) ==
    LET found == PrefixLocs(ix, FoldPrefix(ix, prefix))
    IN IF limit = 0 THEN [docs |-> << >>, truncated |-> FALSE]
       ELSE [docs |-> UnionLocs(ix, found.locs, limit), truncated |-> found.truncated]
Complete(ix, prefix, max) ==
    LET found == ScanPrefix(ix, FoldPrefix(ix, prefix), max)
    IN << >> \o [i \in DOMAIN found |-> found[i].term]
==============================================================================
