------------------------------- MODULE Library -------------------------------
(****************************************************************************)
(* A corpus published as all of its files, and a reader that asks them: the *)
(* n-gram index (written in one go, and merged from two chunks), the term   *)
(* index with its impacts, the identifier lookup, the sort columns, the     *)
(* similarity index with its re-rank vectors, the facets and the records,   *)
(* and the bundle of the boot regions that a reader may open the indexes    *)
(* from.  How facets and records are read is in FacetPanel and RecordPages. *)
(****************************************************************************)
EXTENDS NgramIndex, Bm25, IdLookup, SortCols, VectorIndex, FacetIndex, Records, SplitFiles

CONSTANTS
    Corpora,        \* the corpora that may be published
    Requests,       \* what the reader may ask
    Nothing         \* not published yet, not asking

VARIABLES
    corpus,         \* the documents and how they are to be indexed
    files,          \* the published files by name, or Nothing
    asked,          \* the request being answered, or Nothing
    answer
vars == <<corpus, files, asked, answer>>

Docs(c) == DOMAIN c.texts

\* The part of the corpus that a chunked build takes in one piece; it folds.
ChunkOf(c, docs) ==
    WritePartial(GramEntries([d \in docs |-> c.texts[d]], c.gram, TRUE, {}))

TermFile(c) == WriteTermIndex(TermPostings(c.texts, c.spec), c.spec, c.boundary)
Trained(c) == IF c.parts = << >> THEN Train(c.vectors, c.training) ELSE FromTrainedParts(c.parts[1])

\* The impacts again, by the builder that goes through runs on disk, taken up
\* where a process that was given other chunks may have left it.
Streamed(c, dict) ==
    LET n == Cardinality(Docs(c))
        first == SpillChunks(c.texts, c.spec, c.spill.first, << >>)
    IN MergeRuns(dict, SpillChunks(c.texts, c.spec, c.spill.then, Cut(first, c.spill.done)), n)

\* The corpus as a split set: its documents with the categories they have, and
\* how the set of either kind is built.
SetDocs(c) ==
    << >> \o [i \in 1 .. Cardinality(Docs(c)) |->
        [text |-> c.texts[i - 1],
         tags |-> {[field |-> c.facets[p[1]].name, cat |-> c.facets[p[1]].cats[p[2]].name] :
                     p \in {q \in UNION {{f} \X DOMAIN c.facets[f].cats : f \in DOMAIN c.facets} :
                              i - 1 \in c.facets[q[1]].cats[q[2]].docs}}]]
SetConfig(c, kind) ==
    [kind |-> kind, policy |-> "tiered", cap |-> c.set.cap, capMax |-> c.set.capMax, gram |-> c.gram,
     stride |-> IF c.stride = 0 THEN DefaultStride ELSE c.stride, spec |-> c.spec, sortcol |-> << >>, prefix |-> 0,
     caseFold |-> IF kind = "grams" THEN c.caseFold ELSE c.spec.caseFold,
     bits |-> c.set.bits, top |-> c.set.top, v2 |-> c.set.v2]
SetOf(built) == IF built = Refused THEN Refused ELSE [manifest |-> built.manifest, disk |-> built.disk]

\* The sets that the tools make of the files: a set without its summaries, and
\* with sidecars cut from those of all documents; the indexes cut into a set;
\* a set built in bands; the filter over a whole set.
ToolSets(c, grams, terms, facets, sets) ==
    LET ranges == GeometricRanges(Cardinality(Docs(c)), c.set.base, c.set.most)
        fields == {c.facets[f].name : f \in DOMAIN c.facets}
        set == sets["grams"]
    IN [grams |-> set, terms |-> sets["terms"],
        banded |-> SetOf(BuildParallel(SetConfig(c, "terms"), SetDocs(c), c.set.workers)),
        stripped |-> IF set = Refused THEN Refused
                     ELSE [manifest |-> StripSummaries(set.manifest, << >>),
                           disk |-> DeriveFacets(facets, set.manifest, fields) @@ set.disk],
        top |-> IF set = Refused THEN Refused
                ELSE [manifest |-> StripSummaries(set.manifest, << c.set.keep >>), disk |-> set.disk],
        sliced |-> SliceGrams(grams, ranges, 0, c.set.cap),
        slicedTerms |-> SliceTerms(terms, ranges, 0, c.set.cap),
        global |-> IF set = Refused THEN Refused ELSE GlobalBloom(set.disk, c.set.bits)]

\* What the Python package builds of documents staged in any order: ids by
\* descending rank, equal ranks as they were staged, and an index, a sidecar
\* and records by these ids.
RankOrder(ranks) ==
    SortedBy(DOMAIN ranks, LAMBDA a, b : ranks[a] > ranks[b] \/ (ranks[a] = ranks[b] /\ a < b))

BuildRanked(c) ==
    LET staged == SetDocs(c)
        order == RankOrder(c.ranks)
        tags == UNION {{[field |-> t.field, cat |-> t.cat, doc |-> i - 1] : t \in staged[order[i]].tags} : i \in DOMAIN order}
        texts == [d \in Docs(c) |-> staged[order[d + 1]].text]
    IN [index |-> WriteGrams(GramEntries(texts, c.gram, TRUE, {}), c.gram, 0, TRUE),
        facets |-> WriteFacets(FacetFields(tags)),
        records |-> WriteRecords(<< >> \o [i \in DOMAIN order |-> staged[order[i]].text], NoDict)]

\* The files of a corpus, of those that others are made of.  A bundle holds
\* the boot regions of three of them.
Published(c, grams, merged, terms, dict, facets, sets) ==
    LET store(s) == [idx |-> s.idx, bin |-> s.bin]
    IN [grams |-> grams, merged |-> merged, terms |-> terms,
        impacts |-> WriteImpacts(dict, Accumulate(c.texts, c.spec)), streamed |-> Streamed(c, dict),
        ids |-> WriteLookup(c.ids), columns |-> WriteColumns(c.columns),
        vectors |-> WriteVectors(Trained(c)), exact |-> WriteRerank(c.training.dim, c.exact),
        facets |-> facets, sets |-> ToolSets(c, grams, terms, facets, sets),
        records |-> store(WriteRecords(c.records, c.dict)), ranked |-> BuildRanked(c),
        bundle |-> WriteBundle(<< [name |-> "grams", bytes |-> grams, bootLen |-> GramBootLen(grams)],
                                  [name |-> "terms", bytes |-> terms, bootLen |-> BootLen(terms)],
                                  [name |-> "merged", bytes |-> merged, bootLen |-> GramBootLen(merged)] >>,
                               c.bundled, c.threshold)]
FilesWith(c, terms) ==
    Published(c, WriteGrams(GramEntries(c.texts, c.gram, c.caseFold, c.runs), c.gram, c.stride, c.caseFold),
              MergePartials(<< ChunkOf(c, {d \in Docs(c) : d < c.cut}),
                               ChunkOf(c, {d \in Docs(c) : d >= c.cut}) >>, c.gram, c.stride),
              terms, DictTerms(OpenTerms(terms)), WriteFacets(c.facets),
              [k \in {"grams", "terms"} |-> SetOf(BuildSerial(SetConfig(c, k), SetDocs(c)))])
FilesOf(c) == FilesWith(c, TermFile(c))

Init == /\ corpus \in Corpora
        /\ files = Nothing /\ asked = Nothing /\ answer = Nothing

Publish == /\ files = Nothing
           /\ files' = FilesOf(corpus)
           /\ UNCHANGED <<corpus, asked, answer>>

------------------------------------------------------------------------------
\* An index is opened from the bundle if its boot region is there, as
\* open_split does, otherwise from its own file.
Booted(name) == InlinedByName(OpenHotcache(files.bundle), name)
Grams(name) ==
    IF Booted(name) = NotInlined THEN OpenGrams(files[name]) ELSE GramsFromBoot(Booted(name), files[name])
Terms ==
    IF Booted("terms") = NotInlined THEN OpenTerms(files.terms)
    ELSE TermsFromBoot(Booted("terms"), files.terms)
Column(name) == ColumnIndex(OpenColumns(files.columns), name)

Asking(kind) == {r \in Requests : r.kind = kind}
Answer(r, a) == /\ files # Nothing /\ asked = Nothing
                /\ asked' = r /\ answer' = a
                /\ UNCHANGED <<corpus, files>>

AskGrams == \E r \in Asking("grams") : Answer(r, SearchGrams(Grams(r.file), r.query, r.limit))
AskCandidates == \E r \in Asking("candidates") : Answer(r, SearchCandidates(Grams("grams"), r.query, r.k))
AskPrice == \E r \in Asking("price") :
    Answer(r, [cost |-> QueryCost(Grams("grams"), r.query), estimate |-> CountEstimate(Grams("grams"), r.query)])
AskTerms == \E r \in Asking("terms") : Answer(r, SearchTerms(Terms, r.query, r.limit))
AskPrefix == \E r \in Asking("prefix") :
    Answer(r, [found |-> SearchPrefix(Terms, r.prefix, r.limit), terms |-> Complete(Terms, r.prefix, r.limit)])
AskRanked == \E r \in Asking("ranked") :
    Answer(r, SearchBm25(Terms, OpenImpacts(files.impacts), r.query, r.m, r.k))
AskSome == \E r \in Asking("some") :
    Answer(r, SearchMinMatch(Terms, OpenImpacts(files.impacts), r.query, r.m, r.k, r.min))
AskReorder == \E r \in Asking("reorder") :
    Answer(r, RerankIds(Terms, OpenImpacts(files.impacts), r.query, r.docs, r.k))
AskFused == \E r \in Asking("fused") : Answer(r, Fused(r.lists, r.weights, r.param))

\* A search of the ranked dataset; every hit with its record and categories.
AskBuilt == \E r \in Asking("built") :
    LET hits == SearchGrams(OpenGrams(files.ranked.index), r.query, r.limit)
        side == OpenMeta(files.ranked.facets)
        record(d) == GetRecord(OpenRecords(files.ranked.records, NoDict, 0), NoTable, d)
        tags(d) == {<<side.fields[t[1]].name, Cat(side, t).entry.name>> :
                      t \in {u \in UNION {{f} \X DOMAIN side.fields[f].cats : f \in DOMAIN side.fields} :
                               d \in DocsAt(side, u)}}
    IN Answer(r, << >> \o [i \in DOMAIN hits |-> [text |-> record(hits[i]), tags |-> tags(hits[i])]])

AskId == \E r \in Asking("id") : Answer(r, LookupId(OpenLookup(files.ids), r.id))
AskValues == \E r \in Asking("values") :
    Answer(r, ColumnValues(OpenColumns(files.columns), Column(r.column), r.docs))
AskTop == \E r \in Asking("top") :
    Answer(r, TopK(OpenColumns(files.columns), Column(r.column), r.docs, r.k, r.descending))
AskSlice == \E r \in Asking("slice") :
    Answer(r, SliceU32(OpenColumns(files.columns), Column(r.column), r.start, r.len))
AskNear == \E r \in Asking("near") : Answer(r, SearchVectors(OpenVectors(files.vectors), r.query, r.k, r.nprobe))
AskReranked == \E r \in Asking("reranked") :
    Answer(r, SearchRerank(OpenVectors(files.vectors), files.exact, r.query, r.k, r.nprobe, r.r))

\* The split sets: their manifests name the splits, and the global filter is
\* there for those whose summaries are gone.
Manifest(name) == files.sets[name].manifest
AskSet == \E r \in Asking("set") :
    /\ files # Nothing /\ files.sets[r.set] # Refused
    /\ Answer(r, SearchSet(Manifest(r.set), files.sets[r.set].disk,
                           IF r.set = "stripped" THEN files.sets.global ELSE Refused,
                           r.query, r.selected, r.limit))
\* countExact: the binding takes no excluding selection.
AskCount == \E r \in Asking("count") :
    /\ files # Nothing /\ files.sets[r.set] # Refused
    /\ Answer(r, IF r.excluding THEN BadQuery
                 ELSE CountExact(Manifest(r.set), files.sets[r.set].disk, Refused, r.query, r.selected))
AskPrune == \E r \in Asking("prune") :
    /\ files # Nothing /\ files.sets.grams # Refused
    /\ LET set == OpenManifest(Manifest("grams"))
           keys == KeysOfQuery(set, r.query)
       IN Answer(r, [bloom |-> {s \in Range(set.splits) : PrunedByBloom(s, keys)},
                     facet |-> {s \in Range(set.splits) : FacetPruned(set, s, SelectedKeys(r.selected))},
                     present |-> keys = {} \/ files.sets.global = Refused
                                 \/ RemoteContainsAll(files.sets.global, keys)])

\* The reader has the answer.
Done == /\ asked # Nothing
        /\ asked' = Nothing /\ answer' = Nothing
        /\ UNCHANGED <<corpus, files>>

Next == \/ Publish \/ AskGrams \/ AskCandidates \/ AskPrice \/ AskTerms \/ AskPrefix \/ AskRanked
        \/ AskSome \/ AskId \/ AskValues \/ AskTop \/ AskSlice \/ AskNear \/ AskReranked
        \/ AskSet \/ AskPrune \/ AskCount \/ AskReorder \/ AskFused \/ AskBuilt \/ Done

------------------------------------------------------------------------------
\* What the answers must be, said of the corpus alone.
Stretches(text) == {SubSeq(text, i, j) : i \in DOMAIN text, j \in DOMAIN text} \ {<< >>}
Over(word, text, Apart(_)) ==       \* a whole word of the text
    \E i, j \in DOMAIN text :
        /\ i <= j /\ word = SubSeq(text, i, j)
        /\ \A x \in i .. j : ~Apart(text[x])
        /\ (i = 1 \/ Apart(text[i - 1])) /\ (j = Len(text) \/ Apart(text[j + 1]))

\* The stretches of `gram` kept characters of a word; the documents with all
\* those of a query.
GramsIn(text, gram, caseFold) ==
    LET word == {w \in Stretches(text) : Over(w, text, LAMBDA x : x = 0)}
        kept(w) == FoldAll(SelectSeq(w, IsLetter), caseFold)
    IN {s \in UNION {Stretches(kept(w)) : w \in word} : Len(s) = gram}
GramMatches(c, query, caseFold) ==
    LET grams == GramsIn(query, c.gram, caseFold)
    IN {d \in Docs(c) : grams # {} /\ grams \subseteq GramsIn(c.texts[d], c.gram, caseFold)}

\* What a text means to a term index: its folded words that are no stop words,
\* each by its stem.
Meaning(c, text) ==
    LET words == {FoldAll(w, c.spec.caseFold) :
                    w \in {v \in Stretches(text) : Over(v, text, LAMBDA x : ~IsLetter(x))}}
        told  == IF c.spec.stopwords THEN words \ StopWords[c.spec.language] ELSE words
    IN IF c.spec.stem THEN {Stem(c.spec.language, w) : w \in told} ELSE told
DocsOf(c, term) == {d \in Docs(c) : term \in Meaning(c, c.texts[d])}
AllTerms(c) == UNION {Meaning(c, c.texts[d]) : d \in Docs(c)}
TermMatches(c, query) == {d \in Docs(c) : Meaning(c, query) \subseteq Meaning(c, c.texts[d])}

\* A document's score for some terms, from how often it has each of them.
ScoreOf(c, terms, d) ==
    LET len(x) == Len(Tokenize(c.spec, c.texts[x]))
        all == MapThenSumSet(len, Docs(c))
        impact(t) == Quantize(Occurs(Tokenize(c.spec, c.texts[d]), t), len(d), all, Cardinality(Docs(c)))
    IN MapThenSumSet(LAMBDA t : Idf(Cardinality(DocsOf(c, t)), Cardinality(Docs(c))) * impact(t),
                     {t \in terms : d \in DocsOf(c, t)})
BestOf(c, terms, docs, k) ==
    LET ranked(score) == SortedBy(docs, LAMBDA a, b : score[a] > score[b] \/ (score[a] = score[b] /\ a < b))
    IN Cut(ranked([d \in docs |-> ScoreOf(c, terms, d)]), k)

------------------------------------------------------------------------------
\* What a bundle gives for a name is the boot region of that very file, so an
\* index opened from it is the one its own file opens to (write_splitset_bundle,
\* Hotcache::inlined_by_name).
BootsAreOwn ==
    files # Nothing =>
        \A name \in {"grams", "merged", "terms"} :
            Booted(name) # NotInlined =>
                Booted(name) = SubSeq(files[name], 1, IF name = "terms" THEN BootLen(files.terms)
                                                      ELSE GramBootLen(files[name]))

\* The documents in a category of every selected field.
InSelected(selected) ==
    LET cats(p) == UNION {{corpus.facets[f].cats[i].docs : i \in {j \in DOMAIN corpus.facets[f].cats :
                                corpus.facets[f].cats[j].name = p[2]}} :
                          f \in {g \in DOMAIN corpus.facets : corpus.facets[g].name = p[1]}}
    IN {d \in Docs(corpus) : \A q \in selected : \E p \in selected : p[1] = q[1] /\ d \in UNION cats(p)}

\* Searching the n-gram index, whichever way it was built and opened, gives the
\* first documents that have all the stretches of the query's words
\* (Index::search over the sparse dictionary, the eager prefixes and the tail);
\* so does the search of a split set, built, stripped or sliced, among the
\* documents selected by their facets.  A dataset built by rank gives the best
\* ranked matches first, each with its own record and categories (Builder::build).
GramAnswers ==
    /\ (asked # Nothing /\ asked.kind = "grams") =>
        answer = Least(GramMatches(corpus, asked.query, corpus.caseFold \/ asked.file = "merged"), asked.limit)
    /\ (asked # Nothing /\ asked.kind = "set" /\ asked.set \in {"grams", "stripped", "sliced"}) =>
        answer = Least(GramMatches(corpus, asked.query, corpus.caseFold) \intersect InSelected(asked.selected),
                       asked.limit)
    /\ (asked # Nothing /\ asked.kind = "set" /\ asked.set = "top") =>
        LET kept == SelectSeq(OpenManifest(Manifest("grams")).splits, LAMBDA s : s.tier <= corpus.set.keep)
        IN answer = Least({d \in GramMatches(corpus, asked.query, corpus.caseFold) :
                             \E s \in Range(kept) : s.lo <= d /\ d <= s.hi}, asked.limit)
    /\ (asked # Nothing /\ asked.kind = "built") =>
        LET rank(d) == corpus.ranks[d + 1]
            better(a, b) == rank(a) > rank(b) \/ (rank(a) = rank(b) /\ a < b)
            best == SortedBy(GramMatches(corpus, asked.query, TRUE), better)
            own(d) == [text |-> corpus.texts[d], tags |-> {<<t.field, t.cat>> : t \in SetDocs(corpus)[d + 1].tags}]
        IN answer = Cut(<< >> \o [i \in DOMAIN best |-> own(best[i])], asked.limit)

\* The cheap searches err on the safe side: the candidates from the rarest
\* postings lose no match, and the estimated count, exact for one key, is
\* never too low (search_candidates, count_estimate).  A split that a filter
\* prunes has no match, and a word that the global one denies is in no split;
\* so the exact count of a pruned search is that of the matches (count_exact).
CheapAnswersAreSafe ==
    /\ (asked # Nothing /\ asked.kind = "prune") =>
        LET within(s, docs) == {d \in docs : s.lo <= d /\ d <= s.hi}
            matches == GramMatches(corpus, asked.query, corpus.caseFold)
        IN /\ \A s \in answer.bloom : within(s, matches) = {}
           /\ \A s \in answer.facet : within(s, InSelected(asked.selected)) = {}
           /\ answer.present \/ matches = {}
    /\ (asked # Nothing /\ asked.kind = "count") =>
        answer = IF asked.excluding THEN BadQuery
                 ELSE Cardinality(GramMatches(corpus, asked.query, corpus.caseFold) \intersect InSelected(asked.selected))
    /\ (asked # Nothing /\ asked.kind \in {"candidates", "price"}) =>
        LET matches == GramMatches(corpus, asked.query, corpus.caseFold)
        IN IF asked.kind = "candidates" THEN asked.k = 0 \/ matches \subseteq Range(answer)
           ELSE /\ Cardinality(matches) <= answer.estimate.count
                /\ answer.estimate.exact => Cardinality(matches) = answer.estimate.count
                /\ answer.cost = 0 => matches = {}

\* A term search gives the first documents that mean all that the query does
\* (TermIndex::search over the front-coded dictionary), also in a set of term
\* splits, whether one builder made it, several workers, or the slicer.
TermAnswers ==
    (asked # Nothing /\ (asked.kind = "terms"
                         \/ (asked.kind = "set" /\ asked.set \in {"terms", "banded", "slicedTerms"}))) =>
        answer = IF Meaning(corpus, asked.query) = {} THEN << >>
                 ELSE Least(TermMatches(corpus, asked.query), asked.limit)

\* A prefix search unites the documents of the first terms with the prefix, and
\* tells when there were more; completion lists them (search_prefix_capped,
\* complete).
PrefixAnswers ==
    (asked # Nothing /\ asked.kind = "prefix") =>
        LET p == FoldAll(asked.prefix, corpus.spec.caseFold)
            terms == SortedBy({t \in AllTerms(corpus) : Len(t) >= Len(p) /\ SubSeq(t, 1, Len(p)) = p}, Before)
            first(n) == Cut(terms, n)
        IN /\ answer.terms = first(asked.limit)
           /\ answer.found.docs =
                Least(UNION {DocsOf(corpus, t) : t \in Range(first(MaxPrefixTerms))}, asked.limit)
           /\ answer.found.truncated <=> (asked.limit > 0 /\ Len(terms) > MaxPrefixTerms)

\* The ranked searches give the best k of the first m documents that match, by
\* the scores the corpus defines; the second one needs some of the terms that
\* are there (search_bm25, search_bm25_min_match).  Ids of another search are ranked
\* by these scores when the dictionary has all terms of the query, and otherwise
\* stay in order (rerank_ids).  In a fusion of lists a document that one of them
\* prefers, and none of them ranks after the other, comes first
\* (reciprocal_rank_fusion_weighted).
RankedAnswers ==
    /\ (asked # Nothing /\ asked.kind = "reorder") =>
        LET terms == Meaning(corpus, asked.query)
        IN answer = IF terms # {} /\ terms \subseteq AllTerms(corpus)
                    THEN BestOf(corpus, terms, Range(asked.docs), asked.k) ELSE Cut(asked.docs, asked.k)
    /\ (asked # Nothing /\ asked.kind = "fused") =>
        LET lists == asked.lists
            votes == {i \in DOMAIN lists : asked.weights = << >> \/ asked.weights[i] > 0}
            place(i, d) == IF d \in Range(lists[i]) THEN CHOOSE n \in DOMAIN lists[i] : lists[i][n] = d
                           ELSE Len(lists[i]) + 1
            prefers(i, a, b) == a \in Range(lists[i]) /\ place(i, a) < place(i, b)
            ahead(a, b) == /\ \A i \in votes : ~prefers(i, b, a)
                           /\ (\E i \in votes : prefers(i, a, b)) \/ a < b
        IN IF asked.weights # << >> /\ Len(asked.weights) # Len(lists) THEN answer = BadVectors
           ELSE /\ Range(answer) = UNION {Range(lists[i]) : i \in DOMAIN lists}
                /\ \A m, n \in DOMAIN answer : m < n => ~ahead(answer[n], answer[m])
    /\ (asked # Nothing /\ asked.kind \in {"ranked", "some"}) =>
        LET terms == Meaning(corpus, asked.query)
            there == terms \intersect AllTerms(corpus)
            need  == Max({1, Min({asked.min, Cardinality(there)})})
            docs  == IF asked.kind = "ranked" THEN TermMatches(corpus, asked.query)
                     ELSE {d \in Docs(corpus) :
                             Cardinality({t \in there : d \in DocsOf(corpus, t)}) >= need}
            best == BestOf(corpus, terms, Range(Least(docs, asked.m)), asked.k)
        IN /\ answer # NoTerm
           /\ << >> \o [i \in DOMAIN answer |-> answer[i].doc] = IF terms = {} THEN << >> ELSE best

\* Looking an identifier up gives the documents that carry it, in order, however
\* it is written and whatever other identifiers hash like it (Lookup::lookup).
IdAnswers ==
    (asked # Nothing /\ asked.kind = "id") =>
        LET own == {i \in DOMAIN corpus.ids : NormalizeId(corpus.ids[i].id) = NormalizeId(asked.id)}
        IN answer = IF NormalizeId(asked.id) = << >> THEN << >>
                    ELSE Ascending({corpus.ids[i].doc : i \in own})

\* The columns give every document its own value, in the order asked; the best
\* by a column are the best, and a slice is a stretch of the column
\* (SortCols::values, topk, slice_u32).
ColumnAnswers ==
    (asked # Nothing /\ asked.kind \in {"values", "top", "slice"}) =>
        LET cols == {i \in DOMAIN corpus.columns : corpus.columns[i].name = asked.column}
            col == corpus.columns[CHOOSE i \in cols : TRUE]
            of(d) == col.values[d + 1]
            rank(a, b) == IF asked.descending THEN of(a) > of(b) ELSE of(a) < of(b)
            past == asked.kind # "slice" /\ \E d \in Range(asked.docs) : d >= Len(col.values)
        IN answer =
             IF cols = {} THEN BadQuery
             ELSE IF asked.kind = "slice"
             THEN IF col.type # "u32" THEN BadQuery
                  ELSE << >> \o [i \in 1 .. Cardinality(DOMAIN col.values \intersect
                                                      (asked.start + 1 .. asked.start + asked.len)) |-> of(asked.start + i - 1)]
             ELSE IF past THEN BadQuery
             ELSE IF asked.kind = "values" THEN << >> \o [i \in DOMAIN asked.docs |-> of(asked.docs[i])]
             ELSE LET ranked == SortedBy(Range(asked.docs), LAMBDA a, b : rank(a, b) \/ (of(a) = of(b) /\ a < b))
                  IN Cut(ranked, asked.k)

\* Probing every list and scoring enough candidates again gives the nearest
\* documents by their own vectors (search_rerank).
RerankIsExact ==
    (asked # Nothing /\ asked.kind = "reranked" /\ asked.r >= Len(corpus.exact)
                     /\ asked.nprobe >= Len(corpus.exact)) =>
        LET dist(d) == L2(asked.query, corpus.exact[d + 1])
            ranked == SortedBy(0 .. Len(corpus.exact) - 1,
                               LAMBDA a, b : dist(a) < dist(b) \/ (dist(a) = dist(b) /\ a < b))
        IN << >> \o [i \in DOMAIN answer |-> answer[i].id] = Cut(ranked, asked.k)

\* A document is found by its own vector in a single list: the list it was put
\* in is the one a query at its place probes (build_ivfpq, search).
OwnVectorFound ==
    (asked # Nothing /\ asked.kind = "near" /\ asked.nprobe >= 1 /\ asked.k >= Len(corpus.vectors)) =>
        \A i \in DOMAIN corpus.vectors :
            (corpus.vectors[i].v = asked.query) => \E h \in Range(answer) : h.id = corpus.vectors[i].id
==============================================================================
