----------------------------- MODULE GoLibrary ------------------------------
(****************************************************************************)
(* The library of Library in two languages: the same corpus may be          *)
(* published by the Go package instead, and either package's files are read *)
(* by the Rust readers and by the Go ones.                                  *)
(*                                                                          *)
(* The stemmers, the stop words and the hashes are the same functions, and  *)
(* the trained model is the same.  The two zstd encoders need not agree, so *)
(* packed records are compared by what they decode to.                      *)
(****************************************************************************)
EXTENDS Library, GoFiles

GoTexts(c) == << >> \o [i \in 1 .. Cardinality(Docs(c)) |-> c.texts[i - 1]]

\* The Go builders; the "merged" index is another file's postings, in no order,
\* transcoded.
GoPublished(c, grams, merged, terms, facets, sets) ==
    LET split(name, bytes) == [name |-> name, bytes |-> bytes]
    IN [grams |-> grams, merged |-> merged, terms |-> terms.file,
        impacts |-> GoWriteImpacts(terms.dict, GoAccumulate(GoTexts(c), c.spec)),
        streamed |-> Streamed(c, DictTerms(OpenTerms(terms.file))),
        ids |-> GoWriteLookup(c.ids), columns |-> GoWriteSortcols(c.columns),
        vectors |-> GoWriteRRVI(GoModel(Trained(c))), exact |-> GoWriteRerank(c.training.dim, c.exact),
        facets |-> facets, sets |-> ToolSets(c, grams, terms.file, facets, sets),
        records |-> GoWriteRecords(c.records, c.dict), ranked |-> BuildRanked(c),
        bundle |-> GoWriteBundle(<< split("grams", grams), split("terms", terms.file), split("merged", merged) >>,
                                 c.bundled, c.threshold)]
GoFilesOf(c) ==
    GoPublished(c, GoWriteMonolith(GoMonolith(GoTexts(c), c.gram, c.caseFold), c.gram, c.stride, c.caseFold),
                GoTranscode(Reverse(GramEntries(c.texts, c.gram, TRUE, c.runs)), c.gram, c.stride),
                GoWriteTermIndex(TermPostings(c.texts, c.spec), c.spec, c.boundary),
                GoWriteFacets(c.facets),
                [k \in {"grams", "terms"} |-> GoBuildSet(SetConfig(c, k), SetDocs(c))])

PublishGo == /\ files = Nothing
             /\ files' = GoFilesOf(corpus)
             /\ UNCHANGED <<corpus, asked, answer>>

------------------------------------------------------------------------------
\* The Go readers.
AskGoGrams == \E r \in Asking("go grams") :
    LET ix == GoOpen(files[r.file]) IN Answer(r, GoPostings(ix, GoKeys(r.query, ix.gram, ix.caseFold)))
AskGoTerms == \E r \in Asking("go terms") : Answer(r, GoPosting(GoOpenTerms(files.terms), r.query))
AskGoPrefix == \E r \in Asking("go prefix") :
    LET ix == GoOpenTerms(files.terms)
    IN Answer(r, [terms |-> GoComplete(ix, r.prefix, r.limit), each |-> GoPrefixPostings(ix, r.prefix, r.limit),
                  found |-> GoSearchPrefix(ix, r.prefix, r.limit)])
AskGoImpacts == \E r \in Asking("go impacts") :
    LET dict == GoDict(GoOpenTerms(files.terms))
    IN Answer(r, << >> \o [i \in DOMAIN dict |-> <<dict[i].term, GoImpacts(files.impacts, dict[i].off)>>])
AskGoId == \E r \in Asking("go id") : Answer(r, GoLookupId(files.ids, r.id))
AskGoRecords == \E r \in Asking("go records") :
    Answer(r, GoGetMany(files.records, corpus.with, r.gap, r.page))
AskGoVector == \E r \in Asking("go vector") : Answer(r, GoVector(files.exact, r.doc))
AskGoRest == \E r \in Asking("go rest") :
    Answer(r, [columns |-> GoReadColumns(files.columns), model |-> GoReadModel(files.vectors),
               facets |-> GoReadFacets(files.facets), boots |-> GoBoots(files.bundle),
               sets |-> [n \in {m \in {"grams", "terms"} : files.sets[m] # Refused} |->
                           GoOpenSplitSet(Manifest(n)).splits]])

GoNext == \/ Next \/ PublishGo \/ AskGoGrams \/ AskGoTerms \/ AskGoPrefix \/ AskGoImpacts \/ AskGoId
          \/ AskGoRecords \/ AskGoVector \/ AskGoRest
Spec == Init /\ [][GoNext]_vars

------------------------------------------------------------------------------
\* What the tools cut from the files of all documents, cut as the builder cut
\* the documents, is what the builder sealed.
CutAsBuilt(name, sliced, exts) ==
    files.sets[name] # Refused =>
        LET built == files.sets[name].disk
        IN sliced # Refused => \A n \in {m \in DOMAIN built : m.ext \in exts} : sliced[n] = built[n]
CutsAsBuilt ==
    LET ranges(name) == LET splits == OpenManifest(Manifest(name)).splits
                        IN << >> \o [i \in DOMAIN splits |-> <<splits[i].lo, splits[i].hi + 1>>]
        disk(set) == IF set = Refused THEN Refused ELSE set.disk
        fields == {corpus.facets[f].name : f \in DOMAIN corpus.facets}
    IN /\ CutAsBuilt("grams", disk(SliceGrams(files.grams, ranges("grams"), 0, 0)), {"rrs"})
       /\ files.terms[1].boundary = PerBucket =>
            CutAsBuilt("terms", disk(SliceTerms(files.terms, ranges("terms"), 0, 0)), {"rrt"})
       /\ CutAsBuilt("grams", DeriveFacets(files.facets, Manifest("grams"), fields), {"rrf"})

\* The two packages write the same files, cell for cell, but for the run
\* containers that only the Rust builders make and for packed records
\* (terms.go, splitsetbuild.go and the other writers, whose comments promise
\* the bytes of their Rust counterparts).  The slicers and the facet deriver
\* make the files of the split-set builders (the self tests of
\* slice_term_monolith.rs), the runs on disk merge to the same impacts, also when
\* an interrupted build is taken up again, or are refused when its chunks were
\* others (build_impacts.rs), and a manifest that was read is written again as
\* it was (splitset_read.go).
SameFiles ==
    (files # Nothing /\ asked = Nothing) =>
        LET plain == [corpus EXCEPT !.runs = {},
                         !.facets = << >> \o [f \in DOMAIN @ |->
                             [@[f] EXCEPT !.cats = << >> \o [i \in DOMAIN @ |-> [@[i] EXCEPT !.seekable = TRUE]]]]]
            merged == WriteGrams(GramEntries(corpus.texts, corpus.gram, TRUE, corpus.runs), corpus.gram,
                                 corpus.stride, TRUE)
            shown(f) == [name \in {"grams", "terms", "impacts", "ids", "columns", "vectors", "exact", "facets", "sets"}
                                  \union (IF corpus.dict = NoDict THEN {"records"} ELSE {}) |-> f[name]]
            sets == {n \in DOMAIN files.sets \ {"global"} : files.sets[n] # Refused}
            again(manifest) == LET set == GoOpenSplitSet(manifest) IN GoWriteSplitSet(set.splits, set.config)
            as(c, built) == \/ c = corpus /\ files = built
                            \/ c = plain /\ shown(files) = shown(built) /\ files.merged = merged
        IN /\ \E c \in {corpus, plain} : as(c, FilesOf(c))
           /\ files.sets.grams # Refused /\ files.sets.terms # Refused => CutsAsBuilt
           /\ files.streamed \in {files.impacts} \union (IF corpus.spill.first = corpus.spill.then THEN {} ELSE {Refused})
           /\ \A n \in sets : again(Manifest(n)) = Manifest(n)

\* What a record store gives: the records asked for that are there; an error
\* only if one of them is too large or packed with another dictionary.
RecordsTruth ==
    LET there == {id \in Range(asked.page) : id < Len(corpus.records)}
        hard == {id \in there : Len(corpus.records[id + 1]) >= MaxRecord
                                \/ (corpus.dict # NoDict /\ corpus.with # corpus.dict
                                    /\ corpus.records[id + 1] # << >>)}
    IN IF answer \in {BadRecord, BadStore} THEN hard # {}
       ELSE answer = [id \in there |-> corpus.records[id + 1]]

\* What the other Go readers must answer, said of the corpus.
GoTruth ==
    LET r == asked
        p == FoldAll(r.prefix, corpus.spec.caseFold)
        terms == SortedBy(AllTerms(corpus), Before)
        with == SelectSeq(terms, LAMBDA t : Len(t) >= Len(p) /\ SubSeq(t, 1, Len(p)) = p)
        here == Cut(with, r.limit)
        fold == corpus.caseFold \/ r.file = "merged"
        grams == {g \in GramsIn(r.query, corpus.gram, fold) :
                    \E d \in Docs(corpus) : g \in GramsIn(corpus.texts[d], corpus.gram, fold)}
        means == {t \in Meaning(corpus, r.query) : DocsOf(corpus, t) # {}}
        quantized(of, lens) == << >> \o [i \in DOMAIN of |->
            Quantize(of[i].tf, lens[of[i].doc], MapThenSumSet(LAMBDA d : lens[d], Docs(corpus)),
                     Cardinality(Docs(corpus)))]
        impacts(acc) == << >> \o [i \in DOMAIN terms |-> <<terms[i], quantized(acc.terms[terms[i]], acc.docLens)>>]
        facet(f) == LET cats == SortSeq(f.cats, LAMBDA x, y : x.key < y.key)
                    IN [name |-> f.name, cats |-> << >> \o [i \in DOMAIN cats |->
                                                      [name |-> cats[i].name, docs |-> cats[i].docs]]]
    IN CASE r.kind = "go grams" ->
              [k \in {GramKey(g) : g \in grams} |->
                 {d \in Docs(corpus) : \E g \in GramsIn(corpus.texts[d], corpus.gram, fold) : GramKey(g) = k}]
         [] r.kind = "go terms" ->
              IF means = {} THEN NoTerm ELSE UNION {DocsOf(corpus, t) : t \in means}
         [] r.kind = "go prefix" ->
              [terms |-> here,
               each |-> [cut |-> r.limit > 0 /\ Len(with) > r.limit,
                         out |-> << >> \o [i \in DOMAIN here |-> [term |-> here[i], docs |-> DocsOf(corpus, here[i])]]],
               found |-> [docs |-> Least(UNION {DocsOf(corpus, t) : t \in Range(Cut(with, MaxPrefixTerms))}, r.limit),
                          cut |-> r.limit > 0 /\ Len(with) > MaxPrefixTerms]]
         [] r.kind = "go impacts" -> impacts(Accumulate(corpus.texts, corpus.spec))
         [] r.kind = "go id" ->
              IF NormalizeId(r.id) = << >> THEN << >>
              ELSE Ascending({corpus.ids[i].doc : i \in {j \in DOMAIN corpus.ids :
                       NormalizeId(corpus.ids[j].id) = NormalizeId(r.id)}})
         [] r.kind = "go vector" ->
              IF r.doc < Len(corpus.exact) THEN corpus.exact[r.doc + 1] ELSE << >>
         [] r.kind = "go rest" ->
              [columns |-> corpus.columns, model |-> GoModel(Trained(corpus)),
               facets |-> << >> \o [f \in DOMAIN corpus.facets |-> facet(corpus.facets[f])],
               boots |-> answer.boots,
               sets |-> [n \in {m \in {"grams", "terms"} : files.sets[m] # Refused} |->
                           OpenManifest(Manifest(n)).splits]]

\* Each Go reader gives what the corpus says, whichever package published it,
\* and its boot regions are those of the files (reader.go, terms_read.go and
\* the other readers).
GoReaderAgrees ==
    (asked # Nothing /\ asked.kind \in {"go grams", "go terms", "go prefix", "go impacts", "go id", "go vector",
                                        "go rest", "go records"}) =>
        /\ IF asked.kind = "go records" THEN RecordsTruth ELSE answer = GoTruth
        /\ asked.kind = "go rest" =>
             \A i \in DOMAIN answer.boots :
                 LET b == answer.boots[i] IN b.boot \in {<< >>, SubSeq(files[b.name], 1, b.bootLen)}
==============================================================================
