------------------------------ MODULE MCLibrary ------------------------------
(****************************************************************************)
(* Three small corpora, each published either way and asked every request.  *)
(* Letters are a = 1 .. d = 4, capitals 5 .. 8, and 9 is a mark.            *)
(****************************************************************************)
EXTENDS GoLibrary

CONSTANTS Language, Dictionary

\* The stemmer takes a final d away; "a" and "ba" are stop words.
MCStem(language, word) == IF Len(word) > 1 /\ Last(word) = 4 THEN Front(word) ELSE word
MCStopWords == [l \in {Language} |-> {<<1>>, <<2, 1>>}]
MCIdf(card, n) == 1 + (8 * n) \div (2 * card + 1)

MCHash1(key) == (key * 40503 + 7) % 65536
MCHash2(key) == 2 * ((key * 30011) % 32768) + 1
MCFacetKey(field, cat) == CASE field = 1 /\ cat = 1 -> 9 [] cat = 2 -> 4 [] cat = 3 -> 7 [] OTHER -> 1

\* Some identifiers share a hash, and none both hashes.
MCIdHash(id) == (Total(id) * 5) % 32
MCIdVerify(id) == 10 * id[1] + Len(id)

Plain == [language |-> NoLanguage, stem |-> FALSE, stopwords |-> FALSE, caseFold |-> TRUE]

Folded ==
    [texts |-> [d \in 0 .. 7 |->
        << <<1, 2, 3, 0, 1, 2>>, <<5, 6, 9, 3, 0, 2, 4>>, <<3, 1, 2, 0, 1>>, <<1, 2, 0, 1, 2, 4, 0, 1, 2>>,
           <<2, 3, 0, 3, 1>>, <<1, 2, 3, 0, 2, 3, 4>>, <<1, 4, 0, 1, 2>>, <<3, 2, 3>> >>[d + 1]],
     gram |-> 2, caseFold |-> TRUE, runs |-> {11}, stride |-> 3, cut |-> 3,
     spec |-> [language |-> Language, stem |-> TRUE, stopwords |-> TRUE, caseFold |-> TRUE],
     boundary |-> 2,
     ids |-> << [id |-> <<1, 9, 2>>, doc |-> 4], [id |-> <<2, 1>>, doc |-> 1], [id |-> <<5, 2>>, doc |-> 0],
                [id |-> <<3>>, doc |-> 2], [id |-> <<1, 2>>, doc |-> 6], [id |-> <<9>>, doc |-> 3],
                [id |-> <<1, 1, 1>>, doc |-> 5], [id |-> <<4, 4, 4>>, doc |-> 7] >>,
     columns |-> << [name |-> "year", type |-> "u16", values |-> <<7, 9, 7, 3, 9, 1, 7, 2>>],
                    [name |-> "perm", type |-> "u32", values |-> <<3, 0, 7, 1, 6, 2, 5, 4>>] >>,
     vectors |-> << [id |-> 0, v |-> <<0, 0>>], [id |-> 1, v |-> <<1, 0>>], [id |-> 2, v |-> <<8, 8>>],
                    [id |-> 3, v |-> <<9, 8>>], [id |-> 4, v |-> <<4, 3>>], [id |-> 5, v |-> <<5, 5>>] >>,
     training |-> [dim |-> 2, nlist |-> 3, m |-> 2, ksub |-> 2, iters |-> 1, draws |-> <<2, 1, 2, 3, 4>>],
     parts |-> << >>,
     exact |-> << <<0, 0>>, <<1, 0>>, <<8, 8>>, <<9, 8>>, <<4, 3>>, <<5, 5>> >>,
     facets |-> << [name |-> 1, cats |-> << [name |-> 1, key |-> 9, docs |-> {0, 3, 5}, seekable |-> FALSE],
                                            [name |-> 2, key |-> 4, docs |-> {1}, seekable |-> TRUE] >>],
                   [name |-> 2, cats |-> << [name |-> 3, key |-> 7, docs |-> {2, 4, 6, 7}, seekable |-> TRUE] >>] >>,
     records |-> << <<1, 1, 1, 2>>, << >>, <<3, 4>>, <<5, 5>> >>, dict |-> Dictionary, with |-> Dictionary,
     bundled |-> 2, threshold |-> 6,
     spill |-> [first |-> 3, done |-> 2, then |-> 3],
     set |-> [cap |-> 30, capMax |-> 35, bits |-> 5, top |-> 1, v2 |-> FALSE, workers |-> 3, base |-> 1, most |-> 4,
              keep |-> 0],
     ranks |-> <<2, 5, 2, 7, 5, 1, 5, 3>>]

\* Case sensitive, unstemmed, everything in the bundle; the vectors come from
\* another trainer and are rotated by a quarter.
Sensitive ==
    [Folded EXCEPT !.caseFold = FALSE, !.ranks = <<1, 2, 3, 4, 4, 3, 2, 1>>, !.runs = {}, !.stride = 0, !.cut = 0,
        !.spec = [Plain EXCEPT !.caseFold = FALSE], !.boundary = 4, !.bundled = 0, !.threshold = 4,
        !.dict = NoDict, !.with = NoDict,
        !.spill = [first |-> 3, done |-> 1, then |-> 4],
        !.set = [cap |-> 42, capMax |-> 0, bits |-> 0, top |-> 2, v2 |-> TRUE, workers |-> 2, base |-> 3, most |-> 3,
                 keep |-> 1],
        !.parts = << [dim |-> 2, nlist |-> 2, m |-> 1, ksub |-> 2, opq |-> << <<0, 1>>, <<-1, 0>> >>,
                      centroids |-> << <<0, 0>>, <<7, -7>> >>,
                      codebooks |-> << << <<0, 0>>, <<1, -1>> >> >>,
                      assign |-> <<1, 1, 2, 2, 1, 2>>,
                      items |-> << [id |-> 0, code |-> <<1>>], [id |-> 1, code |-> <<1>>], [id |-> 2, code |-> <<2>>],
                                   [id |-> 3, code |-> <<2>>], [id |-> 4, code |-> <<2>>], [id |-> 5, code |-> <<1>>] >>] >>]

\* Nothing to find.
Bare ==
    [Folded EXCEPT !.texts = [d \in 0 .. 1 |-> <<1, 0, 9>>], !.ranks = <<0, 0>>, !.spec = Plain, !.runs = {}, !.ids = << >>,
        !.columns = << [name |-> "perm", type |-> "u32", values |-> << >>] >>, !.bundled = 1, !.threshold = 0,
        !.with = NoDict, !.facets = << >>,
        !.spill = [first |-> 1, done |-> 2, then |-> 1],
        !.set = [cap |-> 0, capMax |-> 0, bits |-> 3, top |-> 0, v2 |-> FALSE, workers |-> 4, base |-> 4, most |-> 4,
                 keep |-> 0],
        !.vectors = << [id |-> 0, v |-> <<2, 1>>] >>, !.exact = << <<2, 1>> >>,
        !.training = [dim |-> 2, nlist |-> 3, m |-> 2, ksub |-> 2, iters |-> 0, draws |-> <<1>>]]

MCCorpora == {Folded, Sensitive, Bare}

Queries == { << >>, <<1>>, <<1, 2>>, <<1, 2, 3>>, <<2, 3>>, <<5, 2>>, <<1, 2, 0, 2, 3>>, <<2, 1>>, <<1, 4>>,
             <<2, 9, 3>>, <<3, 1, 2>>, <<4, 4>>, <<2, 4, 0, 3>>, <<3, 0, 1, 2>>, <<6, 9, 3>>, <<2, 3, 2>> }
Vectors == {<<0, 0>>, <<1, 0>>, <<8, 8>>, <<4, 3>>, <<5, 5>>, <<1, 6>>, <<2, 1>>}

Selections == {{<<1, 1>>}, {<<1, 2>>, <<1, 1>>}, {<<1, 1>>, <<2, 3>>}, {<<2, 3>>}, {<<2, 5>>}}

MCRequests ==
    [kind : {"grams"}, file : {"grams", "merged"}, query : Queries, limit : {0, 1, 3, 9}]
    \union [kind : {"candidates"}, query : Queries, k : {0, 1, 2}]
    \union [kind : {"price"}, query : Queries]
    \union [kind : {"terms"}, query : Queries, limit : {0, 1, 2, 9}]
    \union [kind : {"prefix"}, prefix : {<<1>>, <<1, 2>>, <<2>>, <<5>>, <<3, 1>>, <<3, 2, 3, 1>>, << >>}, limit : {0, 2, 9}]
    \union [kind : {"ranked"}, query : Queries, m : {1, 3, 9}, k : {1, 2, 9}]
    \union [kind : {"some"}, query : Queries, m : {1, 3, 9}, k : {2, 9}, min : {0, 1, 2}]
    \union [kind : {"id"}, id : {<<1, 2>>, <<5, 9, 6>>, <<2, 1>>, <<3>>, <<9>>, <<1, 1, 1>>, <<4, 4, 4>>, <<4>>, << >>}]
    \union [kind : {"values"}, column : {"year", "perm", "none"}, docs : {<<3, 0, 3>>, <<7, 2, 1>>, <<1, 8>>, << >>}]
    \union [kind : {"top"}, column : {"year", "perm"}, docs : {<<6, 0, 3, 1>>, <<7, 2, 5, 4>>}, k : {0, 2, 9},
            descending : BOOLEAN]
    \union [kind : {"slice"}, column : {"year", "perm"}, start : {0, 3, 7, 9}, len : {0, 2, 9}]
    \union [kind : {"near"}, query : Vectors, k : {0, 2, 6}, nprobe : {0, 1, 3}]
    \union [kind : {"reranked"}, query : Vectors, k : {1, 3, 6}, nprobe : {1, 6}, r : {2, 6}]
    \union [kind : {"set"}, set : {"grams", "stripped", "sliced", "top", "terms", "banded", "slicedTerms"},
            query : Queries, selected : {{}}, limit : {1, 9}]
    \union [kind : {"set"}, set : {"grams", "stripped"}, query : {<<1, 2>>, <<2, 3>>, <<5, 2>>, <<3, 1, 2>>},
            selected : Selections, limit : {1, 9}]
    \union [kind : {"built"}, query : Queries, limit : {0, 2, 9}]
    \union [kind : {"count"}, set : {"grams"}, query : Queries, selected : {{}} \union Selections, excluding : {FALSE}]
    \union [kind : {"count"}, set : {"grams"}, query : {<<1, 2>>}, selected : Selections, excluding : {TRUE}]
    \union [kind : {"reorder"}, query : Queries, docs : {<<6, 1, 0, 3>>, <<5, 2>>, << >>}, k : {0, 1, 9}]
    \union [kind : {"fused"}, lists : {<< <<3, 1, 2>>, <<2, 3>> >>, << <<1>>, <<4, 1>>, <<2, 5, 4>> >>, << << >>, <<7, 6>> >>},
            weights : {<< >>, <<1, 3>>, <<0, 2>>, <<2, 1, 1>>, <<1, 0, 5>>}, param : {0, 60}]
    \union [kind : {"prune"}, query : Queries, selected : Selections]
    \union [kind : {"go grams"}, file : {"grams", "merged"}, query : Queries]
    \union [kind : {"go terms"}, query : Queries]
    \union [kind : {"go prefix"}, prefix : {<<1>>, <<1, 2>>, <<2>>, <<5>>, <<3, 2, 3, 1>>, << >>}, limit : {0, 1, 2, 9}]
    \union [kind : {"go impacts", "go rest"}]
    \union [kind : {"go id"}, id : {<<1, 2>>, <<5, 9, 6>>, <<2, 1>>, <<3>>, <<9>>, <<1, 1, 1>>, <<4, 4, 4>>, <<4>>}]
    \union [kind : {"go records"}, page : {<<0, 3, 2>>, <<2, 9, 1, 2>>, <<1>>, << >>}, gap : {0, 2}]
    \union [kind : {"go vector"}, doc : {0, 3, 5, 6}]
==============================================================================
