--------------------------- MODULE MCSearchCursor ----------------------------
(* SearchCursor on buckets of two documents: document 2b and 2b+1 lie in     *)
(* bucket b.  Up to three keys, postings from a small family (each choice of *)
(* postings once, whichever key has which), four filters.                    *)
EXTENDS SearchCursor, TLC

CONSTANTS k1, k2, k3

MCPerm == [d \in 0 .. 11 |-> (5 * d + 3) % 12]

Family == <<{}, {0, 2, 5, 6, 8, 11}, {1, 2, 4, 7, 8, 10, 11}, {0, 3, 6, 9, 11}>>
Filters == {[fields |-> {}, excludes |-> {}],
            [fields |-> {{{0, 5, 8}, {2, 11}}}, excludes |-> {}],
            [fields |-> {{{0, 2, 8, 10}}, {{2, 3}, {8, 9, 11}}}, excludes |-> {{3, 8}}],
            [fields |-> {{}}, excludes |-> {}]}

Query(post, miss, f, seek) ==
    [keys |-> DOMAIN post, post |-> post, maxMissing |-> miss, fields |-> f.fields,
     excludes |-> f.excludes, seekable |-> seek, mapped |-> miss = 1]

I == DOMAIN Family
Posts1 == {(k1 :> Family[i]) : i \in I}
Posts2 == {(k1 :> Family[i[1]] @@ k2 :> Family[i[2]]) : i \in {j \in I \X I : j[1] <= j[2]}}
Posts3 == {(k1 :> Family[i[1]] @@ k2 :> Family[i[2]] @@ k3 :> Family[i[3]]) :
             i \in {j \in I \X I \X I : j[1] <= j[2] /\ j[2] <= j[3]}}

TwoFilters == {f \in Filters : f.fields = {} \/ f.excludes # {}}

MCQueries ==
    {Query(post, miss, f, TRUE) : post \in Posts1 \union Posts2, miss \in {0, 1}, f \in Filters}
    \union {Query(post, 0, f, FALSE) : post \in Posts1 \union Posts2, f \in TwoFilters}
    \union {Query(post, miss, f, TRUE) : post \in Posts3, miss \in {0, 1}, f \in TwoFilters}

\* Fewer queries, for the run that looks for one behaviour.
FewQueries ==
    {Query(post, miss, f, TRUE) : post \in Posts2, miss \in {0, 1}, f \in Filters}
=============================================================================
