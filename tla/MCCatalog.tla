------------------------------ MODULE MCCatalog ------------------------------
(* Buckets of two documents, windows of one bucket and two or three windows   *)
(* to a call: pages that begin in the head, behind it and far behind it, with *)
(* matches in every bucket, in few of them and in none.                       *)
EXTENDS Catalog, TLC

CONSTANTS k1, k2

MCPosts == << {}, {0, 2, 5, 6, 8, 11, 12, 15}, {1, 2, 4, 7, 8, 10, 11, 14, 15}, 0 .. 15, {1, 13, 14} >>
MCFilters == { [fields |-> {}, excludes |-> {}], [fields |-> {{{0, 5, 8}, {2, 11, 14}}}, excludes |-> {{8}}],
               [fields |-> {{{1, 2, 8, 10, 15}}, {{2, 3}, {1, 8, 9, 11, 15}}}, excludes |-> {}],
               [fields |-> {{}}, excludes |-> {}] }
MCQueries ==
    { [keys |-> {k1, k2}, post |-> (k1 :> MCPosts[i] @@ k2 :> MCPosts[j]), maxMissing |-> miss,
       fields |-> f.fields, excludes |-> f.excludes, seekable |-> seek] :
        i \in DOMAIN MCPosts, j \in 2 .. 4, miss \in {0, 1}, f \in MCFilters, seek \in BOOLEAN }
MCCategories == {{0, 5, 8}, {2, 11, 14}, {1, 0, 3}}
==============================================================================
