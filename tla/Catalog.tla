------------------------------- MODULE Catalog -------------------------------
(****************************************************************************)
(* The one-call facade over an index, a facet sidecar and a record store    *)
(* (rust/src/catalog.rs), the object that holds it in the browser           *)
(* (rust/src/wasm.rs, RrsCatalog) and the stateless server that pages the   *)
(* same index (examples/search-lambda).                                     *)
(*                                                                          *)
(* A sidecar is attached by consuming the catalog and putting the new one   *)
(* back; the browser refuses every other call while that is going on.  A    *)
(* search makes a cursor of its own and drops it.                           *)
(****************************************************************************)
EXTENDS QueryEval, Sequences, SequencesExt, Functions

CONSTANTS
    Queries,         \* the queries asked; `fields` and `excludes` filter them
    Offsets, Limits, \* the pages asked for
    WindowsPerCall,  \* TAIL_WINDOWS_PER_CALL
    Categories,      \* the categories of the facet sidecar: sets of documents
    Stored,          \* the documents with a record: 0 .. Stored - 1
    None             \* no record; a part of a page that is not there

ASSUME CatalogAssumption ==
    /\ WindowsPerCall \in Nat \ {0} /\ Stored \in Nat
    /\ Offsets \subseteq Nat /\ Limits \subseteq Nat

ASSUME QueriesAssumption ==
    \A q \in Queries : IsQuery(q) /\ {"keys", "post", "maxMissing"} \subseteq DOMAIN q

VARIABLES
    inner,          \* the catalog: its sidecars; None when it was consumed
    attaching,      \* the sidecar being opened, or None
    search,         \* the search in progress: query, offset, limit, cursor
    page            \* the page it returned, or None
vars == <<inner, attaching, search, page>>

Sidecars == {"facets", "records"}

\* Catalog::open, load_facets and load_records; RrsCatalog::open, openAll.
Init == /\ inner \in SUBSET Sidecars
        /\ attaching = None /\ search = None /\ page = None

------------------------------------------------------------------------------
\* search_cursor_filtered: the head is evaluated; nothing of the tail is read.
Fresh(q) ==
    LET none == Unmatchable(q)
    IN [query |-> q, head |-> IF none THEN {} ELSE HeadDocs(q),
        results |-> IF none THEN << >> ELSE Sorted(HeadDocs(q)),
        keys |-> IF none THEN {} ELSE CandidateKeys(q), done |-> none]

\* ensure's loop: windows until enough is there, the scan or the budget is at
\* its end, or the call has something new after two of them.
Scanned(cur, want) ==
    LET stop(a) == \/ Len(a.results) >= want \/ a.keys = {}
                   \/ Len(a.results) > Len(cur.results) /\ a.used >= 2
        window(a, n) ==
            IF stop(a) THEN a
            ELSE LET seed == CHOOSE t \in Recs(cur.query) : TRUE
                     docs == WindowDocs(cur.query, seed, NextKeys(a.keys))
                 IN [results |-> a.results \o Sorted(docs), used |-> n,
                     keys |-> a.keys \ NextKeys(a.keys)]
        a == FoldLeft(window, [results |-> cur.results, keys |-> cur.keys, used |-> 0],
                      [n \in 1 .. WindowsPerCall |-> n])
    IN [cur EXCEPT !.results = a.results, !.keys = a.keys, !.done = a.keys = {}]

\* ensure: nothing to do, the incremental scan, or the whole tail at once.
Ensured(cur, want) ==
    IF cur.done \/ want <= Len(cur.results) THEN cur
    ELSE IF Strict(cur.query) /\ cur.query.seekable THEN Scanned(cur, want)
    ELSE LET seed == CHOOSE t \in Recs(cur.query) : TRUE
         IN [cur EXCEPT !.results = @ \o Sorted(WholeTail(cur.query, seed)), !.done = TRUE]

Slice(cur, offset, limit) ==
    SubSeq(cur.results, offset + 1, Min({offset + limit, Len(cur.results)}))

------------------------------------------------------------------------------
\* RrsCatalog::openFacets, openRecords(WithDict): `inner` is taken, and put
\* back when the sidecar is open.  A failed open leaves nothing to put back,
\* and every later call is refused: it changes nothing.
Attach == \E s \in Sidecars :
    /\ inner # None /\ search = None /\ page = None
    /\ attaching' = [sidecar |-> s, prev |-> inner]
    /\ inner' = None
    /\ UNCHANGED <<search, page>>

Attached == /\ attaching # None
            /\ inner' = attaching.prev \union {attaching.sidecar}
            /\ attaching' = None
            /\ UNCHANGED <<search, page>>

AttachFails == /\ attaching # None
               /\ attaching' = None
               /\ UNCHANGED <<inner, search, page>>

\* A filter is resolved against the sidecar, and ignored without one.
Resolved(q) == IF "facets" \in inner THEN q ELSE [q EXCEPT !.fields = {}, !.excludes = {}]

\* Catalog::search up to its cursor.
Search == \E q \in Queries, offset \in Offsets, limit \in Limits :
    /\ inner # None /\ search = None /\ page = None
    /\ search' = [offset |-> offset, limit |-> limit, cursor |-> Fresh(Resolved(q))]
    /\ UNCHANGED <<inner, attaching, page>>

\* get_many, counts.
RecordOf(d) == IF d < Stored THEN d ELSE None
HeadCounts(docs) == [c \in Categories |-> Cardinality(docs \intersect Within(c, {0}))]

\* Mutant: the counts are of the page's documents.
CountsOfPage(cur, ids) == HeadCounts(ToSet(ids))

FacetCounts(cur, ids) == HeadCounts(cur.head)

\* The rest of a search: one page of the cursor, its records and the counts
\* over the head.
Paged(cur) ==
    LET ids == Slice(cur, search.offset, search.limit)
    IN [query |-> cur.query, offset |-> search.offset, limit |-> search.limit, ids |-> ids,
        served |-> FALSE, more |-> ~cur.done, total |-> 0,
        records |-> IF "records" \in inner THEN << >> \o [i \in DOMAIN ids |-> RecordOf(ids[i])] ELSE None,
        counts |-> IF "facets" \in inner THEN FacetCounts(cur, ids) ELSE None]

Answer == /\ search # None
          /\ page' = Paged(Ensured(search.cursor, search.offset + search.limit))
          /\ search' = None
          /\ UNCHANGED <<inner, attaching>>

\* A read of the page, of its records or of the cursor fails.
SearchFails == /\ search # None
               /\ search' = None
               /\ UNCHANGED <<inner, attaching, page>>

------------------------------------------------------------------------------
\* Mutant: the server asks once more, not until the page is full.
AskedTwice(cur, offset, limit) ==
    LET first == Ensured(cur, offset + limit)
    IN IF Len(Slice(first, offset, limit)) < limit THEN Ensured(first, offset + limit) ELSE first

\* The search server's handler pages until its page is full or the tail is
\* done.  Every round takes a window; there are no more rounds than keys.
AskedUntilFull(cur, offset, limit) ==
    FoldLeft(LAMBDA c, n : IF n = 0 \/ (Len(Slice(c, offset, limit)) < limit /\ ~c.done)
                           THEN Ensured(c, offset + limit) ELSE c,
             cur, [n \in 1 .. Cardinality(cur.keys) + 2 |-> n - 1])

\* The handler; its catalog has its facets and no records.
Serve == \E q \in Queries, offset \in Offsets, limit \in Limits :
    LET cur == AskedUntilFull(Fresh(q), offset, limit)
    IN /\ search = None /\ page = None
       /\ page' = [query |-> q, offset |-> offset, limit |-> limit, served |-> TRUE,
                   ids |-> Slice(cur, offset, limit), records |-> None,
                   more |-> ~cur.done, total |-> Len(cur.results),
                   counts |-> IF offset = 0 THEN HeadCounts(cur.head) ELSE None]
       /\ UNCHANGED <<inner, attaching, search>>

\* The caller is done with its page.
Close == page # None /\ page' = None /\ UNCHANGED <<inner, attaching, search>>

Next == \/ Attach \/ Attached \/ AttachFails
        \/ Search \/ Answer \/ SearchFails \/ Serve \/ Close
Spec == Init /\ [][Next]_vars

------------------------------------------------------------------------------
\* The page asked for, of the documents that a query means in rank order.
Window(p) ==
    LET all == Sorted(Matching(p.query))
    IN SubSeq(all, p.offset + 1, Min({p.offset + p.limit, Len(all)}))

\* A page never holds a document out of its place: its ids are the first of the
\* window asked for, each record is its own id's, and the counts are those of
\* the matching head whatever the page (Catalog::search).
PageIsSound ==
    page # None =>
        /\ IsPrefix(page.ids, Window(page))
        /\ page.records # None => page.records = << >> \o [i \in DOMAIN page.ids |-> RecordOf(page.ids[i])]
        /\ page.counts # None => page.counts = HeadCounts(Within(Matching(page.query), {0}))

\* A page of the server is the whole window, and its total the number of matches
\* if it says there are no more, at most that if it says there may be
\* (examples/search-lambda, handler).
ServedPageIsWindow ==
    page # None /\ page.served =>
        LET n == Cardinality(Matching(page.query))
        IN page.ids = Window(page) /\ IF page.more THEN page.total <= n ELSE page.total = n

\* What the facade says of a page: it "covers ranked doc IDs
\* [offset, offset+limit)" (rust/src/catalog.rs:120-121).
PageIsWindow == page # None /\ ~page.served => page.ids = Window(page)
==============================================================================
