# roaringrange: a TLA+ verification project

roaringrange serves full-text search from static files. An index is built
offline, put on an object store, and read by clients with HTTP range requests;
there is no search server. These modules model the parts of the Rust crate
(`rust/src`, and its tools in `rust/examples`) that keep state, await, race,
retry or crash; the algorithms that decide what a query returns; every file
format, as what its writer writes and its reader reads; and the Go package's
writers and readers of the same files. TLC checks them on small instances;
TLAPS proves the properties that matter most for every value of the constants.

Source references are relative to the repository root.

## 1. Inventory

| Component | State | Operations | Hard behaviour | What makes it correct |
|---|---|---|---|---|
| **Fetch window** `fetch_window.rs` | limit, active count, waiter queue, futures | acquire, poll, drop of a waiter or a permit, resize | wake-ups against drops and resizes, in any executor order | permits counted exactly; nobody sleeps while there is room |
| **Range cache** `range_cache.rs` | hash map, recency map, byte count, budget, clock | get, insert, evict, resize | two maps and a counter that must agree at every budget | is a strict LRU within its budget |
| **Browser fetch layer** `wasm.rs` | cache slot, weak singleflight table, gate, callers | read (hit, join, start), completion, failure, abandonment, resizing | joined reads, abandoned callers, gaps between cache and table | one fetch per range at a time; no permit trapped; every read returns |
| **Coalesced reads** `fetch.rs` | none | merge ranges by gap, read, slice | overlap and boundary arithmetic | equals reading each range alone |
| **Split-set writer** `splitset_write.rs` | manifest entries, counters, memtable, pending deletes | new, resume, add, delete, flush, compact, emit | resume rebuilds the counters from what is left in a manifest | names and ids unique; deleted stays deleted; postings lie in their range |
| **Ingestion client** `examples/splitset_ingest.rs` | object store, source position, writer output | poll, flush, PUT split, PUT manifest, ack, compact, delete old | crash between any two steps, redelivery, concurrent readers | manifest always resolves; acked means findable; readers see a snapshot |
| **Split-set reader** `splitset.rs` | immutable manifest | search, filtered search, count, facet counts | pruning and early stop against completeness; tombstones across splits | a page is the head of the full answer; counts are exact |
| **Index and postings** `index.rs`, `posting.rs`, `ngram.rs` | header, sparse dictionary; scan position | dictionary look-up, threshold, AND, facet filter, tail scan, whole-tail load, price and estimate | two ways to the same tail, in pieces; blocks at their boundaries | same documents either way, and those of the corpus |
| **Search cursor** `index.rs`, `secondary.rs` | results, position, scan, flags | next, page, load_tail | each await may fail or be dropped, and the caller calls again | results are a growing prefix of the answer |
| **Split-set builders** `splitset_build.rs`, `examples/build_term_splitset.rs` | open split, its size bound, sealed entries, files not yet drained | add (which may seal), drain, finish; bands, their merge and renames | an estimate decides the cut; doubling caps; files leave at any time; workers number from zero | every document in exactly one split; caps kept; the set answers from the corpus |
| **Split-set tools** `examples/slice_*.rs`, `derive_split_facets.rs`, `splitset_strip_summaries.rs`, `build_global_bloom.rs` | files | cut an index into splits, derive sidecars, drop summaries, one filter over a set | parallel streams, local numbering | what they make is what the builder would have made |
| **Chunked builder** `build.rs` | chunk in memory, partial files | add, spill, merge | k-way merge over sorted cursors | merged postings equal unchunked ones |
| **Term index** `terms.rs`, `terms_dict.rs`, `terms_build.rs` | header, router | tokenize, AND search, prefix search, completion | front coding across blocks, a cap over waves of blocks | answers of the corpus; the cut told exactly |
| **BM25** `bm25.rs`, `examples/build_impacts.rs` | header, sparse keys; runs on disk | accumulate, write, rerank, min-match; spill, resume, merge | impacts addressed by rank in a posting, through stripes | ranking by score; the streamed file equals the one-shot file |
| **Facets** `facet.rs` | resident table, heads, directories | write, open (meta, digest, boot), resolve, filter, price | counts put together from three coalesced waves | counts are direct counts |
| **Records** `records.rs` | resident offset prefix | get, get_many, preload | the prefix changes between two awaits of one page | each id's own record |
| **Look-up, sort columns** `lookup.rs`, `sortcols.rs` | header | look up; values, slice, topk | interpolation over equal hashes; merged spans of rows | equals the table it was built from |
| **Vectors** `vector.rs`, `vector_build.rs` | centroids, codebooks | train, search, rerank, fusion with a lexical list | assignment older than the centroids; two query spaces | own vector found; rescoring exact |
| **Hotcache, bundle** `hotcache*.rs`, `splitset_bundle.rs` | boot regions by name | write, open, overlay | trusted by name | a boot region is the file's own |
| **Catalog** `catalog.rs`, `wasm.rs`, `examples/search-lambda` | attached sidecars | attach, search; a stateless page | attached by consuming; bounded work per call | page is a prefix of its window; served page is all of it |
| **Go package** `*.go` | builders, readers | the same files | a second implementation of every format | the same cells; the same answers |
| **Python, command line, OpenAlex example, benchmarks** | | wrappers and drivers | | (section 7) |

How they interact: the ingestion client moves the bytes a *writer* (or a
*builder*) makes to the object store; a *reader* opens a manifest and searches
splits concurrently; a split is an *n-gram* or a *term index* with a *facet
sidecar*; an index's *cursor* pages through head and tail of its *postings*;
*records*, *columns* and the other sidecars are keyed by document. All of it
reads ranges through a `RangeFetch`, which in the browser is the *fetch layer*
over *cache* and *window*. Everything is single-writer and the browser is
single-threaded: the interleavings are those of futures between awaits, of a
crash between two object-store operations, and of a reader that works while a
writer goes on.

## 2. Modules

State machines:

| Module | Models | State and actions against the code |
|---|---|---|
| `FetchGate` | fetch_window.rs | a read is an `Acquire` future with a `pc`; one action per `poll` outcome, `Drop` and `set_limit` |
| `RangeCache` | range_cache.rs | `last` is `map`, `recency`, `bytes`, `maxBytes`, `clock` are the fields; `Get`, `Insert` (with its eviction), `SetMaxBytes` |
| `LruCache` | abstract | a sequence, least recently used first, and a budget |
| `FetchLayer` | wasm.rs:48-110, 211-380 | composes the two: callers, flights (`Shared` futures), their outcomes and the weak `table`; `ReadCached`, `ReadJoin`, `ReadStart`, `Repoll`, `Fail`, `Succeed`, `Settle`, `Abandon` and the resizers |
| `SplitWriter` | splitset_write.rs | the fields of `SplitSetWriter`; `Resume`, `AddKeys`, `Delete`, `Flush`, `Compact` |
| `SplitIngest` | the client loop, store, source, reader | composes the writer with crashes and object-store steps |
| `DocStore` | abstract | what a reader may notice: batches appear under fresh ids, deletes are for good |
| `QueryEval` | index.rs, posting.rs | pure operators over postings as sets: `Threshold`, `Filtered`, `CandidateKeys`, `WindowDocs`, `WholeTail` |
| `SearchCursor` | index.rs Cursor, secondary.rs | the fields of `Cursor`; one action per await of `ensure`, per call and per return; `Fault` for a failed or dropped await |
| `SplitSearch` | splitset.rs | a query as a walk: `Top`, `Probe`, `Descend` by waves, or `Gather` and `Merged`; `Estimate`, `Owner` |
| `SplitBuild` | splitset_build.rs | `b` is the `SplitSetBuilder`; `Sealed` and `Inserted` are `seal` and the tail of `add_inner` as functions of it; `Add`, `Drain`, `Finish`; `disk` is what the caller has written |
| `BuildSearch` | both | composes `SplitBuild` with `SplitSearch`: the reader opens what is on disk |
| `FacetPanel` | splitset.rs facet counts, facet.rs, wasm.rs filters | a panel request: one future per split, priced concurrently, failing and missing sidecars, sums by name; the single sidecar with loaded heads; a page filtered through the sidecar (`filterIds`), its sides ahead of and behind the bucket boundary read separately |
| `RecordPages` | records.rs, wasm.rs RrsRecords | callers with a page between its two waves while prefixes are preloaded or handed over |
| `Catalog` | catalog.rs, wasm.rs RrsCatalog, search-lambda | attach by consumption, a search with its own cursor, the server's loop over pages |
| `Library` | a corpus as all of its files, and a reader of them | `Publish` builds everything, the Python binding's build by rank included; one `Ask` action per query kind of every reader |
| `GoLibrary` | Library in two languages | `PublishGo`, and the Go readers' `Ask` actions |

Files, as functions (a writer gives a sequence of cells, a reader reads it back
through offsets):

| Module | Models |
|---|---|
| `PostingBytes` | fetch.rs; the layout of a posting and all reads through its directory (posting.rs) |
| `Chars` | the characters the tokenizers tell apart |
| `NgramIndex` | RRSI: ngram.rs, build.rs (one-shot and chunked), the dictionary and one-shot searches of index.rs |
| `TermIndex` | RRTI: terms.rs, terms_dict.rs, terms_build.rs |
| `Bm25` | RRSB: bm25.rs and the resumable examples/build_impacts.rs |
| `IdLookup`, `SortCols`, `VectorIndex`, `Records` | RRIL, RRSC, RRVI with RRVR, RRSR |
| `FacetIndex` | RRSF: facet.rs, `write_facets_with` |
| `SplitFiles` | RRHC: hotcache and bundle; RRSS: manifest, TLV summaries, Bloom filters, digests; both builders over real bodies; bands and renames; the tools; a search of the stored set |
| `GoFiles` | the Go package: every writer and reader, written from its own control flow |

Theorems are in `FetchLayerProofs`, `SplitIngestProofs`, `SearchCursorProofs`,
`SplitSearchProofs`, `SplitBuildProofs`, `CatalogProofs`, `FileProofs` (coalesced
reads, the record store, the Bloom filter) and, about sets and sums of naturals, in
`NatSetLemmas`. `MC*` modules are the instances for TLC.

Operators named in a comment as mutants (`LeakingDropAcquire`, `BaseOnlyMasked`,
...) are plausible faults of the definition that follows them. No specification
uses them; each documents a change under which a property stops holding.

Abstractions. A document, range, key or category is a model value or a small
number. In the state machines a posting is a set of ids and a Bloom filter the
set of keys it answers "maybe" for. In the file modules a file is a sequence of
*cells* and an offset counts cells: a header, a directory entry, a varint, a
name or a number takes one cell where it takes several bytes in the code, so the
offset arithmetic, the coalescing and the bisections are there, and the widths
of fields are not, except where a module says so (`SortCols`, the filter's bytes,
the builder's caps). Records and dictionaries are compressed by any code that
shortens repetition. Text is over four letters with capitals, white space and
marks; the stemmer and the stop words are constants. Scores, centroids and means
are integers, and the reciprocal ranks that fusion adds up are exact fractions. Not modelled in any format: checksums, alignment, magic numbers.

Because a file is a function of the corpus and readers are functions of files,
`Library` has few steps and large ones. A chain of the code's steps is written as
a chain of operators, each of which takes what the one before it made.

## 3. Runs

| Run | Instance | Shows |
|---|---|---|
| `fetch_layer` | 2 callers, 3 flights, ranges of 1, 1 and 2 bytes, windows {0, 1}, budgets {0, 1, 3} | permits exact, no lost wake-up, no trapped permit, one fetch per range, the cache implements `LruCache`, every read returns |
| `ingest_spare` | 2 documents over a base of 1; 1 crash, 1 compaction, 1 delete, a reader; the client compacts adjacent deltas and spares the newest | manifest resolves, acked is findable, snapshot reads, deleted stays deleted, ids and files never reused, refinement of `DocStore`, every document acked |
| `ingest_ids` | as above, any compaction, one document without keys | *violated*: ids are handed out again (section 6) |
| `cursor_pages` | 220 queries: up to 3 keys, fuzzy or strict, 4 filters, 12 documents in 6 buckets, 1 fault | results are a prefix of the answer, nothing foreign or lost, calls return |
| `cursor_retry` | fewer queries, 1 fault | *violated*: retry after a failed window (section 6) |
| `split_search` | every assignment of key and facet sets to 4 documents, 1 or 4 base splits, or 2 base splits with 3 deltas; 4 limits, 3 key sets, 3 filters | page is the head of the answer, count estimate sound |
| `build_search` | up to 5 documents of 4 kinds, caps 97/194, 105 flat, 105 over its own maximum, 60/240 in a word of 8 bits, 12 requests | splits fit their caps, err only on a degenerate document or a cap that lost its bits; the set opened from disk, however drained, answers from the corpus |
| `facet_panel` | sidecars of two fields over 8 documents in 4 containers, seekable or not, every version and cap of the digest, one or two splits, missing and failing sidecars | panel and pair counts exact; a filtered page keeps exactly the ids the selection admits, in their order |
| `records` | 5 stores, 2 callers, prefixes of every length installed twice, two gaps | every page and record is the id's own, plain or packed, or the error it must be |
| `records_preload` | as above | *violated*: a shorter prefix between the waves (section 6) |
| `catalog` | 16 documents in 8 buckets, windows of one bucket, three to a call, failing attachments | a page is a prefix of its window with its own records and counts; the server's page is the window |
| `library` | three corpora (folded with stemming and packed records; case sensitive with a foreign rotated model; nearly empty), published by either package, some 1,100 requests of every reader against each | every answer is the corpus's, from the file or from the bundle; both packages write the same files; the tools' sets equal the builder's; impacts are the same through runs on disk, resumed or refused; candidates handed to a reranker come back in its order; an exact count is the length of the answer |

Why the bounds are enough to be interesting. Two callers and three flights let
one range be joined, abandoned and fetched afresh while another waits for the
only slot; a range of two bytes is larger than one budget and evicts two others
under the next. Two documents with a base give two deltas to compact, a
compaction of a compaction, and a delete in the base or in a delta, with a
crash between any two object-store steps. Queries over six buckets leave
several windows after the eager one, with buckets that some posting lacks, that
a filter empties and that hold no match. Four base splits make a top split, a
full wave and a short wave; the third delta takes the id that the deletes-only
delta before it nominally claims.

The byte caps of `build_search` are those of one and two keys, give or take the
bytes that decide a cut: they make splits of one, two and several documents, a
split closed by an element, one closed by a new key, and a first document that
is degenerate. In a word of 8 bits the fourth tier of the growing cap 97 has 8
bytes left (776 mod 256), so five documents reach the tier at which 64 bits overflow
in the code, and a corpus that fits fails there. The builder's byte counts are exact for splits of less than 65536
documents, which is what a cap in the hundreds of bytes admits.

In the file modules a bucket has two documents for 65536, a stride two or three
entries for 128, a wave two blocks or splits, a dictionary block 12 cells, a
prefix scan three terms, a block of the identifier look-up two records, and a
gap zero, one or two cells. With up to eight documents and some thirty terms each
corpus has several dictionary blocks, postings with no, one and three tail
containers, keys before the first sparse key and in a last short block, runs of
equal hashes, and coalesced spans that join some ranges and not others. Caps of
30 and 42 cells cut it into several splits; the hash of the filter and the word
of the cap have 16 bits. A tier is clamped at 2, so that a set of four splits has
two of the last tier.

Bounds on counters: `MaxDocs` (documents a caller adds), `MaxClock` (a cache hit
past that clock is not taken), `MaxCrashes`, `MaxCompacts`, `MaxDeletes`,
`MaxFaults`, `MaxInstalls`, and the finite sets of flights, callers and
documents. They limit how much happens, not what a step does.

Deadlock is checked in every run but those of `SplitIngest` and of the builder.
A builder is consumed by `finish`, and after an error there is nothing to search.
In `SplitIngest` the client legitimately stops when every document is acked and
nothing is left to delete or compact.

Defined and not among the runs, as the theorems or a composed property say more,
or as the code does not promise them: the type invariants, `CacheAccounts`,
`TableBounded`, `NextDeliversInOrder`, `OverOpenBounded`, `HitsHaveOwners`,
`FilesComplete`, `DisjointRanges`, `EntriesHaveCounts`, `PageIsWindow` and
`FacetlessSplitsArePruned` (the last four are in section 6).

### Fairness

* `FetchLayer`: the executor polls every woken flight and every caller whose
  flight has completed (that is what a waker guarantees), and the browser
  settles each fetch it has accepted, with a body or an error. Starting,
  abandoning and resizing are not fair. Weak fairness suffices, and this shows
  that the code needs no stronger scheduling: a woken read is re-parked only
  when another one took the slot.
* `SplitIngest`: the loop of the example is restarted after a crash and keeps
  polling, flushing and finishing its cutover. Crashes, deletes and compactions
  are not fair, and crashes are bounded (a process that always crashes before it
  acks makes no progress in the code either).
* `SearchCursor`: the call in progress is polled and its reads settle. Nobody
  has to make another call.

## 4. Two implementations of one format

`SameFiles` compares, cell for cell, what the Rust and the Go writers make of a
corpus. They differ where the code lets them: only Rust makes run containers
(the corpus says which keys have them), packed records are compared by what they
decode to, and Go always splits the facet sidecar at the bucket boundary, which
Rust takes as a parameter (the corpora give it the same one).
`GoReaderAgrees` asks the Go readers about either package's files; the Rust
properties (`GramAnswers`, `TermAnswers`, ...) do so for the Rust readers. Shared
and not compared: the stemmers, the stop words, the hashes, the trained vector
model and zstd.

The same property takes the tools along: what `slice_trigram_monolith`,
`slice_term_monolith` and `derive_split_facets` cut out of the files of all
documents, at the boundaries where the builder cut, is what the builder sealed;
and `build_impacts`, taken up from chunks that an earlier process left, writes
what the one-shot writer writes, or refuses if those chunks were of another size.

## 5. Theorems

Checked by TLAPS for every value of the constants that satisfies the named
assumptions. TLC evaluates each assumption in a run.

* **Fetch window** (`FetchLayerProofs`). `GateTypeCorrect`; `QueueIsParkedAlways`
  by induction on its own; `NoLostWakeupAlways` and `PermitAccountingAlways`
  from it (a release empties the queue, so the parked are woken; only a finite
  set of reads, `ReadsAssumption`, is needed for the count).
* **Fetch layer** (`FetchLayerProofs`). `LayerImplementsGate`: every step of the
  composed layer is a gate step or a stutter, so the gate's theorems carry over
  (`LayerNoLostWakeup`, `LayerPermitAccounting`). `FlightInvariance` proves the
  inductive invariant `FlightInv`. `OneFetchPerRange` is not inductive: a second
  fetch starts when the table does not find the first. The strengthening says
  that the table finds every live flight (`TableFinds`), never points at a flight
  that was not started (`EntriesAreStarted`), and that outcomes fit the flights'
  states (`OutcomesFit`). `PermitsHaveReaders` and `NoFetchOfCached` are parts of
  the same invariant, since a flight nobody holds would be invisible to the
  table and a range cached too early would be missed.
* **Range cache**, inside the layer (`FetchLayerProofs`). `CacheInv` says that the
  recency map is the inverse of the entries' clocks (`Mirror`), that the byte count
  is the sum of the sizes held, and that it is within the budget. `CacheAccountsAlways`
  follows, and with it `LayerTypeCorrect`: no subtraction of the code wraps.
  `CacheImplementsLru` refines `LruCache`: the entries in the order of their clocks
  are its list, a hit moves one to the end, and the loop that evicts removes exactly
  the shortest prefix that makes room (`Evicts`, an induction over what it removes).
* **Ingestion** (`SplitIngestProofs`). `Invariance` proves the inductive invariant:
  types, finite manifests, names below the sequence counters, bodies that match
  their entries, and what the output in hand will do to the store. From it
  `TypeCorrect`, `NamesUniqueAlways`, `ManifestResolvesAlways`,
  `DeletedStaysDeletedAlways`, `RangesHoldPostingsAlways` and the action property
  `LiveFilesIntactAlways`. They assume nothing about which deltas a client
  compacts, how often it crashes, or how many documents there are.
  The promises to readers need a client that does not compact its newest delta
  (`SpareNewest`), and are false without it: `ingest_ids` shows ids handed out
  again. Under it `SparedInvariance` adds `Kept`: ids and names that were ever
  published lie below the counters a restarted writer recovers (`Covered`), the
  output in hand is new to both (`OutputIsNew`), tombstones are of published ids,
  a cutover shows the batch it carries, and the files a reader still looks for are
  those of its manifest. `AckedIsFindableAlways`, `ReaderSeesSnapshotAlways`, the
  action properties `IdsNeverReissuedAlways` and `PublishedFilesImmutableAlways`,
  and the refinement `ImplementsDocStoreAlways` follow: a cutover is a `Publish`
  of the abstract store, every other step a stutter.
* **Query evaluation and the cursor** (`SearchCursorProofs`). `ThresholdCounts`: the
  cascade of counters finds the documents that are in at least m postings, for any
  postings and order. Lemmas say that a window's documents are the matching ones
  of its buckets, and that candidate buckets are those that can hold a match.
  `CursorInvariant` proves `Typed /\ Phases /\ Content /\ Delivery`: what is
  materialised while a scan is held (the answer in the buckets it has passed,
  all of them before those it has left), before and after it, and after one was
  lost to a fault. `CursorHoldsPrefix` and `CursorIsSoundAndComplete` follow for all
  finite queries (`QueriesAssumption`), bucket and window sizes, and faults.
  `NextDelivers` (pages laid end to end are the answer) has the hypothesis that
  mapping a page does not fail, for the reason in section 6 (*a page lost*).
* **Answering over a split set** (`SplitSearchProofs`). `PageIsAnswerAlways`,
  `EstimateBoundsAlways` and `OverOpenBoundedAlways`, for every split set in which
  summaries deny nothing their split holds and base ranges ascend
  (`SetsAssumption`: the `IsSplitSet` that is proved of built sets below), any
  queries with finitely many keys, and any wave size. `IInv` is the loop invariant
  of the descent: only base sets without a policy of their own are descended, and the
  page is the head of what the splits asked so far hold. Under it lie what
  `FlattenSeq` and `Ranked` compute (`FlattenStrings`, `RankedLists`), that heads
  compose (`AlikeConcat`: to the first n, only the first n of each part matter), and
  for the count that cardinalities add up over splits.
* **Builder** (`SplitBuildProofs`). `RangesTileAlways`, with the shape of the
  builder's record as the strengthening; `SealingTiles` and `InsertingTiles` say of
  the two functions that every call is made of what they do to the ranges. They
  assume nothing about caps and word width: wherever the builder cuts, it tiles.
  `SealedFitsAlways`: the file of a split of several documents fits its tier's cap,
  for every cap and word. The invariant `SizeInv` says that the running upper
  bound is one (`Within`: `postings_upper` covers the bytes of the postings, and with
  64 bytes a key the dictionary and the sparse index), and that a split of one
  document is that document's own file (`Single`). `FittingCorpusBuildsAlways`:
  finish fails only over a document alone above the byte cap, or over one that is above
  what a shift which lost bits left of its tier's cap (section 6, *a byte cap that
  wraps*). `GrowingCapsBuild` excludes the second where no tier the corpus can reach has
  less than the first one's cap, `FlatCapsBuild` for a flat cap. `WordAssumption`, that a
  power of two is a positive natural, is arithmetic the provers lack.
* **Build, open, search** (`SplitBuildProofs`, about `BuildSearch`).
  `BuiltSetAnswersAlways`: for every corpus, configuration, draining and query, what
  a reader makes of the files on disk is the first matches of the corpus in rank
  order. The invariant `ContentInv` says what each part of the state holds of the
  corpus (`Content`): the open split the postings of its documents under local ids,
  the buffers and the disk together the files of every sealed split and no other
  (`Together`), the entries the summaries of those files (`Summaries`), the ranges
  every id (`Covering`). `FilesCompleteAlways` and `BuildTypeCorrect` follow; and once
  the build is done, a document put together from the files of the split that
  claims its id is the one that was added (`DocumentsRecovered`), and the opened set
  is an `IsSplitSet` (`OpenedIsSet`). There the reader's proofs take over, as an
  instance of `SplitSearchProofs` whose assumptions are themselves proved
  (`ReaderAssumptions`) and whose steps are the reader's (`SameStep`): `SearchInv`
  joins the two invariants. `SearchAssumption` says of queries what the reader's
  proofs do; `SummaryAssumption`, that the value for a summary that is not there is
  neither a summary nor a column. `BuildsAsBuilder`: in the composition the
  builder's state moves by its own steps only.
* **Pages of the catalog and of the search server** (`CatalogProofs`).
  `PagesAreSound` and `ServedPagesAreWindows`, for every set of finite queries, every
  page, bucket, window and call size, and whatever attaches or fails to attach. What
  a head, a window and a whole tail find is taken from `SearchCursorProofs`, as an
  instance whose assumptions hold (`CursorAssumptions`, `SameQueries`). `IsCursor` says
  what a cursor holds by the keys it has left (`Held`), all of it before the rest
  (`Left`); making one establishes it (`FreshIs`), and every call to `ensure` keeps it
  and, unless there was enough, leaves fewer keys or none (`EnsuredIs`). The loops are
  folds: a scan of a call goes through `Scans`, the server's rounds through `After`, that
  the page is full, the tail done, or at least as many keys gone as there were rounds
  (`AskedIs`). This is why the server stops, and stops with the whole page.
* **Coalesced reads** (`FileProofs`). `CoalescedReadsAreReads`: for every list of
  ranges, file and gap, what is sliced out of the merged extents is what a read of
  each range would bring. `ScanCovers` is the loop invariant of the merge: the extents
  so far cover, in the order of their offsets, every range passed, each in the extent
  it was assigned to.
* **Record store** (`FileProofs`). `RecordPagesAreRight`: a page or a record that
  comes back holds each id's own record, and fails only over a record that cannot be
  read. The argument follows the bytes. `CompressIs`: what the packer writes, the
  inflater gives back (the packer is the model's own; of zstd the code asks this
  much). `RecordsWritten`: the index of the file written says where each record
  begins and ends. `OpenedHolds`: with that index, `DecodeIs` of a record's bytes is
  the record, or an error exactly where the dictionary or the size cap says so. The
  invariant `IInv` adds what a page needs while it waits between its waves
  (`PagesKept`): each of its offset pairs is the record's own, or absent because a
  resident prefix covered it then; and a resident prefix agrees with the index as far
  as it goes (`TableKept`). Replacing the prefix keeps this; a shorter one leaves a
  pair absent that is now needed, and the page panics (section 6), which is neither
  done nor failed. `PagesAssumption` says that gaps, prefixes and ids are naturals,
  records are sequences, and none of them is one of the two error values.
* **Bloom filter** (`FileProofs`). `BloomNoFalseNegatives`: the filter that is
  stored answers "maybe" for every key it was built over, for all hashes, sizes
  and bits to a key. The reader computes positions anew, from the size in the
  filter: the lemmas bound them by a size that is never 0, although floor, ceiling
  and rounding to whole bytes come between. It is what makes pruning safe.

`NatSetLemmas` holds what these need of sets of naturals: least and greatest
elements, sequences that list a set in an order (unique, and joined when one set
lies below the other), sums over a set, and what a fold computes. The library's
induction theorems take an operator and cannot be used here; an induction over
the data is a least counterexample (`NatSetHasLeast`) or an induction over the
subsets of a finite set (`SubsetInduction`), proved once from well-foundedness of
the naturals.

Proved, and no longer among the runs: `QueueIsParked`, `NoFetchOfCached`,
`CacheAccounts`, `NamesUnique`, `RangesHoldPostings`, `LiveFilesIntact`,
`RangesTile`, `FilesComplete`, `OverOpenBounded`, `NextDeliversInOrder` and the types.

Only model-checked, and why:

* liveness (`EveryReadReturns`, `EveryDocAcked`, `EveryCallReturns`): fairness and
  ENABLED are beyond this prover;
* the properties of `Library` and `GoLibrary`: what a writer and a reader make of a
  file is a loop over sequences of cells, an induction over data for each of very
  many loops; the layers all of them read through, coalesced reads, and the Bloom
  filter, where a mistake would be silent, are proved;
* `PanelCountsAreExact`, `PairCountsAreExact` and `FilterIsExact`, which rest on the
  layout of postings in the same file modules.

## 6. Where the code and its documentation disagree

Runs that TLC reports as violated:

* **Reissued ids** (`ingest_ids`). A compaction that drops the deleted newest
  document shrinks the merged range, and a writer resumed from that manifest
  hands the id out again, masked from birth by the merged tombstone.
* **Retry after a failed window** (`cursor_retry`). `ensure` takes the scan out of
  the cursor before it awaits a window; after an error the next call appends the
  whole tail behind what the earlier windows delivered: duplicates, out of order.
* **A preload between two waves** (`records_preload`). `get_many` looks at the
  resident offsets before and after an await; a shorter prefix installed between
  the two makes it parse the empty slice of a read it skipped. The binding says
  that firing the preload and hydrating concurrently is safe. A page whose pairs
  are all resident waits for nothing and panics only when another thread takes the
  table's lock between the two looks; `PreloadIsSafe` leaves such pages out, so
  the run's page reads another id's pair and one thread is enough.

Known without a run of their own:

* *Names.* Once every `-d` delta was compacted away, a resumed writer starts the
  sequence at 0 again and may overwrite an object that an earlier manifest names,
  if the process died before deleting it (`PublishedFilesImmutable` holds when
  the newest delta is spared).
* *Ids.* `next_global_id` is a `u32` incremented without a check, and resume
  saturates (`splitset_write.rs:293`). Not modelled: ids are naturals.
* *A failing flush.* `flush` pushes the entry and clears the memtable before
  `emit_manifest`, which can fail (`splitset_write.rs:387`). Not modelled.
* *Two writers.* Two ingesting processes over one set overwrite each other
  (`examples/splitset_ingest.rs:22`); the code documents a single writer.
* *Compaction of non-adjacent deltas* yields overlapping ranges
  (`DisjointRanges` holds when the client compacts adjacent ones).
* *A byte cap that wraps.* `cap_for` guards its shift with `checked_shl`, which
  fails on a shift of 64 or more and not on lost bits: with 32 MiB the cap of tier
  39 is 0, every document is then sealed by itself and finish fails. The Go port
  saturates. `FittingCorpusBuilds` names the case (`CapLost`), and `build_search`
  reaches it; `SplitFiles.CapOf` has both word and shift.
* *A delta without facets.* The writer's manifest does not set `FLAG_FACET`, so
  nothing is pruned by facets, and a filtered search fails on the first delta that
  has no `.rrf` (`FacetlessSplitsArePruned` does not hold of sets with deltas).
* *An empty field in a panel.* A field is said to have an entry only if some
  category of it counts (`splitset.rs:265`); the code lists a field that a
  split has even when nothing in it counts (`EntriesHaveCounts` fails).
* *A short catalog page.* Bounded work per call: a page of the facade may stop before
  its window is full, and the facade makes a new cursor each time (`PageIsWindow`
  fails of it, and holds of the server, which asks again).
* *Order in the window.* Reads over the window do not "queue in FIFO order"
  (rust/src/wasm.rs:77): any polled read takes the free slot.
* *A page lost.* `SecondaryCursor::next` advances before it reads the permutation
  (`secondary.rs:157`): if that read fails, the page is gone.
* *Twice published.* A crash after the cutover and before the ack publishes a
  document twice.
* *Bands.* The rename of bands is by stem, so bands that share the final prefix
  overwrite each other, and numbers past five digits make names ambiguous
  (`splitset_build.rs:1433`); `build_parallel` gives each band its own prefix.
* *Tools.* The slicers and the stripper write manifests with flags 0 and lose the
  case-sensitive flag; `derive_split_facets` strips only `.rrs` from a name and
  always folds keys; `geometric_ranges` with a base of 0 never ends; an empty
  corpus is written by `build_impacts` rather than refused.
* *Empty tails.* `split_posting` always gives a tail to serialize, an empty one
  included, where terms.rs:595 and 613 speak of none.
* *An absent term.* The doc of `rerankIds` (rust/src/wasm.rs:2142) says that terms
  which are not in the index contribute nothing, and that candidates come back
  unchanged if none resolves; `query_postings` gives up on the first absent term,
  so a single one leaves them unchanged.
* *A malformed exclusion.* `filter_sels` documents that malformed entries throw; in
  an object an `exclude` that is no boolean means include, while in an array it
  throws (the conversions of JavaScript values are not modelled).
* *A failed open.* `RrsSecondaryIndex.openFacets` takes the index out of its cell
  before it awaits the sidecar, so a failed load leaves the index unavailable
  (rust/src/wasm.rs:1601). Not modelled.
* *Go.* `AddFaceted` with a field of no categories writes a sidecar while
  `hasFacets` stays false; `GetMany` caps a span by its stored bytes, where
  Rust caps the record.

## 7. Not modelled

* The OpenAlex builder, the command line, benchmarks and other examples: drivers
  of the library's own builders, with their own parsing and external sorting.
* Python, beyond the accumulator of postings, the build of a dataset by rank, and
  the construction of split sets: wrappers of the Rust crate.
* The JavaScript conversions of `wasm.rs`, HTTP, credentials and configuration.
* `model2vec.rs` and the metrics other than L2: floating point.
* Unicode: folding and segmentation are data, over a small alphabet.
* Encodings below the cell: varints, checksums, the three container encodings of
  roaring bitmaps, the bytes of zstd.
* A secondary index's own facet counts; the tombstone blobs of a stored manifest.

## 8. Plan

Worth doing next: that a posting read through its directory is the posting written,
on top of `CoalescedReadsAreReads`, and from it the facet counts; types of the split
search. In the models: the failing `emit_manifest`,
and the tombstone blobs of the stored manifest, which would let `Library` publish
a set with deltas.
