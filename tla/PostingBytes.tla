---------------------------- MODULE PostingBytes ----------------------------
(****************************************************************************)
(* How a posting is laid out in a file and read back in pieces:             *)
(* rust/src/fetch.rs (read_coalesced) and rust/src/posting.rs (the          *)
(* container directory and what is read through it).                        *)
(*                                                                          *)
(* A file is a sequence of cells, and an offset counts cells.  A posting in *)
(* the seekable layout is a cell with the number of its containers, one     *)
(* directory cell per container and one cell per document; in the code that *)
(* header is 8 + 8 * size bytes.  A posting with run containers has the     *)
(* other cookie and no directory: it can only be read whole.                *)
(****************************************************************************)
EXTENDS Integers, Sequences, FiniteSets, FiniteSetsExt, SequencesExt

CONSTANTS
    PerBucket,      \* documents per container key (65536 in the code)
    Prefix,         \* HEADER_PREFIX, the cells read to open a directory
    SpanGap,        \* SPAN_GAP, bridged between two containers of a posting
    SeedRatio,      \* SEED_COST_RATIO, how much denser another posting must be
    NoDir           \* parse_dir's None

ASSUME LayoutAssumption == {PerBucket, Prefix, SeedRatio} \subseteq Nat \ {0} /\ SpanGap \in Nat

Key(d) == d \div PerBucket
Keys(docs) == {Key(d) : d \in docs}
OfKeys(docs, keys) == {d \in docs : Key(d) \in keys}

\* The members of S in the order Before, which is total on S.
SortedBy(S, Before(_, _)) ==
    << >> \o [i \in 1 .. Cardinality(S) |-> CHOOSE x \in S : Cardinality({y \in S : Before(y, x)}) = i - 1]
Ascending(S) == SortedBy(S, LAMBDA a, b : a < b)
Total(s) == FoldLeft(LAMBDA n, x : n + x, 0, s)

\* RoaringBitmap::serialize_into, in either layout.
Serialize(docs, seekable) ==
    LET body(key) == Ascending({d % PerBucket : d \in OfKeys(docs, {key})})
        laid(keys, bodies) ==
            << [cookie |-> "offsets", size |-> Len(keys)] >>
            \o [i \in DOMAIN keys |-> [key |-> keys[i], card |-> Len(bodies[i]),
                                       start |-> 1 + Len(keys) + Total([j \in 1 .. i - 1 |-> Len(bodies[j])])]]
            \o FlattenSeq(bodies)
        packed(keys) == laid(keys, << >> \o [i \in DOMAIN keys |-> body(keys[i])])
    IN IF seekable THEN packed(Ascending(Keys(docs)))
       ELSE << [cookie |-> "runs", size |-> Cardinality(Keys(docs))] >> \o Ascending(docs)

\* The documents of containers given as (directory entry, body).
Decode(sel) ==
    UNION {{sel[i].key * PerBucket + low : low \in Range(sel[i].body)} : i \in DOMAIN sel}

ReadAt(file, off, len) == SubSeq(file, off + 1, off + len)

\* split_posting: the head is below the boundary; both halves are written even
\* when they are empty.
SplitPosting(docs, boundary) ==
    LET head == {d \in docs : d < boundary} IN [head |-> head, tail |-> docs \ head]

\* An intersection, smallest first; the order changes the cost only.
AndAll(sets) == {d \in UNION Range(sets) : \A s \in Range(sets) : d \in s}

\* The first n of a sequence, of a set ascending.
Cut(s, n) == SubSeq(s, 1, Min({n, Len(s)}))
Least(S, n) == Cut(Ascending(S), n)

------------------------------------------------------------------------------
\* needed_header_len: the cells of the header, from its first cell.
HeaderLen(cells) == 1 + cells[1].size
Seekable(cells) == cells[1].cookie = "offsets"

\* parse_dir: each container's key and extent; the last one ends with the
\* posting.  NoDir when the header is not the seekable one or is not all there.
ParseDir(header, total) ==
    LET n == header[1].size
    IN IF ~Seekable(header) \/ Len(header) < 1 + n \/ 1 + n > total THEN NoDir
       ELSE [i \in 1 .. n |->
               [key |-> header[i + 1].key, start |-> header[i + 1].start,
                len |-> (IF i < n THEN header[i + 2].start ELSE total) - header[i + 1].start]]

\* RoaringBitmap::deserialize_from on a whole posting.
Deserialize(cells) ==
    IF ~Seekable(cells) THEN Range(Tail(cells))
    ELSE LET dir == ParseDir(cells, Len(cells))
         IN Decode([i \in DOMAIN dir |->
                      [key |-> dir[i].key, body |-> ReadAt(cells, dir[i].start, dir[i].len)]])

\* The entries of a directory with one of these keys.
NeededOf(dir, keys) == SelectSeq(dir, LAMBDA c : c.key \in keys)

------------------------------------------------------------------------------
\* One scan of sorted extents into spans: a gap of up to `gap` is bridged.
\* `of` tells the span of each extent.
Grow(gap) == [spans |-> << >>, of |-> << >>, gap |-> gap]
Bridged(a, lo, hi) ==
    LET joined(last) == Front(a.spans) \o << [lo |-> last.lo, hi |-> Max({last.hi, hi})] >>
        placed(spans) == [a EXCEPT !.spans = spans, !.of = Append(@, Len(spans))]
    IN placed(IF a.spans # << >> /\ lo <= Last(a.spans).hi + a.gap THEN joined(Last(a.spans))
              ELSE Append(a.spans, [lo |-> lo, hi |-> hi]))

\* read_coalesced: the spans of the non-empty ranges, by offset.
CoalescedSpans(ranges, gap) ==
    LET before(i, j) == \/ ranges[i].off < ranges[j].off
                        \/ ranges[i].off = ranges[j].off /\ i < j
        found(scan, order) ==
            [spans |-> scan.spans,
             of |-> [i \in Range(order) |-> scan.of[CHOOSE p \in DOMAIN order : order[p] = i]]]
        scanned(order) ==
            found(FoldLeft(LAMBDA a, i : Bridged(a, ranges[i].off, ranges[i].off + ranges[i].len), Grow(gap), order),
                  order)
    IN scanned(SortedBy({i \in DOMAIN ranges : ranges[i].len > 0}, before))

\* read_coalesced: one read per span, sliced back in the order of `ranges`.
ReadCoalesced(file, ranges, gap) ==
    LET slice(r, s) == ReadAt(ReadAt(file, s.lo, s.hi - s.lo), r.off - s.lo, r.len)
        sliced(c) == [i \in DOMAIN ranges |-> IF ranges[i].len = 0 THEN << >>
                                             ELSE slice(ranges[i], c.spans[c.of[i]])]
    IN sliced(CoalescedSpans(ranges, gap))

\* read_dict_blocks, and resolve_locs of the term dictionary: of a wave's ranges
\* each one is read once, for all that ask for it.
ReadOnce(file, ranges) == [r \in ranges |-> ReadAt(file, r.off, r.len)]

\* fetch_containers: the needed containers of one posting, by spans of its own.
FetchContainers(file, off, needed) ==
    LET scan == FoldLeft(LAMBDA a, c : Bridged(a, c.start, c.start + c.len), Grow(SpanGap), needed)
        data(s) == ReadAt(file, off + s.lo, s.hi - s.lo)
    IN Decode([i \in DOMAIN needed |->
                 LET s == scan.spans[scan.of[i]]
                 IN [key |-> needed[i].key,
                     body |-> ReadAt(data(s), needed[i].start - s.lo, needed[i].len)]])

\* read_posting_subset: a posting no longer than the prefix, or one without a
\* directory, comes back whole.
ReadSubset(file, off, len, keys) ==
    LET prefix == ReadAt(file, off, Min({len, Prefix}))
        whole  == Deserialize(ReadAt(file, off, len))
        header == IF HeaderLen(prefix) <= Len(prefix) THEN prefix
                  ELSE ReadAt(file, off, HeaderLen(prefix))
        dir    == ParseDir(header, len)
    IN IF Len(prefix) >= len \/ ~Seekable(prefix) \/ dir = NoDir THEN whole
       ELSE FetchContainers(file, off, NeededOf(dir, keys))

\* fetch_head_prefix: the eager buckets, trimmed to them.
HeadPrefix(file, off, len, buckets) ==
    {d \in ReadSubset(file, off, len, 0 .. buckets - 1) : Key(d) < buckets}

\* posting_cardinality: summed from the directory when there is one.
PostingCardinality(file, off, len) ==
    LET prefix == ReadAt(file, off, Min({len, Prefix}))
        desc == IF HeaderLen(prefix) <= Len(prefix) THEN prefix
                ELSE ReadAt(file, off, HeaderLen(prefix))
    IN IF Len(prefix) >= len \/ ~Seekable(prefix)
       THEN Cardinality(Deserialize(ReadAt(file, off, len)))
       ELSE Total([i \in 1 .. desc[1].size |-> desc[i + 1].card])

\* tail_intersect_and: the smallest posting whole, then each next one in the
\* keys that are left; the order of equal sizes does not matter.
IntersectAnd(file, tails) ==
    LET order == SortedBy(DOMAIN tails, LAMBDA i, j : tails[i].len < tails[j].len
                                              \/ (tails[i].len = tails[j].len /\ i < j))
        seed == Deserialize(ReadAt(file, tails[order[1]].off, tails[order[1]].len))
    IN IF tails = << >> THEN {}
       ELSE FoldLeft(LAMBDA acc, i :
                       IF acc = {} THEN {}
                       ELSE acc \intersect ReadSubset(file, tails[i].off, tails[i].len, Keys(acc)),
                     seed, Tail(order))

------------------------------------------------------------------------------
\* open_tail_dirs: every directory of a strict AND, or none of them.
OpenDirs(file, tails) ==
    LET prefix(t) == ReadAt(file, t.off, Min({t.len, Prefix}))
        header(t) == IF HeaderLen(prefix(t)) <= Len(prefix(t)) THEN prefix(t)
                     ELSE ReadAt(file, t.off, HeaderLen(prefix(t)))
    IN IF \E t \in Range(tails) : ~Seekable(prefix(t)) THEN NoDir
       ELSE [i \in DOMAIN tails |->
               [off |-> tails[i].off, dir |-> ParseDir(header(tails[i]), tails[i].len)]]

DirKeys(d) == {d.dir[i].key : i \in DOMAIN d.dir}

\* candidate_keys: the keys every directory has.
CommonKeys(dirs) == {k \in UNION {DirKeys(d) : d \in Range(dirs)} : \A d \in Range(dirs) : k \in DirKeys(d)}

\* read_dir_subset and window_cost.
DirSubset(file, d, keys) == FetchContainers(file, d.off, NeededOf(d.dir, keys))
WindowCost(d, window) == Total([i \in DOMAIN NeededOf(d.dir, window) |-> NeededOf(d.dir, window)[i].len])

\* intersect_key_window: if the cheapest posting is much sparser than the
\* densest it is read first, and the others in the keys it leaves.
WindowAnd(file, dirs, window) ==
    LET cost == [i \in DOMAIN dirs |-> WindowCost(dirs[i], window)]
        seed == CHOOSE i \in DOMAIN dirs :
                   \A j \in DOMAIN dirs : cost[i] < cost[j] \/ (cost[i] = cost[j] /\ i <= j)
        seeds == Len(dirs) > 1 /\ cost[seed] * SeedRatio <= Max(Range(cost))
        acc == DirSubset(file, dirs[seed], window)
        keys == IF seeds THEN Keys(acc) ELSE window
    IN IF dirs = << >> THEN {}
       ELSE {d \in UNION {DirSubset(file, dirs[i], window) : i \in DOMAIN dirs} :
               \A i \in DOMAIN dirs :
                   d \in IF seeds /\ i = seed THEN acc ELSE DirSubset(file, dirs[i], keys)}
==============================================================================
