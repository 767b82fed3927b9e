------------------------------ MODULE IdLookup ------------------------------
(****************************************************************************)
(* The identifier lookup (RRIL): the writer of rust/src/build.rs and the    *)
(* interpolating reader of rust/src/lookup.rs.  The two hashes of a         *)
(* normalized identifier are constants, so that they may collide.           *)
(****************************************************************************)
EXTENDS PostingBytes, Chars

CONSTANTS
    IdHash(_), IdVerify(_),  \* the two fnv64a hashes
    HashSpace,               \* 2^64, above every hash
    BlockRecords             \* BLOCK_RECORDS, the window that is read whole

ASSUME LookupAssumption == {HashSpace, BlockRecords} \subseteq Nat \ {0}

\* normalize_id: the letters only, all of one case.
NormalizeId(id) == FoldAll(SelectSeq(id, IsLetter), TRUE)

\* write_lookup_streaming: empty identifiers are dropped, the records sorted by
\* (hash, doc); the header is the first cell.
WriteLookup(entries) ==
    LET norm == << >> \o [i \in DOMAIN entries |-> [id |-> NormalizeId(entries[i].id), doc |-> entries[i].doc]]
        kept == SelectSeq(norm, LAMBDA e : e.id # << >>)
        recs == << >> \o [i \in DOMAIN kept |->
                  [hash |-> IdHash(kept[i].id), verify |-> IdVerify(kept[i].id), doc |-> kept[i].doc]]
    IN << [count |-> Len(recs)] >>
       \o SortSeq(recs, LAMBDA a, b : a.hash < b.hash \/ (a.hash = b.hash /\ a.doc < b.doc))

\* Lookup::open, from_boot.
OpenLookup(file) == [file |-> file, count |-> file[1].count]
RecordAt(ix, i) == ReadAt(ix.file, 1 + i, 1)[1]

\* The interpolated probe, or the middle when the bracket has no width.
Probe(lo, hi, loVal, hiVal, target) ==
    IF hiVal > loVal
    THEN Max({lo, Min({hi - 1, lo + ((target - loVal) * (hi - lo - 1)) \div (hiVal - loVal)})})
    ELSE lo + (hi - lo) \div 2

\* lookup, the search: every record below lo hashes below the target, every
\* one from hi on does not.
LowerWindow(ix, target) ==
    LET narrow[lo \in 0 .. ix.count, hi \in 0 .. ix.count,
               loVal \in 0 .. HashSpace, hiVal \in 0 .. HashSpace] ==
            LET mid  == Probe(lo, hi, loVal, hiVal, target)
                hash == RecordAt(ix, mid).hash
            IN IF hi - lo <= BlockRecords THEN lo
               ELSE IF hash < target THEN narrow[mid + 1, hi, hash + 1, hiVal]
               ELSE narrow[lo, mid, loVal, hash]
    IN narrow[0, ix.count, 0, HashSpace]

\* Mutant: the run of equal hashes ends with the window.
LookupInWindow(ix, identifier) ==
    LET id    == NormalizeId(identifier)
        lo    == LowerWindow(ix, IdHash(id))
        block == ReadAt(ix.file, 1 + lo, Min({BlockRecords, ix.count - lo}))
        run   == SelectSeq(block, LAMBDA r : r.hash = IdHash(id) /\ r.verify = IdVerify(id))
    IN IF id = << >> \/ ix.count = 0 \/ lo >= ix.count THEN << >>
       ELSE << >> \o [i \in DOMAIN run |-> run[i].doc]

\* lookup, the answer: the window from lo is read whole, the hashes below the
\* target skipped, and the run of equal hashes followed past the window's end.
LookupId(ix, identifier) ==
    LET id    == NormalizeId(identifier)
        hash  == IdHash(id)
        lo    == LowerWindow(ix, hash)
        end   == Min({lo + BlockRecords, ix.count})
        block == ReadAt(ix.file, 1 + lo, end - lo)
        at(i) == IF i < end THEN block[i - lo + 1] ELSE RecordAt(ix, i)
        first == lo + Cardinality({i \in DOMAIN block : block[i].hash < hash})
        run[i \in 0 .. ix.count] ==
            IF i = ix.count \/ at(i).hash # hash THEN << >>
            ELSE (IF at(i).verify = IdVerify(id) THEN << at(i).doc >> ELSE << >>) \o run[i + 1]
    IN IF id = << >> \/ ix.count = 0 \/ lo >= ix.count THEN << >> ELSE run[first]
==============================================================================
