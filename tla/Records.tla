------------------------------- MODULE Records -------------------------------
(****************************************************************************)
(* The record store (RRSR): the writer of rust/src/build.rs and the layout  *)
(* and decoding of rust/src/records.rs.  An index file of a header and one  *)
(* offset more than there are records, over a file of the records.          *)
(*                                                                          *)
(* A record is a sequence of cells.  zstd is any code that shortens the     *)
(* records with a repeated cell, and that only its own dictionary undoes.   *)
(****************************************************************************)
EXTENDS PostingBytes

CONSTANTS
    MaxRecord,      \* MAX_DECOMPRESSED_RECORD
    NoDict,         \* no dictionary attached, or version 1
    NoRecord,       \* an id past the store
    BadRecord,      \* an error of the decoder
    BadStore        \* an error of the index

ASSUME RecordAssumption == MaxRecord \in Nat

------------------------------------------------------------------------------
\* Compressor::compress and the frame decoder: one cell for every run of cells.
Compress(rec, dict) ==
    FoldLeft(LAMBDA out, c : IF out # << >> /\ Last(out).cell = c
                             THEN Front(out) \o << [Last(out) EXCEPT !.times = @ + 1] >>
                             ELSE Append(out, [cell |-> c, times |-> 1, dict |-> dict]),
             << >>, rec)
Inflate(frame) ==
    FlattenSeq(<< >> \o [i \in DOMAIN frame |-> << >> \o [j \in 1 .. frame[i].times |-> frame[i].cell]])

Raw == [tag |-> "raw"]
Zstd == [tag |-> "zstd"]

\* frame_zstd: the smaller form, tagged; an empty record stays empty.
Frame(rec, dict) ==
    LET packed == Compress(rec, dict)
    IN IF rec = << >> THEN << >>
       ELSE IF Len(packed) < Len(rec) THEN << Zstd >> \o packed ELSE << Raw >> \o rec

\* Mutant: the index gets where a record starts.
WriteStart(w, rec) ==
    LET bytes == IF w.dict = NoDict THEN rec ELSE Frame(rec, w.dict)
    IN [w EXCEPT !.bin = @ \o bytes, !.off = @ + Len(bytes), !.idx = Append(@, w.off)]

\* RecordWriter::write, from new or new_zstd: the record's bytes to the blob,
\* and where they end to the index.
WriteRecord(w, rec) ==
    LET bytes == IF w.dict = NoDict THEN rec ELSE Frame(rec, w.dict)
    IN [w EXCEPT !.bin = @ \o bytes, !.off = @ + Len(bytes), !.idx = Append(@, w.off + Len(bytes))]

\* write_records and write_records_zstd.
WriteRecords(recs, dict) ==
    FoldLeft(WriteRecord,
             [bin |-> << >>, off |-> 0, dict |-> dict,
              idx |-> << [version |-> IF dict = NoDict THEN 1 ELSE 2, count |-> Len(recs)], 0 >>], recs)

------------------------------------------------------------------------------
\* RecordStore::open or from_boot, with a dictionary or without.
OpenRecords(built, dict, gap) ==
    [idx |-> built.idx, bin |-> built.bin, version |-> built.idx[1].version,
     count |-> built.idx[1].count, dict |-> dict, gap |-> gap]

\* A resident prefix of the index: the ids below `upto` have both offsets.
NoTable == [upto |-> 0, bytes |-> << >>]

\* preload_idx_prefix.
Prefixed(store, first) ==
    LET upto == Min({first, store.count})
    IN [upto |-> upto, bytes |-> ReadAt(store.idx, 0, upto + 2)]

\* set_resident_idx: bytes from elsewhere must have this store's header; m
\* offsets resolve m - 1 ids.
Resident(store, bytes) ==
    IF Len(bytes) < 2 \/ bytes[1] # store.idx[1] THEN BadStore
    ELSE [upto |-> Min({Len(bytes) - 2, store.count}), bytes |-> bytes]

\* resident_pair, an empty sequence if the table does not cover the id.
ResidentPair(table, id) ==
    IF id >= table.upto THEN << >> ELSE << table.bytes[id + 2], table.bytes[id + 3] >>

\* decode: by the version, and in version 2 by the tag.
DecodeRecord(store, raw) ==
    IF store.version = 1 \/ raw = << >> THEN raw
    ELSE IF raw[1] = Raw THEN Tail(raw)
    ELSE IF store.dict = NoDict \/ \E i \in 2 .. Len(raw) : raw[i].dict # store.dict THEN BadRecord
    ELSE LET rec == Inflate(Tail(raw)) IN IF Len(rec) > MaxRecord THEN BadRecord ELSE rec

------------------------------------------------------------------------------
\* Wave 1 of get_many: the offset pairs of the ids that the table lacks; an
\* empty read for the others.
PairWave(store, table, ids) ==
    ReadCoalesced(store.idx, << >> \o [i \in DOMAIN ids |->
        IF ids[i] < store.count /\ ResidentPair(table, ids[i]) = << >>
        THEN [off |-> ids[i] + 1, len |-> 2] ELSE [off |-> 0, len |-> 0]], store.gap)

\* The pairs of wave 2: from the table as it is now, or from wave 1.
PairsNow(store, table, ids, pairs) ==
    << >> \o [i \in DOMAIN ids |->
        IF ids[i] >= store.count THEN << 0, 0 >>
        ELSE IF ResidentPair(table, ids[i]) # << >> THEN ResidentPair(table, ids[i]) ELSE pairs[i]]

\* read_u64 past the end of an empty slice.
Panics(store, ids, now) == \E i \in DOMAIN ids : ids[i] < store.count /\ now[i] = << >>

\* Wave 2: the records' slices, decoded; one bad record fails the page.
RecordWave(store, ids, now) ==
    LET blobs == ReadCoalesced(store.bin, << >> \o [i \in DOMAIN ids |->
                     [off |-> now[i][1], len |-> now[i][2] - now[i][1]]], store.gap)
        out   == << >> \o [i \in DOMAIN ids |->
                     IF ids[i] >= store.count THEN NoRecord ELSE DecodeRecord(store, blobs[i])]
    IN IF \E i \in DOMAIN ids : now[i][2] < now[i][1] THEN BadStore
       ELSE IF \E i \in DOMAIN out : out[i] = BadRecord THEN BadRecord ELSE out

\* get: the one pair, from the table or read, then the record.
GetRecord(store, table, id) ==
    LET pair == IF ResidentPair(table, id) # << >> THEN ResidentPair(table, id)
                ELSE ReadAt(store.idx, id + 1, 2)
    IN IF id >= store.count THEN NoRecord
       ELSE IF pair[2] < pair[1] THEN BadStore
       ELSE DecodeRecord(store, ReadAt(store.bin, pair[1], pair[2] - pair[1]))
==============================================================================
