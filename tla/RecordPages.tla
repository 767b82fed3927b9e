----------------------------- MODULE RecordPages -----------------------------
(****************************************************************************)
(* A record store in use: pages and single records are asked for while the  *)
(* resident prefix of its index is preloaded or handed over                 *)
(* (rust/src/records.rs; rust/src/wasm.rs RrsRecords).  Every method but    *)
(* set_coalesce_gap shares the store, and a page waits for each of its two  *)
(* waves of reads.                                                          *)
(*                                                                          *)
(* The files do not change, so a preload may be taken to read and install   *)
(* its prefix in one step; so may a single record, which looks at the       *)
(* table once.                                                              *)
(****************************************************************************)
EXTENDS Records

CONSTANTS
    Callers,
    Built,          \* [recs, dict, with]: a store and the dictionary it is opened with
    Pages,          \* the pages of ids asked for
    Firsts,         \* the prefixes preloaded
    Gaps,           \* the coalescing gaps set
    MaxInstalls     \* bound on the tables installed

\* What an id stands for, and the page of some ids.
OwnRecord(b, id) == IF id < Len(b.recs) THEN b.recs[id + 1] ELSE NoRecord
OwnPage(b, ids) == << >> \o [i \in DOMAIN ids |-> OwnRecord(b, ids[i])]

\* Records are sequences of cells, and no outcome of a read is taken for an error.
ASSUME PagesAssumption ==
    /\ Gaps \subseteq Nat /\ Firsts \subseteq Nat
    /\ \A ids \in Pages : ids \in Seq(Nat)
    /\ \A b \in Built :
          /\ b.recs \in Seq(Seq(UNION {Range(rec) : rec \in Range(b.recs)}))
          /\ \A id \in 0 .. Len(b.recs) : OwnRecord(b, id) \notin {BadRecord, BadStore}
          /\ \A ids \in Pages : OwnPage(b, ids) \notin {BadRecord, BadStore}

VARIABLES
    built,          \* the records and how they were written
    store,          \* the open store
    table,          \* its resident prefix
    page,           \* each caller's page: [pc, ids, pairs, out]
    installs        \* tables installed so far
vars == <<built, store, table, page, installs>>

Idle == [pc |-> "idle", ids |-> << >>, pairs |-> << >>, out |-> << >>]

Init == /\ built \in Built
        /\ \E gap \in Gaps : store = OpenRecords(WriteRecords(built.recs, built.dict), built.with, gap)
        /\ table = NoTable
        /\ page = [c \in Callers |-> Idle]
        /\ installs = 0

------------------------------------------------------------------------------
Install(t) == /\ installs < MaxInstalls
              /\ table' = t /\ installs' = installs + 1
              /\ UNCHANGED <<built, store, page>>

\* preload_idx_prefix, and preload_idx with the whole count.
Preload == \E first \in Firsts \union {store.count} : Install(Prefixed(store, first))

\* set_resident_idx: the leading bytes of this index, or of another store's.
\* An index whose header is another's is refused and changes nothing.
HandOver ==
    \E b \in Built, n \in 0 .. store.count + 2 :
        LET idx == WriteRecords(b.recs, b.dict).idx
            t == Resident(store, Cut(idx, n))
        IN /\ b = built \/ idx[1] # store.idx[1]
           /\ t # BadStore
           /\ Install(t)

\* set_coalesce_gap needs the store for itself.
SetGap == \E gap \in Gaps :
    /\ gap # store.gap
    /\ \A c \in Callers : page[c].pc # "pairs"
    /\ store' = [store EXCEPT !.gap = gap]
    /\ UNCHANGED <<built, table, page, installs>>

\* get.
AskOne(c) == \E id \in 0 .. store.count :
    /\ page[c].pc = "idle"
    /\ LET rec == GetRecord(store, table, id)
       IN page' = [page EXCEPT ![c] = [pc |-> IF rec \in {BadRecord, BadStore} THEN "failed" ELSE "done",
                                        ids |-> << id >>, pairs |-> << >>, out |-> << rec >>]]
    /\ UNCHANGED <<built, store, table, installs>>

\* get_many up to the first await.  A page whose pairs are all resident waits
\* for no read; another thread may still take the table's lock before its second
\* look, a task of the same thread may not.
AskPage(c) == \E ids \in Pages :
    /\ page[c].pc = "idle"
    /\ page' = [page EXCEPT ![c] = [pc |-> "pairs", ids |-> ids, out |-> << >>,
                                     pairs |-> PairWave(store, table, ids)]]
    /\ UNCHANGED <<built, store, table, installs>>

\* get_many with its pairs: the table is looked at again.
Hydrate(c) ==
    /\ page[c].pc = "pairs"
    /\ LET ids == page[c].ids
           now == PairsNow(store, table, ids, page[c].pairs)
           out == RecordWave(store, ids, now)
       IN page' = [page EXCEPT ![c] =
            IF Panics(store, ids, now) THEN [@ EXCEPT !.pc = "panicked"]
            ELSE IF out \in {BadRecord, BadStore} THEN [@ EXCEPT !.pc = "failed"]
            ELSE [@ EXCEPT !.pc = "done", !.out = out]]
    /\ UNCHANGED <<built, store, table, installs>>

\* A read of either wave fails.
ReadFails(c) ==
    /\ page[c].pc = "pairs"
    /\ page' = [page EXCEPT ![c] = Idle]
    /\ UNCHANGED <<built, store, table, installs>>

Return(c) ==
    /\ page[c].pc \in {"done", "failed"}
    /\ page' = [page EXCEPT ![c] = Idle]
    /\ UNCHANGED <<built, store, table, installs>>

Next == \/ Preload \/ HandOver \/ SetGap
        \/ \E c \in Callers : AskOne(c) \/ AskPage(c) \/ Hydrate(c) \/ ReadFails(c) \/ Return(c)
Spec == Init /\ [][Next]_vars

------------------------------------------------------------------------------
\* A record that cannot be read back: packed, and the dictionary is not the
\* one it was packed with or it is over the size cap.
Unreadable(id) ==
    /\ id < Len(built.recs) /\ built.dict # NoDict
    /\ LET rec == built.recs[id + 1]
       IN /\ Len(Compress(rec, built.dict)) < Len(rec)
          /\ built.with # built.dict \/ Len(rec) > MaxRecord

\* A page that comes back holds each id's own record, in the order asked, and
\* nothing for an id past the store, whatever was installed since it was asked;
\* it fails only over a record that cannot be read (get, get_many).
PagesAreRight ==
    \A c \in Callers :
        LET p == page[c]
        IN /\ p.pc = "done" =>
                /\ p.out = OwnPage(built, p.ids)
                /\ \A i \in DOMAIN p.ids : ~Unreadable(p.ids[i])
           /\ p.pc = "failed" => \E i \in DOMAIN p.ids : Unreadable(p.ids[i])

\* What rust/src/wasm.rs:1091-1093 says: ids past the prefix fall back to ranged
\* reads, and preloading while a page is being hydrated is safe.  It speaks only
\* of the pages that waited for a pair: there a single thread is enough.
PreloadIsSafe ==
    \A c \in Callers : page[c].pc = "panicked" => \A i \in DOMAIN page[c].pairs : page[c].pairs[i] = << >>
==============================================================================
