----------------------------- MODULE SplitWriter -----------------------------
(****************************************************************************)
(* The pure ingestion writer of a split set, rust/src/splitset_write.rs:    *)
(* SplitSetWriter turns added documents and deleted ids into immutable      *)
(* delta splits and a new manifest, and folds deltas into one absolute-id   *)
(* split.  It does no I/O: SplitIngest composes it with the client that     *)
(* moves its bytes to the object store.                                     *)
(*                                                                          *)
(* A document is a model value.  Its n-grams are reduced to whether it has  *)
(* any (Keyless documents occupy an id and appear in no posting), so the    *)
(* body of a split is the set of <<stored id, document>> pairs of its       *)
(* postings.  A manifest is the set of its split entries; the position of   *)
(* an entry only tells base splits from deltas, which `base` records.       *)
(* Bloom summaries, byte sizes, tiers and the sort column are left out.     *)
(****************************************************************************)
EXTENDS Naturals, Sequences, FiniteSets, FiniteSetsExt

CONSTANTS
    Docs,         \* every document a source can deliver
    Keyless       \* the documents too short to have an n-gram

ASSUME KeylessAssumption == Keyless \subseteq Docs

VARIABLES
    specs,        \* SplitSetWriter.specs, the manifest it would emit now
    nextId,       \* next_global_id
    nextEpoch,    \* next_epoch
    flushSeq,     \* flush_seq, the number of the next "-d" name
    compactSeq,   \* compact_seq, the number of the next "-c" name
    mem,          \* the open memtable, its documents in order
    memBase,      \* memtable_base
    pending       \* pending_deletes

writerVars == <<specs, nextId, nextEpoch, flushSeq, compactSeq,
                mem, memBase, pending>>

\* File names: <<"b", n>> a base split, <<"d", n>> a flushed delta, <<"c", n>>
\* a compacted split of the same prefix.
Names == {"b", "d", "c"} \X Nat

\* An entry of the manifest.
SplitSpecs == [name: Names, base: BOOLEAN, lo: Nat, hi: Nat, count: Nat,
               epoch: Nat, abs: BOOLEAN, tomb: SUBSET Nat]

\* A split file: a posting member is <<id stored in the file, document>>.
Bodies == SUBSET (Nat \X Docs)

WriterTypeOK ==
    /\ specs \subseteq SplitSpecs
    /\ nextId \in Nat
    /\ nextEpoch \in Nat
    /\ flushSeq \in Nat
    /\ compactSeq \in Nat
    /\ mem \in Seq(Docs)
    /\ memBase \in Nat
    /\ pending \subseteq Nat

------------------------------------------------------------------------------
\* One past the largest member, or 0: iter().max().map_or(0, |m| m + 1).
NextAbove(S) == IF S = {} THEN 0 ELSE Max(S) + 1

\* Split::to_global: a split stores local ids offset by lo, unless absolute.
GlobalId(s, stored) == IF s.abs THEN stored ELSE s.lo + stored

\* The documents a split body holds, under their global ids.
Contents(s, body) == {<<GlobalId(s, e[1]), e[2]>> : e \in body}

\* The ids the entries of a manifest mask, and what is left: the reader unions
\* the tombstones of every split and masks base and delta results alike.
Masked(man) == UNION {s.tomb : s \in man}
Visible(man, objs) ==
    {p \in UNION {Contents(s, objs[s.name]) : s \in man} : p[1] \notin Masked(man)}

Numbers(man, kind) == {s.name[2] : s \in {t \in man : t.name[1] = kind}}

------------------------------------------------------------------------------
\* Mutant: resume hands out the highest id again.
LastResumedId(man) ==
    LET top == NextAbove({s.hi : s \in {t \in man : t.count > 0}})
    IN  IF top = 0 THEN 0 ELSE top - 1

\* resume: ids continue past the splits that hold documents; the range of a
\* zero-document split is nominal and does not count.
ResumedId(man) == NextAbove({s.hi : s \in {t \in man : t.count > 0}})

\* Mutant: the name sequences restart at zero.
RestartedSeq(man, kind) == 0

\* resume: name sequences continue past the names still in the manifest.
ResumedSeq(man, kind) == NextAbove(Numbers(man, kind))

\* SplitSetWriter::resume over manifest `man` (new() is resume of no splits).
Resume(man) ==
    /\ specs' = man
    /\ nextId' = ResumedId(man)
    /\ nextEpoch' = NextAbove({0} \union {s.epoch : s \in man})
    /\ flushSeq' = ResumedSeq(man, "d")
    /\ compactSeq' = ResumedSeq(man, "c")
    /\ mem' = <<>>
    /\ memBase' = ResumedId(man)
    /\ pending' = {}

\* add_keys: the document takes the next id, with or without keys.
AddKeys(d) ==
    /\ memBase' = IF mem = <<>> THEN nextId ELSE memBase
    /\ mem' = Append(mem, d)
    /\ nextId' = nextId + 1
    /\ UNCHANGED <<specs, nextEpoch, flushSeq, compactSeq, pending>>

\* Mutant: a tombstone holds ids relative to the open memtable.
LocalDelete(g) ==
    /\ pending' = pending \union {g - memBase}
    /\ UNCHANGED <<specs, nextId, nextEpoch, flushSeq, compactSeq, mem, memBase>>

\* delete
Delete(g) ==
    /\ pending' = pending \union {g}
    /\ UNCHANGED <<specs, nextId, nextEpoch, flushSeq, compactSeq, mem, memBase>>

\* The delta split of a flush and its manifest entry; a deletes-only flush
\* yields a zero-document split with a nominal range.
FlushBody == {<<i - 1, mem[i]>> : i \in {j \in DOMAIN mem : mem[j] \notin Keyless}}

DeltaEntry(low, high) ==
    [name |-> <<"d", flushSeq>>, base |-> FALSE, lo |-> low, hi |-> high,
     count |-> Len(mem), epoch |-> nextEpoch, abs |-> FALSE, tomb |-> pending]

FlushSpec == IF mem = <<>> THEN DeltaEntry(nextId, nextId)
             ELSE DeltaEntry(memBase, memBase + Len(mem) - 1)

\* Mutant: a flush needs documents and deletes.
PickyFlush ==
    /\ mem # <<>> /\ pending # {}
    /\ specs' = specs \union {FlushSpec}
    /\ flushSeq' = flushSeq + 1
    /\ nextEpoch' = nextEpoch + 1
    /\ mem' = <<>>
    /\ pending' = {}
    /\ UNCHANGED <<nextId, memBase, compactSeq>>

\* flush; the call with nothing to flush changes nothing.
Flush ==
    /\ mem # <<>> \/ pending # {}
    /\ specs' = specs \union {FlushSpec}
    /\ flushSeq' = flushSeq + 1
    /\ nextEpoch' = nextEpoch + 1
    /\ mem' = <<>>
    /\ pending' = {}
    /\ UNCHANGED <<nextId, memBase, compactSeq>>

\* What a compaction of the entries `inputs` keeps: it subtracts the tombstones
\* its own inputs carry, and no others.
Merged(inputs, objs) ==
    {p \in UNION {Contents(s, objs[s.name]) : s \in inputs} : p[1] \notin Masked(inputs)}

\* The entry of a merged split: range and count are those of the documents
\* still present.
MergedEntry(present, inputs, absolute, tomb) ==
    [name  |-> <<"c", compactSeq>>,
     base  |-> FALSE,
     lo    |-> IF present = {} THEN 0 ELSE Min(present),
     hi    |-> IF present = {} THEN 0 ELSE Max(present),
     count |-> Cardinality(present),
     epoch |-> Max({s.epoch : s \in inputs}),
     abs   |-> absolute,
     tomb  |-> tomb]

Present(inputs, objs) == {p[1] : p \in Merged(inputs, objs)}

\* Mutants: a tombstone is spent once its documents are dropped; the entry of
\* a merged split forgets that its ids are absolute.
SpentCompactSpec(inputs, objs) == MergedEntry(Present(inputs, objs), inputs, TRUE, {})
RelativeCompactSpec(inputs, objs) ==
    MergedEntry(Present(inputs, objs), inputs, FALSE, Masked(inputs))

\* The merged split stores absolute ids, and its entry carries its inputs'
\* tombstones on.
CompactSpec(inputs, objs) ==
    MergedEntry(Present(inputs, objs), inputs, TRUE, Masked(inputs))

\* compact, given the bodies of its inputs, of which a client has some; base
\* splits are refused.
Compact(inputs, objs) ==
    /\ inputs # {} /\ inputs \subseteq specs
    /\ \A s \in inputs : ~s.base
    /\ specs' = (specs \ inputs) \union {CompactSpec(inputs, objs)}
    /\ compactSeq' = compactSeq + 1
    /\ UNCHANGED <<nextId, nextEpoch, flushSeq, mem, memBase, pending>>
==============================================================================
