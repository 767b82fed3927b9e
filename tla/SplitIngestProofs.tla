-------------------------- MODULE SplitIngestProofs --------------------------
(* Proofs about split-set ingestion, for every set of documents, every base  *)
(* and any number of crashes, compactions and deletions.                     *)
EXTENDS SplitIngest, NatSetLemmas, FiniteSetTheorems, TLAPS

------------------------------------------------------------------------------
(* The numbers of a state are bounded, so the maxima that resume and compact *)
(* take exist.                                                               *)

Below(man, b) ==
    \A s \in man : s.lo < b /\ s.hi < b /\ s.epoch < b /\ s.name[2] < b
BodyBelow(body, b) == \A e \in body : e[1] < b

BoundedBy(b) == /\ Below(manifest, b) /\ Below(specs, b) /\ Below(out.man, b)
                /\ BodyBelow(out.body, b)
                /\ \A n \in DOMAIN objects : BodyBelow(objects[n], b)
Bounded == \E b \in Nat : BoundedBy(b)

\* resume numbers things strictly above what it finds (splitset_write.rs:210).
LEMMA NextAboveIsAbove ==
    ASSUME NEW S \in SUBSET Nat, NEW b \in Nat, \A x \in S : x < b
    PROVE  /\ NextAbove(S) \in Nat
           /\ \A x \in S : x < NextAbove(S)
           /\ S # {} => \E x \in S : NextAbove(S) = x + 1
<1>1. CASE S = {}
  BY <1>1 DEF NextAbove
<1>2. CASE S # {}
  <2>1. Max(S) \in S /\ \A x \in S : x <= Max(S)
    BY <1>2, MaxIsGreatest
  <2>2. PICK m \in S : NextAbove(S) = m + 1 /\ \A x \in S : x <= m
    BY <1>2, <2>1 DEF NextAbove
  <2>3. m \in Nat /\ \A x \in S : x \in Nat
    OBVIOUS
  <2>4. \A x \in S : x < m + 1
    BY <2>2, <2>3
  <2> QED
    BY <2>2, <2>3, <2>4
<1> QED
  BY <1>1, <1>2

\* A flush emits a well-formed entry and a body of local ids.
LEMMA FlushOutputType ==
    ASSUME WriterTypeOK
    PROVE  /\ FlushSpec \in SplitSpecs
           /\ FlushBody \in Bodies
           /\ BodyBelow(FlushBody, Len(mem))
<1> USE DEF WriterTypeOK
<1>1. Len(mem) \in Nat /\ DOMAIN mem = 1 .. Len(mem) /\ (mem # <<>> => Len(mem) > 0)
  OBVIOUS
<1>2. FlushSpec \in SplitSpecs
  BY <1>1 DEF FlushSpec, DeltaEntry, SplitSpecs, Names
<1>3. ASSUME NEW e \in FlushBody PROVE e \in Nat \X Docs /\ e[1] < Len(mem)
  <2>1. PICK i \in DOMAIN mem : e = <<i - 1, mem[i]>>
    BY DEF FlushBody
  <2>2. i \in 1 .. Len(mem) /\ mem[i] \in Docs
    BY <2>1, <1>1
  <2> QED
    BY <2>1, <2>2, <1>1
<1> QED
  BY <1>2, <1>3 DEF Bodies, BodyBelow

\* What a compaction keeps is a body of bounded ids.
LEMMA MergedType ==
    ASSUME NEW inputs \in SUBSET SplitSpecs, NEW objs, NEW b \in Nat,
           \A s \in inputs : s.lo < b /\ objs[s.name] \in Bodies /\ BodyBelow(objs[s.name], b)
    PROVE  /\ Merged(inputs, objs) \in Bodies
           /\ \A p \in Merged(inputs, objs) : p[1] \in Nat /\ p[1] < b + b
<1>1. ASSUME NEW p \in Merged(inputs, objs)
      PROVE  p \in Nat \X Docs /\ p[1] < b + b
  <2>1. PICK s \in inputs : p \in Contents(s, objs[s.name])
    BY DEF Merged
  <2>2. PICK e \in objs[s.name] : p = <<GlobalId(s, e[1]), e[2]>>
    BY <2>1 DEF Contents
  <2>3. e \in Nat \X Docs /\ e[1] < b /\ s.lo \in Nat /\ s.lo < b
    BY <2>2 DEF Bodies, BodyBelow, SplitSpecs
  <2>4. e[1] \in Nat /\ e[2] \in Docs
    BY <2>3
  <2>5. GlobalId(s, e[1]) \in Nat /\ GlobalId(s, e[1]) < b + b
    BY <2>3, <2>4 DEF GlobalId
  <2> QED
    BY <2>2, <2>4, <2>5
<1> QED
  BY <1>1 DEF Bodies

\* A compaction emits a well-formed entry, numbered within the bounds.
LEMMA CompactOutputType ==
    ASSUME WriterTypeOK, NEW inputs \in SUBSET SplitSpecs, inputs # {}, NEW objs,
           NEW b \in Nat, Below(inputs, b),
           \A s \in inputs : objs[s.name] \in Bodies /\ BodyBelow(objs[s.name], b)
    PROVE  /\ CompactSpec(inputs, objs) \in SplitSpecs
           /\ Below({CompactSpec(inputs, objs)}, b + b + compactSeq + 1)
<1> DEFINE pres == Present(inputs, objs)
           eps == {s.epoch : s \in inputs}
<1>1. pres \in SUBSET Nat /\ \A x \in pres : x < b + b
  BY MergedType DEF Below, Present
<1>2. IsFiniteSet(pres)
  BY <1>1, FS_BoundedSetOfNaturals
<1>3. Cardinality(pres) \in Nat
  BY <1>2, FS_CardinalityType
<1>4. pres # {} => /\ Min(pres) \in Nat /\ Min(pres) < b + b
                   /\ Max(pres) \in Nat /\ Max(pres) < b + b
  BY <1>1, MinIsLeast, MaxIsGreatest
<1>5. eps \in SUBSET Nat /\ eps # {} /\ \A x \in eps : x < b
  BY DEF SplitSpecs, Below
<1>6. Max(eps) \in Nat /\ Max(eps) < b
  BY <1>5, MaxIsGreatest
<1>7. Masked(inputs) \in SUBSET Nat
  BY DEF Masked, SplitSpecs
<1> HIDE DEF pres, eps
<1>8. CompactSpec(inputs, objs) = MergedEntry(pres, inputs, TRUE, Masked(inputs))
  BY DEF CompactSpec, pres
<1>9. compactSeq \in Nat
  BY DEF WriterTypeOK
<1> QED
  BY <1>3, <1>4, <1>6, <1>7, <1>8, <1>9
     DEF MergedEntry, SplitSpecs, Names, Below, eps

------------------------------------------------------------------------------
(* The inductive invariant.  Typed gives types and bounds.  Structure relates *)
(* the writer, the output in flight, the manifest and the store: what the    *)
(* writer believes is what is published or about to be; the output in flight *)
(* adds one new file to entries that are already published; no tombstone of  *)
(* the published manifest is missing from the next one.                      *)

Typed == TypeOK /\ Bounded

\* The postings of a body lie in the range of its entry.
EntryHolds(s, body) ==
    \A p \in Contents(s, body) : s.count > 0 /\ s.lo <= p[1] /\ p[1] <= s.hi

UniqueNames(man) == \A s, t \in man : s.name = t.name => s = t

WriterInStep ==
    /\ ~up => out = NoOutput /\ specs = {}
    /\ out.step \in {"split", "manifest"} => out.man = specs
    /\ out.step \in {"ack", "delete"} => out.man = manifest
    /\ up /\ out.step \in {"none", "ack", "delete"} => manifest = specs
    /\ out.step = "none" => out = NoOutput

OutputInFlight ==
    /\ out.step \in {"split", "manifest"} =>
         /\ out.name \notin FileNames(manifest)
         /\ \E e \in out.man : /\ e.name = out.name /\ EntryHolds(e, out.body)
                              /\ out.man \ {e} \subseteq manifest
         /\ out.removed \intersect FileNames(out.man) = {}
         /\ Masked(manifest) \union out.dels \subseteq Masked(out.man)
    /\ out.step = "manifest" => out.name \in DOMAIN objects /\ objects[out.name] = out.body
    /\ out.step = "delete" => out.removed \intersect FileNames(manifest) = {}

NumberedBelow ==
    up => /\ \A n \in Numbers(specs, "d") : n < flushSeq
          /\ \A n \in Numbers(specs, "c") : n < compactSeq

Structure ==
    /\ WriterInStep
    /\ OutputInFlight
    /\ NumberedBelow
    /\ UniqueNames(manifest) /\ UniqueNames(specs)
    /\ ManifestResolves
    /\ \A s \in manifest : EntryHolds(s, objects[s.name])
    /\ DeletedStaysDeleted

Inv == Typed /\ Structure

\* The base manifest and its one file, and a process that is down, are well typed.
LEMMA TypedInit == Init => Typed
<1> SUFFICES ASSUME Init PROVE Typed
  OBVIOUS
<1>1. Len(BaseDocs) \in Nat /\ DOMAIN BaseDocs = 1 .. Len(BaseDocs)
      /\ (BaseDocs # <<>> => Len(BaseDocs) > 0)
      /\ \A i \in DOMAIN BaseDocs : BaseDocs[i] \in Docs
  BY BaseAssumption
<1>2. BaseManifest \in SUBSET SplitSpecs /\ Below(BaseManifest, Len(BaseDocs) + 1)
  BY <1>1 DEF BaseManifest, BaseName, SplitSpecs, Names, Below
<1>3. BaseBody \in Bodies /\ BodyBelow(BaseBody, Len(BaseDocs) + 1)
  <2>1. ASSUME NEW e \in BaseBody PROVE e \in Nat \X Docs /\ e[1] < Len(BaseDocs) + 1
    <3>1. PICK i \in DOMAIN BaseDocs : e = <<i - 1, BaseDocs[i]>>
      BY DEF BaseBody
    <3>2. i \in 1 .. Len(BaseDocs) /\ BaseDocs[i] \in Docs
      BY <3>1, <1>1
    <3> QED
      BY <3>1, <3>2, <1>1
  <2> QED
    BY <2>1 DEF Bodies, BodyBelow
<1>4. FileNames(BaseManifest) \subseteq Names
  BY <1>2 DEF FileNames, SplitSpecs
<1>5. NoOutput \in Outputs /\ NoRead \in Readings
  BY DEF NoOutput, Outputs, NoRead, Readings, Names, Bodies
<1>6. BaseIds \subseteq Nat
  BY <1>1 DEF BaseIds
<1>7. Range(BaseDocs) \subseteq Docs
  BY <1>1 DEF Range
<1>8. WriterTypeOK
  BY DEF Init, WriterTypeOK
<1>9. DOMAIN objects \subseteq Names /\ \A n \in DOMAIN objects : objects[n] = BaseBody
  BY <1>4 DEF Init
<1>10. TypeOK
  <2> HIDE DEF Names, Bodies
  <2>1. /\ manifest \subseteq SplitSpecs /\ up \in BOOLEAN /\ acked \subseteq Docs
        /\ crashes \in Nat /\ compacts \in Nat /\ used \subseteq Nat /\ deleted \subseteq Nat
        /\ withdrawn \subseteq Docs /\ published \subseteq Names
    BY <1>2, <1>4, <1>6, <1>7 DEF Init
  <2>2. out \in Outputs /\ rd \in Readings
    BY <1>5 DEF Init
  <2> QED
    BY <1>3, <1>8, <1>9, <2>1, <2>2 DEF TypeOK
<1>11. Bounded
  BY <1>1, <1>2, <1>3, <1>9 DEF Init, Bounded, BoundedBy, NoOutput, Below, BodyBelow
<1> QED
  BY <1>10, <1>11 DEF Typed

\* resume reads well-formed counters off a well-formed manifest, and they are
\* past everything the manifest names.
LEMMA ResumeCounters ==
    ASSUME NEW man \in SUBSET SplitSpecs, NEW b \in Nat, Below(man, b)
    PROVE  /\ ResumedId(man) \in Nat
           /\ NextAbove({0} \union {s.epoch : s \in man}) \in Nat
           /\ \A k \in {"d", "c"} : /\ ResumedSeq(man, k) \in Nat
                                    /\ \A n \in Numbers(man, k) : n < ResumedSeq(man, k)
           /\ \A s \in man : s.count > 0 => s.hi < ResumedId(man)
<1> DEFINE his == {s.hi : s \in {t \in man : t.count > 0}}
           eps == {0} \union {s.epoch : s \in man}
<1>1. his \in SUBSET Nat /\ \A x \in his : x < b
  BY DEF Below, SplitSpecs
<1>2. eps \in SUBSET Nat /\ b + 1 \in Nat /\ \A x \in eps : x < b + 1
  BY DEF Below, SplitSpecs
<1>3. \A k \in {"d", "c"} : Numbers(man, k) \in SUBSET Nat /\ \A x \in Numbers(man, k) : x < b
  <2>1. \A s \in man : s.name \in Names /\ s.name[2] < b
    BY DEF Below, SplitSpecs
  <2> QED
    BY <2>1 DEF Numbers, Names
<1>4. NextAbove(his) \in Nat /\ \A x \in his : x < NextAbove(his)
  BY <1>1, NextAboveIsAbove
<1>5. NextAbove(eps) \in Nat
  <2> HIDE DEF eps
  <2> QED
    BY <1>2, NextAboveIsAbove
<1>6. \A k \in {"d", "c"} : /\ NextAbove(Numbers(man, k)) \in Nat
                            /\ \A x \in Numbers(man, k) : x < NextAbove(Numbers(man, k))
  BY <1>3, NextAboveIsAbove
<1>7. \A s \in man : s.count > 0 => s.hi < ResumedId(man)
  BY <1>4 DEF ResumedId
<1> QED
  BY <1>4, <1>5, <1>6, <1>7 DEF ResumedId, ResumedSeq

\* A larger bound bounds the same entries and bodies.
LEMMA BelowMonotone ==
    ASSUME NEW b \in Nat, NEW c \in Nat, b <= c
    PROVE  /\ \A man \in SUBSET SplitSpecs : Below(man, b) => Below(man, c)
           /\ \A body \in Bodies : BodyBelow(body, b) => BodyBelow(body, c)
<1>1. ASSUME NEW man \in SUBSET SplitSpecs, Below(man, b) PROVE Below(man, c)
  <2>1. \A s \in man : /\ s.lo \in Nat /\ s.hi \in Nat /\ s.epoch \in Nat /\ s.name[2] \in Nat
                       /\ s.lo < b /\ s.hi < b /\ s.epoch < b /\ s.name[2] < b
    BY <1>1 DEF Below, SplitSpecs, Names
  <2> QED
    BY <2>1 DEF Below
<1>2. ASSUME NEW body \in Bodies, BodyBelow(body, b) PROVE BodyBelow(body, c)
  <2>1. \A e \in body : e[1] \in Nat /\ e[1] < b
    BY <1>2 DEF BodyBelow, Bodies
  <2> QED
    BY <2>1 DEF BodyBelow
<1> QED
  BY <1>1, <1>2

\* Resuming from the stored manifest yields well-typed writer state.
LEMMA TypedStart == Typed /\ Start => Typed'
<1> SUFFICES ASSUME Typed, Start PROVE Typed'
  OBVIOUS
<1>1. PICK b \in Nat : BoundedBy(b)
  BY DEF Typed, Bounded
<1>2. manifest \in SUBSET SplitSpecs /\ Below(manifest, b)
  BY <1>1 DEF Typed, TypeOK, BoundedBy
<1>3. WriterTypeOK'
  BY <1>2, ResumeCounters DEF Start, Resume, WriterTypeOK
<1>4. TypeOK'
  BY <1>3 DEF Typed, TypeOK, Start, histVars
<1>5. BoundedBy(b)'
  BY <1>1, <1>2 DEF BoundedBy, Start, Resume
<1> QED
  BY <1>4, <1>5 DEF Typed, Bounded

\* A delivered document or deletion changes the memtable and pending deletes only.
LEMMA TypedPoll ==
    /\ Typed /\ (\E d \in Docs : PollAdd(d)) => Typed'
    /\ Typed /\ (\E g \in used : PollDelete(g)) => Typed'
<1>1. ASSUME Typed, NEW d \in Docs, PollAdd(d) PROVE Typed'
  <2>1. WriterTypeOK'
    BY <1>1 DEF PollAdd, AddKeys, Typed, TypeOK, WriterTypeOK
  <2>2. TypeOK'
    BY <1>1, <2>1 DEF PollAdd, AddKeys, clientVars, histVars, Typed, TypeOK
  <2> QED
    BY <1>1, <2>2 DEF PollAdd, AddKeys, clientVars, Typed, Bounded, BoundedBy
<1>2. ASSUME Typed, NEW g \in used, PollDelete(g) PROVE Typed'
  <2>1. WriterTypeOK'
    BY <1>2 DEF PollDelete, Delete, Typed, TypeOK, WriterTypeOK
  <2>2. TypeOK'
    BY <1>2, <2>1 DEF PollDelete, Delete, clientVars, histVars, Typed, TypeOK
  <2> QED
    BY <1>2, <2>2 DEF PollDelete, Delete, clientVars, Typed, Bounded, BoundedBy
<1> QED
  BY <1>1, <1>2

\* A crash leaves the store as it is and no output in flight.
LEMMA TypedCrash == Typed /\ Crash => Typed'
<1> SUFFICES ASSUME Typed, Crash PROVE Typed'
  OBVIOUS
<1>1. WriterTypeOK'
  BY DEF Crash, Down, WriterTypeOK
<1>2. NoOutput \in Outputs
  BY DEF NoOutput, Outputs, Names, Bodies
<1>3. TypeOK'
  <2>1. out' \in Outputs /\ up' \in BOOLEAN
    BY <1>2 DEF Crash
  <2>2. crashes' \in Nat
    BY DEF Crash, Typed, TypeOK
  <2> QED
    BY <1>1, <2>1, <2>2 DEF Crash, Typed, TypeOK, histVars
<1>4. PICK b \in Nat : BoundedBy(b)
  BY DEF Typed, Bounded
<1>5. BoundedBy(b)'
  BY <1>4 DEF BoundedBy, Below, BodyBelow, Crash, Down, NoOutput
<1> QED
  BY <1>3, <1>5 DEF Typed, Bounded

\* A flush adds one well-formed entry and one bounded body.
LEMMA TypedClientFlush == Typed /\ ClientFlush => Typed'
<1> SUFFICES ASSUME Typed, ClientFlush PROVE Typed'
  OBVIOUS
<1>1. WriterTypeOK /\ FlushSpec \in SplitSpecs /\ FlushBody \in Bodies /\ BodyBelow(FlushBody, Len(mem))
  BY FlushOutputType DEF Typed, TypeOK
<1>2. specs' = specs \union {FlushSpec} /\ specs' \in SUBSET SplitSpecs
  BY <1>1 DEF ClientFlush, Flush, WriterTypeOK
<1>3. Len(mem) \in Nat /\ Range(mem) \subseteq Docs /\ memBase \in Nat
  BY <1>1 DEF WriterTypeOK, Range
<1>4. memBase .. (memBase + Len(mem) - 1) \subseteq Nat
  BY <1>3
<1>5. WriterTypeOK'
  BY <1>1, <1>2 DEF ClientFlush, Flush, WriterTypeOK
<1>6. out'.man = specs' /\ out'.body = FlushBody /\ out' \in Outputs
  BY <1>1, <1>2, <1>3, <1>4 DEF ClientFlush, Outputs, SplitSpecs, WriterTypeOK
<1>7. TypeOK'
  BY <1>5, <1>6 DEF ClientFlush, Typed, TypeOK, histVars
<1>8. PICK b \in Nat : BoundedBy(b)
  BY DEF Typed, Bounded
<1>9. PICK c \in Nat : /\ b <= c /\ Len(mem) <= c
                       /\ FlushSpec.lo < c /\ FlushSpec.hi < c
                       /\ FlushSpec.epoch < c /\ FlushSpec.name[2] < c
  <2> DEFINE c == b + (FlushSpec.lo + (FlushSpec.hi + (FlushSpec.epoch
                    + (FlushSpec.name[2] + (Len(mem) + 1)))))
  <2>1. PICK lo \in Nat, hi \in Nat, ep \in Nat, no \in Nat, l \in Nat :
           /\ lo = FlushSpec.lo /\ hi = FlushSpec.hi /\ ep = FlushSpec.epoch
           /\ no = FlushSpec.name[2] /\ l = Len(mem)
    BY <1>1, <1>3 DEF SplitSpecs, Names
  <2>2. c = b + (lo + (hi + (ep + (no + (l + 1)))))
    BY <2>1
  <2> HIDE DEF c
  <2>3. c \in Nat /\ b <= c /\ l <= c /\ lo < c /\ hi < c /\ ep < c /\ no < c
    BY ONLY <2>2, b \in Nat, lo \in Nat, hi \in Nat, ep \in Nat, no \in Nat, l \in Nat
  <2> QED
    BY <2>1, <2>3
<1>10. /\ Below(manifest, c) /\ Below(specs, c) /\ Below({FlushSpec}, c)
       /\ \A n \in DOMAIN objects : BodyBelow(objects[n], c)
  BY <1>1, <1>8, <1>9, BelowMonotone DEF BoundedBy, Typed, TypeOK, WriterTypeOK, Below
<1>11. BodyBelow(FlushBody, c)
  BY <1>1, <1>3, <1>9, BelowMonotone
<1>12. Below(specs', c)
  BY <1>2, <1>10 DEF Below
<1>13. BoundedBy(c)'
  BY <1>6, <1>10, <1>11, <1>12 DEF BoundedBy, ClientFlush
<1> QED
  BY <1>7, <1>9, <1>13 DEF Typed, Bounded

\* A compaction's range, count and ids are numbers: its postings are bounded.
LEMMA TypedClientCompact ==
    ASSUME Typed, NEW inputs \in SUBSET specs, ClientCompact(inputs)
    PROVE  Typed'
<1> DEFINE spec == CompactSpec(inputs, objects)
           body == Merged(inputs, objects)
<1>1. PICK b \in Nat : BoundedBy(b)
  BY DEF Typed, Bounded
<1>2. WriterTypeOK /\ compactSeq \in Nat /\ inputs \in SUBSET SplitSpecs /\ inputs # {}
  BY DEF Typed, TypeOK, WriterTypeOK, ClientCompact, Compact
<1>3. \A s \in inputs : objects[s.name] \in Bodies /\ BodyBelow(objects[s.name], b)
  BY <1>1, <1>2 DEF Typed, TypeOK, BoundedBy, ClientCompact, FileNames
<1>4. Below(inputs, b)
  BY <1>1 DEF BoundedBy, Below
<1>5. spec \in SplitSpecs /\ Below({spec}, b + b + compactSeq + 1)
  BY <1>2, <1>3, <1>4, CompactOutputType
<1>6. body \in Bodies /\ \A p \in body : p[1] < b + b
  BY <1>2, <1>3, <1>4, MergedType DEF Below
<1> HIDE DEF spec, body
<1>7. /\ specs' = (specs \ inputs) \union {spec} /\ compactSeq' = compactSeq + 1
      /\ UNCHANGED <<nextId, nextEpoch, flushSeq, mem, memBase, pending>>
      /\ out' = [step |-> "split", name |-> spec.name, body |-> body, man |-> specs',
                 docs |-> {}, ids |-> {}, dels |-> {}, removed |-> FileNames(inputs)]
      /\ compacts' = compacts + 1
      /\ UNCHANGED <<objects, manifest, up, acked, rd, crashes, histVars>>
  BY DEF ClientCompact, Compact, spec, body
<1>8. specs' \in SUBSET SplitSpecs
  BY <1>2, <1>5, <1>7 DEF WriterTypeOK
<1>9. WriterTypeOK'
  BY <1>2, <1>7, <1>8 DEF WriterTypeOK
<1>10. FileNames(inputs) \subseteq Names
  BY <1>2 DEF FileNames, SplitSpecs
<1>11. out' \in Outputs /\ out'.man = specs' /\ out'.body = body
  BY <1>5, <1>6, <1>7, <1>8, <1>10 DEF Outputs, SplitSpecs
<1>12. compacts' \in Nat
  BY <1>7 DEF Typed, TypeOK
<1>13. TypeOK'
  BY <1>7, <1>9, <1>11, <1>12 DEF Typed, TypeOK, histVars
<1>14. PICK c \in Nat : c = b + b + compactSeq + 1
  BY <1>2
<1>15. b <= c /\ b + b <= c
  BY <1>2, <1>14
<1>16. /\ Below(manifest, c) /\ Below(specs, c)
       /\ \A n \in DOMAIN objects : BodyBelow(objects[n], c)
  BY <1>1, <1>2, <1>15, BelowMonotone DEF BoundedBy, Typed, TypeOK, WriterTypeOK
<1>17. Below(specs', c)
  BY <1>5, <1>7, <1>14, <1>16 DEF Below
<1>18. BodyBelow(body, c)
  BY <1>6, <1>15 DEF BodyBelow, Bodies
<1>19. BoundedBy(c)'
  BY <1>7, <1>11, <1>16, <1>17, <1>18 DEF BoundedBy
<1> QED
  BY <1>13, <1>19 DEF Typed, Bounded

\* The PUT of a split stores a body of the right type.
LEMMA TypedPutSplit == Typed /\ PutSplit => Typed'
<1> SUFFICES ASSUME Typed, PutSplit PROVE Typed'
  OBVIOUS
<1>1. out \in Outputs /\ out.name \in Names /\ out.body \in Bodies
  BY DEF Typed, TypeOK, Outputs
<1>2. out' \in Outputs /\ out'.man = out.man /\ out'.body = out.body
  BY <1>1 DEF PutSplit, Outputs
<1>3. /\ DOMAIN objects' = DOMAIN objects \union {out.name}
      /\ \A n \in DOMAIN objects' : objects'[n] = IF n = out.name THEN out.body ELSE objects[n]
  BY DEF PutSplit, Put
<1>4. WriterTypeOK' /\ (DOMAIN objects \subseteq Names)' /\ (\A n \in DOMAIN objects : objects[n] \in Bodies)'
  BY <1>1, <1>3 DEF PutSplit, writerVars, Typed, TypeOK, WriterTypeOK
<1>5. TypeOK'
  BY <1>2, <1>4 DEF PutSplit, Typed, TypeOK, histVars
<1>6. PICK b \in Nat : BoundedBy(b)
  BY DEF Typed, Bounded
<1>7. BoundedBy(b)'
  BY <1>2, <1>3, <1>6 DEF BoundedBy, PutSplit, writerVars
<1> QED
  BY <1>5, <1>7 DEF Typed, Bounded

\* What is visible through a manifest whose files are all in the store.
LEMMA VisibleType ==
    ASSUME Typed, ManifestResolves
    PROVE  Visible(manifest, objects) \in Bodies
<1> SUFFICES ASSUME NEW s \in manifest, NEW p \in Contents(s, objects[s.name])
             PROVE  p \in Nat \X Docs
  BY DEF Visible, Bodies
<1>1. s \in SplitSpecs /\ s.name \in DOMAIN objects /\ objects[s.name] \in Bodies
  BY DEF Typed, TypeOK, ManifestResolves, FileNames
<1>2. PICK e \in objects[s.name] : p = <<GlobalId(s, e[1]), e[2]>>
  BY DEF Contents
<1>3. e[1] \in Nat /\ e[2] \in Docs /\ s.lo \in Nat
  BY <1>1, <1>2 DEF Bodies, SplitSpecs
<1> QED
  BY <1>2, <1>3 DEF GlobalId

\* The cutover needs ManifestResolves: what it withdraws is read from the store.
LEMMA TypedPutManifest == Typed /\ ManifestResolves /\ PutManifest => Typed'
<1> SUFFICES ASSUME Typed, ManifestResolves, PutManifest PROVE Typed'
  OBVIOUS
<1>1. /\ out \in Outputs /\ out.man \in SUBSET SplitSpecs /\ out.ids \in SUBSET Nat
      /\ out.dels \in SUBSET Nat
  BY DEF Typed, TypeOK, Outputs
<1>2. out' \in Outputs /\ out'.man = out.man /\ out'.body = out.body
  BY <1>1 DEF PutManifest, AfterCutover, Outputs
<1>3. withdrawn' \subseteq Docs
  BY VisibleType DEF PutManifest, Cutover, Typed, TypeOK, Bodies
<1>4. FileNames(out.man) \subseteq Names
  BY <1>1 DEF FileNames, SplitSpecs
<1>5. WriterTypeOK'
  BY DEF PutManifest, writerVars, Typed, TypeOK, WriterTypeOK
<1>6. TypeOK'
  BY <1>1, <1>2, <1>3, <1>4, <1>5 DEF PutManifest, Cutover, Typed, TypeOK
<1>7. PICK b \in Nat : BoundedBy(b)
  BY DEF Typed, Bounded
<1>8. BoundedBy(b)'
  BY <1>2, <1>7 DEF BoundedBy, PutManifest, Cutover, writerVars
<1> QED
  BY <1>6, <1>8 DEF Typed, Bounded

\* An ack adds documents of the flush to those acked.
LEMMA TypedAck == Typed /\ Ack => Typed'
<1> SUFFICES ASSUME Typed, Ack PROVE Typed'
  OBVIOUS
<1>1. out' \in Outputs /\ out'.man = {} /\ out'.body = {}
  BY DEF Ack, NoOutput, Outputs, Names, Bodies
<1>2. acked' \subseteq Docs
  BY DEF Ack, Typed, TypeOK, Outputs
<1>3. WriterTypeOK'
  BY DEF Ack, writerVars, Typed, TypeOK, WriterTypeOK
<1>4. TypeOK'
  BY <1>1, <1>2, <1>3 DEF Ack, Typed, TypeOK, histVars
<1>5. PICK b \in Nat : BoundedBy(b)
  BY DEF Typed, Bounded
<1>6. BoundedBy(b)'
  BY <1>1, <1>5 DEF BoundedBy, Below, BodyBelow, Ack, writerVars
<1> QED
  BY <1>4, <1>6 DEF Typed, Bounded

\* Deleting a superseded file keeps the types of the others.
LEMMA TypedDeleteOld == Typed /\ (\E n \in out.removed : DeleteOld(n)) => Typed'
<1> SUFFICES ASSUME Typed, NEW n \in out.removed, DeleteOld(n) PROVE Typed'
  OBVIOUS
<1>1. /\ out' \in Outputs
      /\ out'.man \in {out.man, {}} /\ out'.body \in {out.body, {}}
  <2>1. NoOutput \in Outputs /\ NoOutput.man = {} /\ NoOutput.body = {}
    BY DEF NoOutput, Outputs, Names, Bodies
  <2>2. out \in Outputs
    BY DEF Typed, TypeOK
  <2>3. CASE out.removed = {n}
    BY <2>1, <2>3 DEF DeleteOld
  <2>4. CASE out.removed # {n}
    BY <2>2, <2>4 DEF DeleteOld, Outputs
  <2> QED
    BY <2>3, <2>4
<1>2. /\ DOMAIN objects' = DOMAIN objects \ {n}
      /\ \A m \in DOMAIN objects' : objects'[m] = objects[m]
  BY DEF DeleteOld, Remove
<1>3. WriterTypeOK' /\ (DOMAIN objects \subseteq Names)' /\ (\A m \in DOMAIN objects : objects[m] \in Bodies)'
  BY <1>2 DEF DeleteOld, writerVars, Typed, TypeOK, WriterTypeOK
<1>4. TypeOK'
  BY <1>1, <1>3 DEF DeleteOld, Typed, TypeOK, histVars
<1>5. PICK b \in Nat : BoundedBy(b)
  BY DEF Typed, Bounded
<1>6. BoundedBy(b)'
  BY <1>1, <1>2, <1>5 DEF BoundedBy, Below, BodyBelow, DeleteOld, writerVars
<1> QED
  BY <1>4, <1>6 DEF Typed, Bounded

\* A reader holds entries and postings of files that are in the store.
LEMMA TypedReader ==
    Typed /\ ManifestResolves /\ (ReaderOpen \/ \E s \in rd.todo : ReaderRead(s)) => Typed'
<1>1. ASSUME Typed, ManifestResolves, ReaderOpen PROVE rd' \in Readings
  BY <1>1, VisibleType DEF ReaderOpen, Readings, Typed, TypeOK, Bodies
<1>2. ASSUME Typed, NEW s \in rd.todo, ReaderRead(s) PROVE rd' \in Readings
  <2>1. rd \in Readings /\ s \in SplitSpecs
    BY <1>2 DEF Typed, TypeOK, Readings
  <2>2. CASE s.name \notin DOMAIN objects
    BY <1>2, <2>1, <2>2 DEF ReaderRead, Readings
  <2>3. CASE s.name \in DOMAIN objects
    <3>1. Contents(s, objects[s.name]) \in Bodies
      BY <1>2, <2>1, <2>3 DEF Contents, GlobalId, SplitSpecs, Bodies, Typed, TypeOK
    <3>2. rd.got \union Contents(s, objects[s.name]) \in Bodies
      BY <2>1, <3>1 DEF Readings, Bodies
    <3> QED
      BY <1>2, <2>1, <2>3, <3>2 DEF ReaderRead, Readings
  <2> QED
    BY <2>2, <2>3
<1>3. ASSUME Typed, rd' \in Readings,
             UNCHANGED <<writerVars, clientVars, crashes, compacts, histVars>>
      PROVE  Typed'
  <2>1. WriterTypeOK'
    BY <1>3 DEF writerVars, Typed, TypeOK, WriterTypeOK
  <2>2. TypeOK'
    BY <1>3, <2>1 DEF clientVars, histVars, Typed, TypeOK
  <2> QED
    BY <1>3, <2>2 DEF writerVars, clientVars, Typed, Bounded, BoundedBy
<1> QED
  BY <1>1, <1>2, <1>3 DEF ReaderOpen, ReaderRead

------------------------------------------------------------------------------
(* Every step keeps the structure.                                           *)

\* A number past all of one kind makes a new name.
LEMMA NameIsFresh ==
    ASSUME NEW man, NEW k, NEW n \in Nat, \A m \in Numbers(man, k) : m < n
    PROVE  <<k, n>> \notin FileNames(man)
<1> SUFFICES ASSUME NEW s \in man, s.name = <<k, n>> PROVE FALSE
  BY DEF FileNames
<1>1. n \in Numbers(man, k)
  BY DEF Numbers
<1> QED
  BY <1>1

\* The range of a flushed entry covers the postings of its body.
LEMMA FlushEntryHolds ==
    ASSUME WriterTypeOK
    PROVE  EntryHolds(FlushSpec, FlushBody)
<1> SUFFICES ASSUME NEW p \in Contents(FlushSpec, FlushBody)
             PROVE  FlushSpec.count > 0 /\ FlushSpec.lo <= p[1] /\ p[1] <= FlushSpec.hi
  BY DEF EntryHolds
<1>1. PICK i \in DOMAIN mem : p[1] = GlobalId(FlushSpec, i - 1)
  BY DEF Contents, FlushBody
<1>2. Len(mem) \in Nat /\ i \in 1 .. Len(mem) /\ mem # <<>> /\ memBase \in Nat
  BY DEF WriterTypeOK
<1>3. FlushSpec = DeltaEntry(memBase, memBase + Len(mem) - 1)
  BY <1>2 DEF FlushSpec
<1>4. p[1] = memBase + (i - 1)
  BY <1>1, <1>3 DEF GlobalId, DeltaEntry
<1>5. FlushSpec.count = Len(mem) /\ FlushSpec.lo = memBase /\ FlushSpec.hi = memBase + Len(mem) - 1
  BY <1>3 DEF DeltaEntry
<1> QED
  BY <1>2, <1>4, <1>5

\* The range of a merged entry covers what the merge kept.
LEMMA CompactEntryHolds ==
    ASSUME NEW inputs, NEW objs, NEW b \in Nat, Merged(inputs, objs) \in Bodies,
           \A p \in Merged(inputs, objs) : p[1] < b
    PROVE  EntryHolds(CompactSpec(inputs, objs), Merged(inputs, objs))
<1> DEFINE spec == CompactSpec(inputs, objs)
           pres == Present(inputs, objs)
<1>1. pres \in SUBSET Nat /\ \A x \in pres : x < b
  BY DEF Present, Bodies
<1>2. IsFiniteSet(pres)
  BY <1>1, FS_BoundedSetOfNaturals
<1>3. pres # {} => Cardinality(pres) \in Nat /\ Cardinality(pres) # 0
  BY <1>2, FS_CardinalityType, FS_EmptySet
<1>4. pres # {} => \A x \in pres : Min(pres) <= x /\ x <= Max(pres)
  BY <1>1, MinIsLeast, MaxIsGreatest
<1>5. /\ spec.abs = TRUE /\ spec.count = Cardinality(pres)
      /\ pres # {} => spec.lo = Min(pres) /\ spec.hi = Max(pres)
  BY DEF CompactSpec, MergedEntry
<1>6. ASSUME NEW p \in Contents(spec, Merged(inputs, objs)) PROVE p[1] \in pres
  BY <1>5 DEF Contents, GlobalId, Present
<1> HIDE DEF spec, pres
<1>7. ASSUME NEW p \in Contents(spec, Merged(inputs, objs))
      PROVE  spec.count > 0 /\ spec.lo <= p[1] /\ p[1] <= spec.hi
  BY <1>3, <1>4, <1>5, <1>6
<1> QED
  BY <1>7 DEF EntryHolds, spec

\* At first nothing is in flight and the base file is in the store.
LEMMA StructureInit == Init => Structure
<1> SUFFICES ASSUME Init PROVE Structure
  OBVIOUS
<1>1. Len(BaseDocs) \in Nat /\ DOMAIN BaseDocs = 1 .. Len(BaseDocs)
  BY BaseAssumption
<1>2. \A s \in BaseManifest : /\ s.name = BaseName /\ ~s.abs /\ s.lo = 0
                              /\ s.hi = Len(BaseDocs) - 1 /\ s.count = Len(BaseDocs)
  BY DEF BaseManifest
<1>3. \A n \in DOMAIN objects : objects[n] = BaseBody
  BY DEF Init
<1>4. ManifestResolves
  BY DEF Init, ManifestResolves
<1>5. ASSUME NEW s \in manifest PROVE EntryHolds(s, objects[s.name])
  <2>1. objects[s.name] = BaseBody /\ s \in BaseManifest
    BY <1>3, <1>4 DEF Init, ManifestResolves, FileNames
  <2>2. SUFFICES ASSUME NEW p \in Contents(s, BaseBody)
                 PROVE  s.count > 0 /\ s.lo <= p[1] /\ p[1] <= s.hi
    BY <2>1 DEF EntryHolds
  <2>3. PICK i \in DOMAIN BaseDocs : p[1] = GlobalId(s, i - 1)
    BY DEF Contents, BaseBody
  <2>4. i \in 1 .. Len(BaseDocs) /\ p[1] = 0 + (i - 1)
    BY <1>1, <1>2, <2>1, <2>3 DEF GlobalId
  <2> QED
    BY <1>1, <1>2, <2>1, <2>4
<1>6. UniqueNames(manifest) /\ UniqueNames(specs)
  BY DEF Init, BaseManifest, UniqueNames
<1>7. WriterInStep /\ OutputInFlight /\ NumberedBelow /\ DeletedStaysDeleted
  BY DEF Init, WriterInStep, OutputInFlight, NumberedBelow, DeletedStaysDeleted, NoOutput
<1> QED
  BY <1>4, <1>5, <1>6, <1>7 DEF Structure

\* resume adopts the stored manifest and numbers past its names.
LEMMA StructureStart == Inv /\ Start => Structure'
<1> SUFFICES ASSUME Inv, Start PROVE Structure'
  OBVIOUS
<1>1. PICK b \in Nat : BoundedBy(b)
  BY DEF Inv, Typed, Bounded
<1>2. manifest \in SUBSET SplitSpecs /\ Below(manifest, b)
  BY <1>1 DEF Inv, Typed, TypeOK, BoundedBy
<1>3. NumberedBelow'
  BY <1>2, ResumeCounters DEF Start, Resume, NumberedBelow
<1>4. out = NoOutput
  BY DEF Inv, Structure, WriterInStep, Start
<1>5. WriterInStep' /\ OutputInFlight'
  BY <1>4 DEF Start, Resume, WriterInStep, OutputInFlight, NoOutput
<1> QED
  BY <1>3, <1>5 DEF Inv, Structure, Start, Resume, ManifestResolves, DeletedStaysDeleted, histVars

\* A crash forgets the output in flight; the published manifest stands.
LEMMA StructureCrash == Inv /\ Crash => Structure'
<1> SUFFICES ASSUME Inv, Crash PROVE Structure'
  OBVIOUS
<1>1. WriterInStep' /\ OutputInFlight' /\ NumberedBelow' /\ UniqueNames(specs')
  BY DEF Crash, Down, WriterInStep, OutputInFlight, NumberedBelow, NoOutput, UniqueNames
<1> QED
  BY <1>1 DEF Inv, Structure, Crash, ManifestResolves, DeletedStaysDeleted, histVars

\* Polling the source touches neither manifest nor store.
LEMMA StructurePoll ==
    Inv /\ (\/ \E d \in Docs : PollAdd(d)
            \/ \E g \in used : PollDelete(g)) => Structure'
<1> SUFFICES ASSUME Inv, UNCHANGED <<specs, flushSeq, compactSeq, clientVars, histVars>>
             PROVE  Structure'
  BY DEF PollAdd, AddKeys, PollDelete, Delete
<1> QED
  BY DEF Inv, Structure, clientVars, histVars, WriterInStep, OutputInFlight, NumberedBelow,
         ManifestResolves, DeletedStaysDeleted

\* A flush emits a new name, a range over its body, and its deletes as tombstones.
LEMMA StructureClientFlush == Inv /\ ClientFlush => Structure'
<1> SUFFICES ASSUME Inv, ClientFlush PROVE Structure'
  OBVIOUS
<1> DEFINE spec == FlushSpec
<1>1. WriterTypeOK /\ flushSeq \in Nat
  BY DEF Inv, Typed, TypeOK, WriterTypeOK
<1>2. up /\ out.step = "none" /\ manifest = specs /\ UniqueNames(specs)
  BY DEF Inv, Structure, WriterInStep, ClientFlush, Ready
<1>3. spec.name = <<"d", flushSeq>> /\ spec.tomb = pending
  BY DEF FlushSpec, DeltaEntry
<1>4. EntryHolds(spec, FlushBody)
  BY <1>1, FlushEntryHolds
<1>5. spec.name \notin FileNames(specs)
  BY <1>1, <1>2, <1>3, NameIsFresh DEF Inv, Structure, NumberedBelow
<1> HIDE DEF spec
<1>6. /\ specs' = specs \union {spec} /\ flushSeq' = flushSeq + 1 /\ compactSeq' = compactSeq
      /\ out' = [step |-> "split", name |-> spec.name, body |-> FlushBody,
                 man |-> specs', docs |-> Range(mem),
                 ids |-> memBase .. (memBase + Len(mem) - 1), dels |-> pending, removed |-> {}]
      /\ UNCHANGED <<objects, manifest, up, histVars>>
  BY DEF ClientFlush, Flush, spec
<1>7. WriterInStep'
  BY <1>2, <1>6 DEF WriterInStep
<1>8. Masked(manifest) \union pending \subseteq Masked(specs')
  BY <1>2, <1>3, <1>6 DEF Masked
<1>9. OutputInFlight'
  BY <1>2, <1>4, <1>5, <1>6, <1>8 DEF OutputInFlight
<1>10. NumberedBelow'
  <2>1. \A n \in Numbers(specs, "d") : n < flushSeq
    BY <1>2 DEF Inv, Structure, NumberedBelow
  <2>2. \A n \in Numbers(specs', "d") : n < flushSeq \/ n = flushSeq
    BY <1>3, <1>6, <2>1 DEF Numbers
  <2>3. \A n \in Numbers(specs', "d") : n \in Nat
    <3>1. spec \in SplitSpecs /\ specs \subseteq SplitSpecs
      BY <1>1, FlushOutputType DEF spec, WriterTypeOK
    <3> QED
      BY <1>6, <3>1 DEF Numbers, SplitSpecs, Names
  <2>4. Numbers(specs', "c") = Numbers(specs, "c")
    BY <1>3, <1>6 DEF Numbers
  <2> QED
    <3>1. \A n \in Numbers(specs', "d") : n < flushSeq + 1
      BY <1>1, <2>2, <2>3
    <3>2. \A n \in Numbers(specs', "c") : n < compactSeq
      BY <1>2, <2>4 DEF Inv, Structure, NumberedBelow
    <3> QED
      BY <1>6, <3>1, <3>2 DEF NumberedBelow
<1>11. UniqueNames(specs')
  BY <1>2, <1>5, <1>6 DEF UniqueNames, FileNames
<1> QED
  BY <1>6, <1>7, <1>9, <1>10, <1>11
     DEF Inv, Structure, ManifestResolves, DeletedStaysDeleted, histVars

\* A compaction emits a new name, frees its inputs' names, keeps their tombstones.
LEMMA StructureClientCompact ==
    ASSUME Inv, NEW inputs \in SUBSET specs, ClientCompact(inputs)
    PROVE  Structure'
<1> DEFINE spec == CompactSpec(inputs, objects)
           body == Merged(inputs, objects)
<1>1. PICK b \in Nat : BoundedBy(b)
  BY DEF Inv, Typed, Bounded
<1>2. WriterTypeOK /\ compactSeq \in Nat /\ inputs \in SUBSET SplitSpecs
  BY DEF Inv, Typed, TypeOK, WriterTypeOK
<1>3. up /\ out.step = "none" /\ manifest = specs /\ UniqueNames(specs)
  BY DEF Inv, Structure, WriterInStep, ClientCompact, Ready
<1>4. /\ spec.name = <<"c", compactSeq>> /\ spec.tomb = Masked(inputs)
  BY DEF CompactSpec, MergedEntry
<1>5. spec.name \notin FileNames(specs)
  BY <1>2, <1>3, <1>4, NameIsFresh DEF Inv, Structure, NumberedBelow
<1>6. EntryHolds(spec, body)
  <2>1. \A s \in inputs : /\ s.lo < b /\ objects[s.name] \in Bodies
                          /\ BodyBelow(objects[s.name], b)
    BY <1>1, <1>2 DEF Inv, Typed, TypeOK, BoundedBy, Below, ClientCompact, FileNames
  <2>2. body \in Bodies /\ \A p \in body : p[1] < b + b
    BY <1>2, <2>1, MergedType
  <2>3. b + b \in Nat
    OBVIOUS
  <2> QED
    BY <2>2, <2>3, CompactEntryHolds
<1> HIDE DEF spec, body
<1>7. /\ specs' = (specs \ inputs) \union {spec} /\ compactSeq' = compactSeq + 1
      /\ flushSeq' = flushSeq
      /\ out' = [step |-> "split", name |-> spec.name, body |-> body, man |-> specs',
                 docs |-> {}, ids |-> {}, dels |-> {}, removed |-> FileNames(inputs)]
      /\ UNCHANGED <<objects, manifest, up, histVars>>
  BY DEF ClientCompact, Compact, spec, body
<1>8. WriterInStep'
  BY <1>3, <1>7 DEF WriterInStep
<1>9. Masked(manifest) \subseteq Masked(specs')
  BY <1>3, <1>4, <1>7 DEF Masked
<1>10. FileNames(inputs) \intersect FileNames(specs') = {}
  BY <1>3, <1>5, <1>7 DEF UniqueNames, FileNames
<1>11. OutputInFlight'
  BY <1>3, <1>5, <1>6, <1>7, <1>9, <1>10 DEF OutputInFlight
<1>12. NumberedBelow'
  <2>1. \A n \in Numbers(specs, "c") : n < compactSeq
    BY <1>3 DEF Inv, Structure, NumberedBelow
  <2>2. \A n \in Numbers(specs', "c") : n < compactSeq \/ n = compactSeq
    BY <1>4, <1>7, <2>1 DEF Numbers
  <2>3. \A n \in Numbers(specs', "c") : n \in Nat
    BY <1>2, <1>4, <1>7 DEF Numbers, SplitSpecs, Names, WriterTypeOK
  <2>4. Numbers(specs', "d") \subseteq Numbers(specs, "d")
    BY <1>4, <1>7 DEF Numbers
  <2> QED
    BY <1>2, <1>3, <1>7, <2>2, <2>3, <2>4 DEF NumberedBelow, Inv, Structure
<1>13. UniqueNames(specs')
  BY <1>3, <1>5, <1>7 DEF UniqueNames, FileNames
<1> QED
  BY <1>7, <1>8, <1>11, <1>12, <1>13
     DEF Inv, Structure, ManifestResolves, DeletedStaysDeleted, histVars

\* The split's PUT writes a name the published manifest does not have.
LEMMA StructurePutSplit == Inv /\ PutSplit => Structure'
<1> SUFFICES ASSUME Inv, PutSplit PROVE Structure'
  OBVIOUS
<1>1. out \in Outputs /\ out.step = "split"
  BY DEF Inv, Typed, TypeOK, PutSplit
<1>2. /\ DOMAIN objects' = DOMAIN objects \union {out.name}
      /\ \A n \in DOMAIN objects' : objects'[n] = IF n = out.name THEN out.body ELSE objects[n]
  BY DEF PutSplit, Put
<1>3. /\ out'.step = "manifest" /\ out'.name = out.name /\ out'.body = out.body
      /\ out'.man = out.man /\ out'.dels = out.dels /\ out'.removed = out.removed
  BY <1>1 DEF PutSplit, Outputs
<1>4. UNCHANGED <<specs, flushSeq, compactSeq, manifest, up, deleted>>
  BY DEF PutSplit, writerVars, histVars
<1>5. WriterInStep'
  BY <1>1, <1>3, <1>4 DEF Inv, Structure, WriterInStep, NoOutput
<1>6. out.name \notin FileNames(manifest)
  BY <1>1 DEF Inv, Structure, OutputInFlight
<1>7. OutputInFlight'
  BY <1>1, <1>2, <1>3, <1>4 DEF Inv, Structure, OutputInFlight
<1>8. ManifestResolves' /\ \A s \in manifest : objects'[s.name] = objects[s.name]
  BY <1>2, <1>4, <1>6 DEF Inv, Structure, ManifestResolves, FileNames
<1> QED
  BY <1>4, <1>5, <1>7, <1>8 DEF Inv, Structure, NumberedBelow, DeletedStaysDeleted

\* At the cutover the one new file is already in the store.
LEMMA StructurePutManifest == Inv /\ PutManifest => Structure'
<1> SUFFICES ASSUME Inv, PutManifest PROVE Structure'
  OBVIOUS
<1>1. out \in Outputs /\ out.step = "manifest" /\ out.man = specs
  BY DEF Inv, Typed, TypeOK, PutManifest, Structure, WriterInStep
<1>2. /\ out'.step \in {"ack", "delete"} /\ out'.removed = out.removed /\ out'.man = out.man
  BY <1>1 DEF PutManifest, AfterCutover, Outputs
<1>3. /\ UNCHANGED <<specs, flushSeq, compactSeq, objects, up>>
      /\ manifest' = specs /\ deleted' = deleted \union out.dels
  BY <1>1 DEF PutManifest, Cutover, writerVars
<1>4. PICK e \in specs : /\ e.name = out.name /\ EntryHolds(e, out.body)
                         /\ specs \ {e} \subseteq manifest
  BY <1>1 DEF Inv, Structure, OutputInFlight
<1>5. out.name \in DOMAIN objects /\ objects[out.name] = out.body
  BY <1>1 DEF Inv, Structure, OutputInFlight
<1>6. WriterInStep'
  BY <1>1, <1>2, <1>3 DEF Inv, Structure, WriterInStep, NoOutput
<1>7. OutputInFlight'
  BY <1>1, <1>2, <1>3 DEF Inv, Structure, OutputInFlight
<1>8. ManifestResolves' /\ (\A s \in manifest : EntryHolds(s, objects[s.name]))'
  BY <1>3, <1>4, <1>5 DEF Inv, Structure, ManifestResolves, FileNames
<1>9. DeletedStaysDeleted'
  BY <1>1, <1>3 DEF Inv, Structure, DeletedStaysDeleted, OutputInFlight
<1> QED
  BY <1>3, <1>6, <1>7, <1>8, <1>9 DEF Inv, Structure, NumberedBelow

\* An ack ends the publication of a flush.
LEMMA StructureAck == Inv /\ Ack => Structure'
<1> SUFFICES ASSUME Inv, Ack PROVE Structure'
  OBVIOUS
<1>1. out' = NoOutput /\ out.step = "ack"
      /\ UNCHANGED <<specs, flushSeq, compactSeq, objects, manifest, up, deleted>>
  BY DEF Ack, writerVars, histVars
<1>2. WriterInStep' /\ OutputInFlight'
  BY <1>1 DEF Inv, Structure, WriterInStep, OutputInFlight, NoOutput
<1> QED
  BY <1>1, <1>2 DEF Inv, Structure, NumberedBelow, ManifestResolves, DeletedStaysDeleted

\* Only files the new manifest no longer names are deleted.
LEMMA StructureDeleteOld == Inv /\ (\E n \in out.removed : DeleteOld(n)) => Structure'
<1> SUFFICES ASSUME Inv, NEW n \in out.removed, DeleteOld(n) PROVE Structure'
  OBVIOUS
<1>1. out \in Outputs /\ out.step = "delete"
  BY DEF Inv, Typed, TypeOK, DeleteOld
<1>2. \/ out' = NoOutput
      \/ /\ out'.step = "delete" /\ out'.man = out.man /\ out'.removed = out.removed \ {n}
  BY <1>1 DEF DeleteOld, Outputs
<1>3. /\ DOMAIN objects' = DOMAIN objects \ {n}
      /\ \A m \in DOMAIN objects' : objects'[m] = objects[m]
      /\ UNCHANGED <<specs, flushSeq, compactSeq, manifest, up, deleted>>
  BY DEF DeleteOld, Remove, writerVars, histVars
<1>4. n \notin FileNames(manifest)
  BY <1>1 DEF Inv, Structure, OutputInFlight
<1>5. WriterInStep'
  BY <1>1, <1>2, <1>3 DEF Inv, Structure, WriterInStep, NoOutput
<1>6. OutputInFlight'
  BY <1>1, <1>2, <1>3 DEF Inv, Structure, OutputInFlight, NoOutput
<1>7. ManifestResolves' /\ \A s \in manifest : objects'[s.name] = objects[s.name]
  BY <1>3, <1>4 DEF Inv, Structure, ManifestResolves, FileNames
<1> QED
  BY <1>3, <1>5, <1>6, <1>7 DEF Inv, Structure, NumberedBelow, DeletedStaysDeleted

\* A reader changes nothing but itself.
LEMMA StructureReader ==
    Inv /\ (ReaderOpen \/ \E s \in rd.todo : ReaderRead(s)) => Structure'
<1> SUFFICES ASSUME Inv, UNCHANGED <<writerVars, clientVars, histVars>> PROVE Structure'
  BY DEF ReaderOpen, ReaderRead
<1> QED
  BY DEF Inv, Structure, writerVars, clientVars, histVars, WriterInStep, OutputInFlight,
         NumberedBelow, ManifestResolves, DeletedStaysDeleted

------------------------------------------------------------------------------
(* The theorems.                                                             *)

\* The invariant holds at first.
LEMMA InvInit == Init => Inv
  BY TypedInit, StructureInit DEF Inv

\* Every step of the writer, the client, the source and the reader keeps it.
LEMMA InvStep == Inv /\ [Next]_vars => Inv'
<1> SUFFICES ASSUME Inv, [Next]_vars PROVE Inv'
  OBVIOUS
<1>1. Typed /\ Structure /\ ManifestResolves
  BY DEF Inv, Structure
<1>2. CASE Start
  BY <1>1, <1>2, TypedStart, StructureStart DEF Inv
<1>3. CASE Crash
  BY <1>1, <1>3, TypedCrash, StructureCrash DEF Inv
<1>4. CASE \/ \E d \in Docs : PollAdd(d)
           \/ \E g \in used : PollDelete(g)
  BY <1>1, <1>4, TypedPoll, StructurePoll DEF Inv
<1>5. CASE ClientFlush
  BY <1>1, <1>5, TypedClientFlush, StructureClientFlush DEF Inv
<1>6. CASE \E inputs \in SUBSET specs : ClientCompact(inputs)
  BY <1>1, <1>6, TypedClientCompact, StructureClientCompact DEF Inv
<1>7. CASE PutSplit
  BY <1>1, <1>7, TypedPutSplit, StructurePutSplit DEF Inv
<1>8. CASE PutManifest
  BY <1>1, <1>8, TypedPutManifest, StructurePutManifest DEF Inv
<1>9. CASE Ack
  BY <1>1, <1>9, TypedAck, StructureAck DEF Inv
<1>10. CASE \E n \in out.removed : DeleteOld(n)
  BY <1>1, <1>10, TypedDeleteOld, StructureDeleteOld DEF Inv
<1>11. CASE ReaderOpen \/ \E s \in rd.todo : ReaderRead(s)
  BY <1>1, <1>11, TypedReader, StructureReader DEF Inv
<1>12. CASE UNCHANGED vars
  <2>1. Typed'
    BY <1>1, <1>12 DEF Typed, TypeOK, WriterTypeOK, Bounded, BoundedBy,
                       vars, writerVars, clientVars, histVars
  <2>2. Structure'
    BY <1>1, <1>12 DEF Structure, WriterInStep, OutputInFlight, NumberedBelow, ManifestResolves,
                       DeletedStaysDeleted, vars, writerVars, clientVars, histVars
  <2> QED
    BY <2>1, <2>2 DEF Inv
<1> QED
  BY <1>2, <1>3, <1>4, <1>5, <1>6, <1>7, <1>8, <1>9, <1>10, <1>11, <1>12 DEF Next

\* The inductive invariant holds in every behaviour, whatever crashes and
\* compactions it contains.
THEOREM Invariance == Spec => []Inv
<1>1. Init => Inv
  BY InvInit
<1>2. Inv /\ [Next]_vars => Inv'
  BY InvStep
<1> QED
  BY <1>1, <1>2, PTL DEF Spec

\* Every variable keeps its type: the store's files, the manifest, the writer's
\* counters and memtable, the output in flight, the reader.
THEOREM TypeCorrect == Spec => []TypeOK
<1>1. Inv => TypeOK
  BY DEF Inv, Typed
<1> QED
  BY <1>1, Invariance, PTL

\* No manifest names two splits alike, whatever crashes and compactions happen.
THEOREM NamesUniqueAlways == Spec => []NamesUnique
<1>1. Inv => NamesUnique
  <2> SUFFICES ASSUME Inv PROVE NamesUnique
    OBVIOUS
  <2>1. out.step \in {"none", "split", "manifest", "ack", "delete"}
    BY DEF Inv, Typed, TypeOK, Outputs
  <2>2. out.man \in {{}, specs, manifest}
    BY <2>1 DEF Inv, Structure, WriterInStep, NoOutput
  <2>3. UniqueNames(manifest) /\ UniqueNames(specs) /\ UniqueNames(out.man)
    BY <2>2 DEF Inv, Structure, UniqueNames
  <2> QED
    BY <2>3 DEF NamesUnique, UniqueNames
<1> QED
  BY <1>1, Invariance, PTL

\* Every split the published manifest names is in the store, at every moment.
THEOREM ManifestResolvesAlways == Spec => []ManifestResolves
<1>1. Inv => ManifestResolves
  BY DEF Inv, Structure
<1> QED
  BY <1>1, Invariance, PTL

\* No cutover, flush, compaction or restart unmasks an id that was deleted.
THEOREM DeletedStaysDeletedAlways == Spec => []DeletedStaysDeleted
<1>1. Inv => DeletedStaysDeleted
  BY DEF Inv, Structure
<1> QED
  BY <1>1, Invariance, PTL

\* Every posting lies in the id range its split's manifest entry claims.
THEOREM RangesHoldPostingsAlways == Spec => []RangesHoldPostings
<1>1. Inv => RangesHoldPostings
  BY DEF Inv, Structure, RangesHoldPostings, EntryHolds
<1> QED
  BY <1>1, Invariance, PTL

\* A step that keeps a file in the manifest keeps its bytes in the store.
LEMMA LiveFilesStep ==
    Inv /\ [Next]_vars =>
      \A n \in FileNames(manifest) \intersect FileNames(manifest') :
         n \in DOMAIN objects' /\ (n \in DOMAIN objects => objects'[n] = objects[n])
<1> SUFFICES ASSUME Inv, [Next]_vars, NEW n \in FileNames(manifest)
             PROVE  n \in DOMAIN objects' /\ objects'[n] = objects[n]
  OBVIOUS
<1>1. n \in DOMAIN objects
  BY DEF Inv, Structure, ManifestResolves
<1>2. CASE PutSplit
  BY <1>1, <1>2 DEF PutSplit, Put, Inv, Structure, OutputInFlight
<1>3. CASE \E m \in out.removed : DeleteOld(m)
  BY <1>1, <1>3 DEF DeleteOld, Remove, Inv, Structure, OutputInFlight
<1>4. CASE UNCHANGED objects
  BY <1>1, <1>4
<1> QED
  BY <1>2, <1>3, <1>4
     DEF Next, vars, clientVars, Start, Crash, PollAdd, PollDelete, ClientFlush, ClientCompact,
         PutManifest, Ack, ReaderOpen, ReaderRead

\* No step overwrites or deletes a file the published manifest refers to.
THEOREM LiveFilesIntactAlways == Spec => LiveFilesIntact
<1>1. Inv /\ [Next]_vars =>
        [\A n \in FileNames(manifest) \intersect FileNames(manifest') :
            n \in DOMAIN objects' /\ (n \in DOMAIN objects => objects'[n] = objects[n])]_vars
  BY LiveFilesStep
<1> QED
  BY <1>1, Invariance, PTL DEF Spec, LiveFilesIntact

------------------------------------------------------------------------------
(* A client that never compacts its newest delta.  What resume reads off the *)
(* manifest (the highest id, the last number of each name sequence) is then  *)
(* past everything that was ever published, and not only past what is        *)
(* published now.  Kept says so, and what follows from it: an output in      *)
(* flight is new, its cutover adds one batch and hides its deletes, what is  *)
(* acked has been shown, and a reader's files are as they were.              *)

InFlight == out.step \in {"split", "manifest"}

\* Ids at or below the range of an entry that holds documents; published names
\* numbered no higher than one of their kind.
IdsCovered(ids, man) == \A u \in ids : \E s \in man : s.count > 0 /\ u <= s.hi
NamesCovered(man) ==
    \A n \in published : n[1] # "b" => \E s \in man : s.name[1] = n[1] /\ n[2] <= s.name[2]

\* The writer numbers documents past every published id.
Numbered ==
    up => /\ \A u \in used \union out.ids : u < nextId
          /\ mem # <<>> => /\ nextId = memBase + Len(mem)
                           /\ \A u \in used \union out.ids : u < memBase

Covered ==
    /\ IdsCovered(used, manifest) /\ NamesCovered(manifest)
    /\ up => IdsCovered(used, specs) /\ NamesCovered(specs)
    /\ FileNames(manifest) \subseteq published

OutputIsNew ==
    InFlight => /\ out.name \notin published
                /\ out.ids \intersect used = {}
                /\ IdsCovered(out.ids, out.man)

\* A tombstone holds published ids; the next manifest masks what this one does
\* and the deletes it carries.
MasksUsed ==
    /\ pending \subseteq used /\ out.dels \subseteq used /\ Masked(manifest) \subseteq used
    /\ InFlight => Masked(out.man) = Masked(manifest) \union out.dels

\* What the cutover in flight will show: what is visible now less its deletes,
\* and a batch of its documents under its ids.
AfterPut == Put(objects, out.name, out.body)

Shows(batch) ==
    /\ Visible(out.man, AfterPut)
         = {p \in Visible(manifest, objects) : p[1] \notin out.dels} \union batch
    /\ \A p \in batch : p[1] \in out.ids
    /\ \A p, q \in batch : p[1] = q[1] => p = q
    /\ out.docs \subseteq Keyless \union {p[2] : p \in batch}

CutoverShows == InFlight => \E batch \in Bodies : Shows(batch)

\* What is acked, or about to be, can be found.
Findable == Keyless \union withdrawn \union {p[2] : p \in Visible(manifest, objects)}
AckedShown == AckedIsFindable /\ (out.step = "ack" => out.docs \subseteq Findable)

\* f is the store as the reader found it: the files of its manifest that are
\* still there have not changed, and it has collected those it read.
ReaderHolds ==
    rd.st \in {"reading", "done"} =>
      \E f : /\ \A s \in rd.man : /\ s.name \in published
                                  /\ s.name \in DOMAIN objects => objects[s.name] = f[s.name]
             /\ rd.snap = Visible(rd.man, f)
             /\ rd.todo \subseteq rd.man
             /\ rd.got = UNION {Contents(s, f[s.name]) : s \in rd.man \ rd.todo}
             /\ rd.st = "done" => rd.todo = {}

Kept == /\ Numbered /\ Covered /\ OutputIsNew /\ MasksUsed
        /\ CutoverShows /\ AckedShown /\ ReaderHolds

\* Something is visible if a split of the manifest has it and none masks it.
LEMMA VisibleMember ==
    ASSUME NEW man, NEW objs, NEW p
    PROVE  p \in Visible(man, objs) <=> /\ \E s \in man : p \in Contents(s, objs[s.name])
                                        /\ p[1] \notin Masked(man)
BY DEF Visible

\* What is visible depends on the files the manifest names and on no other.
LEMMA VisibleDepends ==
    ASSUME NEW man, NEW objs, NEW other, \A s \in man : other[s.name] = objs[s.name]
    PROVE  Visible(man, other) = Visible(man, objs)
<1>1. \A s \in man : Contents(s, other[s.name]) = Contents(s, objs[s.name])
  OBVIOUS
<1> QED
  BY <1>1 DEF Visible

\* The splits that are in the store, beside the name that is written.
Beside(man, name, objs) == \A s \in man : s.name # name /\ s.name \in DOMAIN objs

\* A PUT beside the splits of a manifest leaves them.
LEMMA PutBeside ==
    ASSUME NEW man, NEW name, NEW objs, NEW body, Beside(man, name, objs)
    PROVE  \A s \in man : Put(objs, name, body)[s.name] = objs[s.name]
BY DEF Put, Beside

\* One more split shows its postings that nothing masks, and masks by its tombstone.
LEMMA VisibleAdd ==
    ASSUME NEW man, NEW e, NEW objs, NEW body, Beside(man, e.name, objs), NEW p
    PROVE  p \in Visible(man \union {e}, Put(objs, e.name, body))
             <=> /\ p[1] \notin e.tomb
                 /\ \/ p \in Visible(man, objs)
                    \/ p \in Contents(e, body) /\ p[1] \notin Masked(man)
<1> DEFINE new == Put(objs, e.name, body)
           all == man \union {e}
<1>1. new[e.name] = body
  BY DEF Put
<1>2. \A s \in man : new[s.name] = objs[s.name]
  BY PutBeside
<1> HIDE DEF new
<1>3. p[1] \notin Masked(all) <=> p[1] \notin Masked(man) /\ p[1] \notin e.tomb
  BY DEF Masked
<1>4. (\E s \in all : p \in Contents(s, new[s.name]))
        <=> \/ \E s \in man : p \in Contents(s, objs[s.name])
            \/ p \in Contents(e, body)
  BY <1>1, <1>2
<1> HIDE DEF all
<1>5. p \in Visible(all, new) <=> /\ \E s \in all : p \in Contents(s, new[s.name])
                                  /\ p[1] \notin Masked(all)
  BY VisibleMember
<1>6. p \in Visible(man, objs) <=> /\ \E s \in man : p \in Contents(s, objs[s.name])
                                   /\ p[1] \notin Masked(man)
  BY VisibleMember
<1>7. p \in Visible(all, new) <=> /\ p[1] \notin e.tomb
                                  /\ \/ p \in Visible(man, objs)
                                     \/ p \in Contents(e, body) /\ p[1] \notin Masked(man)
  BY <1>3, <1>4, <1>5, <1>6
<1> QED
  BY <1>7 DEF all, new

\* A compaction of some splits of a manifest: its entry, its body, the manifest
\* and the store that it leads to.
IsMerge(man, inputs, e, objs, body, next, after) ==
    /\ inputs \subseteq man /\ Beside(man, e.name, objs)
    /\ e.abs = TRUE /\ e.tomb = Masked(inputs)
    /\ body = Merged(inputs, objs) /\ body \in Bodies
    /\ next = (man \ inputs) \union {e}
    /\ after = Put(objs, e.name, body)

\* A merged split shows what its inputs showed, and masks what they masked.
LEMMA VisibleMerge ==
    ASSUME NEW man, NEW inputs, NEW e, NEW objs, NEW body, NEW next, NEW after,
           IsMerge(man, inputs, e, objs, body, next, after)
    PROVE  Visible(next, after) = Visible(man, objs)
<1> DEFINE rest == man \ inputs
<1> USE DEF IsMerge
<1>1. Contents(e, body) = body
  <2>1. \A p \in body : <<GlobalId(e, p[1]), p[2]>> = p
    BY DEF GlobalId, Bodies
  <2> QED
    BY <2>1 DEF Contents
<1>2. Beside(rest, e.name, objs)
  BY DEF Beside
<1>3. ASSUME NEW p PROVE p \in Visible(next, after) <=> p \in Visible(man, objs)
  <2>1. p \in Visible(next, after) <=> /\ p[1] \notin e.tomb
                        /\ \/ p \in Visible(rest, objs)
                           \/ p \in Contents(e, body) /\ p[1] \notin Masked(rest)
    <3> HIDE DEF rest
    <3>1. next = rest \union {e} /\ after = Put(objs, e.name, body)
      BY DEF rest
    <3> QED
      BY <1>2, <3>1, VisibleAdd
  <2>2. p \in body <=> /\ \E s \in inputs : p \in Contents(s, objs[s.name])
                       /\ p[1] \notin Masked(inputs)
    BY DEF Merged
  <2>3. p \in Visible(rest, objs) <=> /\ \E s \in rest : p \in Contents(s, objs[s.name])
                                      /\ p[1] \notin Masked(rest)
    <3> HIDE DEF rest
    <3> QED
      BY VisibleMember
  <2>4. p \in Visible(man, objs) <=> /\ \E s \in man : p \in Contents(s, objs[s.name])
                                     /\ p[1] \notin Masked(man)
    BY VisibleMember
  <2>5. p[1] \in Masked(man) <=> p[1] \in Masked(rest) \/ p[1] \in Masked(inputs)
    BY DEF Masked
  <2>6. (\E s \in man : p \in Contents(s, objs[s.name]))
          <=> \/ \E s \in rest : p \in Contents(s, objs[s.name])
              \/ \E s \in inputs : p \in Contents(s, objs[s.name])
    OBVIOUS
  <2> HIDE DEF rest
  <2> QED
    BY <1>1, <2>1, <2>2, <2>3, <2>4, <2>5, <2>6
<1> QED
  BY <1>3

\* What Inv says of the types of a state.
LEMMA InvTypes ==
    Inv => /\ manifest \in SUBSET SplitSpecs /\ specs \in SUBSET SplitSpecs
           /\ out \in Outputs
           /\ used \in SUBSET Nat /\ published \in SUBSET Names
           /\ nextId \in Nat /\ memBase \in Nat /\ flushSeq \in Nat /\ compactSeq \in Nat
           /\ mem \in Seq(Docs)
BY DEF Inv, Typed, TypeOK, WriterTypeOK

\* With no output in flight there is nothing to publish.
LEMMA Idle ==
    Inv /\ out.step = "none" => out.ids = {} /\ out.dels = {} /\ out.docs = {} /\ ~InFlight
BY DEF Inv, Structure, WriterInStep, NoOutput, InFlight

\* A step that leaves the store alone leaves what can be found alone.
LEMMA QuietStep ==
    UNCHANGED <<objects, manifest, histVars>> =>
      /\ UNCHANGED <<used, published, Findable, FileNames(manifest), Masked(manifest)>>
      /\ Visible(manifest, objects)' = Visible(manifest, objects)
BY DEF histVars, Findable, FileNames, Masked, Visible, Contents

\* A reader is left alone by a step that rewrites no file that was ever published.
LEMMA ReaderUnmoved ==
    ASSUME ReaderHolds, rd' = rd, published \subseteq published',
           \A n \in published \intersect DOMAIN objects' :
              n \in DOMAIN objects /\ objects'[n] = objects[n]
    PROVE  ReaderHolds'
<1> SUFFICES ASSUME rd.st \in {"reading", "done"}
             PROVE \E f : /\ \A s \in rd.man : /\ s.name \in published'
                                               /\ s.name \in DOMAIN objects' => objects'[s.name] = f[s.name]
                          /\ rd.snap = Visible(rd.man, f)
                          /\ rd.todo \subseteq rd.man
                          /\ rd.got = UNION {Contents(s, f[s.name]) : s \in rd.man \ rd.todo}
                          /\ rd.st = "done" => rd.todo = {}
  BY DEF ReaderHolds, Visible, Contents
<1>1. PICK f : /\ \A s \in rd.man : /\ s.name \in published
                                    /\ s.name \in DOMAIN objects => objects[s.name] = f[s.name]
               /\ rd.snap = Visible(rd.man, f)
               /\ rd.todo \subseteq rd.man
               /\ rd.got = UNION {Contents(s, f[s.name]) : s \in rd.man \ rd.todo}
               /\ rd.st = "done" => rd.todo = {}
  BY DEF ReaderHolds
<1>2. \A s \in rd.man : /\ s.name \in published'
                        /\ s.name \in DOMAIN objects' => objects'[s.name] = f[s.name]
  BY <1>1
<1> QED
  BY <1>1, <1>2

\* A step that leaves the store alone leaves the reader alone.
LEMMA QuietReader ==
    ReaderHolds /\ UNCHANGED <<objects, histVars, rd>> => ReaderHolds'
BY ReaderUnmoved DEF histVars

\* At first the base is published, and found.
LEMMA KeptInit == Init => Kept
<1> SUFFICES ASSUME Init PROVE Kept
  OBVIOUS
<1>1. Len(BaseDocs) \in Nat /\ DOMAIN BaseDocs = 1 .. Len(BaseDocs)
  BY BaseAssumption
<1>2. ~InFlight /\ out.step = "none" /\ ~up /\ out.dels = {} /\ pending = {} /\ rd.st = "idle"
  BY DEF Init, InFlight, NoOutput, NoRead
<1>3. Numbered /\ OutputIsNew /\ CutoverShows /\ ReaderHolds
  BY <1>2 DEF Numbered, OutputIsNew, CutoverShows, ReaderHolds
<1>4. Covered
  <2>1. IdsCovered(used, manifest)
    <3> SUFFICES ASSUME NEW i \in DOMAIN BaseDocs
                 PROVE  \E s \in BaseManifest : s.count > 0 /\ i - 1 <= s.hi
      BY DEF IdsCovered, Init, BaseIds
    <3>1. BaseDocs # <<>> /\ i \in 1 .. Len(BaseDocs)
      BY <1>1
    <3>2. PICK s \in BaseManifest : s.count = Len(BaseDocs) /\ s.hi = Len(BaseDocs) - 1
      BY <3>1 DEF BaseManifest
    <3> QED
      BY <1>1, <3>1, <3>2
  <2>2. NamesCovered(manifest)
    BY DEF NamesCovered, Init, FileNames, BaseManifest, BaseName
  <2> QED
    BY <1>2, <2>1, <2>2 DEF Covered, Init
<1>5. Masked(manifest) = {}
  BY DEF Init, BaseManifest, Masked
<1>6. MasksUsed
  BY <1>2, <1>5 DEF MasksUsed
<1>7. acked \subseteq Findable
  <2> SUFFICES ASSUME NEW i \in DOMAIN BaseDocs, BaseDocs[i] \notin Keyless
               PROVE  \E p \in Visible(manifest, objects) : p[2] = BaseDocs[i]
    BY DEF Findable, Init, Range
  <2> BaseDocs # <<>>
    BY <1>1
  <2>1. PICK s \in manifest : s.name = BaseName /\ s.lo = 0 /\ s.abs = FALSE
    BY DEF Init, BaseManifest
  <2>2. objects[s.name] = BaseBody
    BY <2>1 DEF Init, FileNames
  <2>3. <<i - 1, BaseDocs[i]>> \in BaseBody /\ i \in 1 .. Len(BaseDocs)
    BY <1>1 DEF BaseBody
  <2>4. GlobalId(s, i - 1) = i - 1
    BY <1>1, <2>1, <2>3 DEF GlobalId
  <2>5. <<i - 1, BaseDocs[i]>> \in Contents(s, objects[s.name])
    BY <2>2, <2>3, <2>4 DEF Contents
  <2>6. <<i - 1, BaseDocs[i]>> \in Visible(manifest, objects)
    BY <1>5, <2>1, <2>5, VisibleMember
  <2> QED
    BY <2>6
<1>8. AckedShown
  BY <1>2, <1>7 DEF AckedShown, AckedIsFindable, Findable
<1> QED
  BY <1>3, <1>4, <1>6, <1>8 DEF Kept

\* resume numbers documents past every id that was ever published.
LEMMA KeptStart == Inv /\ Kept /\ Start => Kept'
<1> SUFFICES ASSUME Inv, Kept, Start PROVE Kept'
  OBVIOUS
<1>1. PICK b \in Nat : BoundedBy(b)
  BY DEF Inv, Typed, Bounded
<1>2. manifest \in SUBSET SplitSpecs /\ Below(manifest, b)
  BY <1>1 DEF Inv, Typed, TypeOK, BoundedBy
<1>3. out = NoOutput /\ out' = out
  BY DEF Inv, Structure, WriterInStep, Start
<1>4. /\ UNCHANGED <<objects, manifest, histVars, rd, acked>>
      /\ specs' = manifest /\ mem' = <<>> /\ pending' = {} /\ nextId' = ResumedId(manifest)
  BY DEF Start, Resume
<1>5. Numbered'
  <2>1. ResumedId(manifest) \in Nat /\ \A s \in manifest : s.count > 0 => s.hi < ResumedId(manifest)
    BY <1>2, ResumeCounters
  <2>2. ASSUME NEW u \in used PROVE u < ResumedId(manifest)
    <3>1. PICK s \in manifest : s.count > 0 /\ u <= s.hi
      BY DEF Kept, Covered, IdsCovered
    <3>2. u \in Nat /\ s.hi \in Nat
      BY <1>2, InvTypes DEF SplitSpecs
    <3> QED
      BY <2>1, <3>1, <3>2
  <2> QED
    BY <1>3, <1>4, <2>2 DEF Numbered, NoOutput, histVars
<1>6. Covered'
  BY <1>4 DEF Kept, Covered, IdsCovered, NamesCovered, FileNames, histVars
<1>7. OutputIsNew' /\ CutoverShows'
  BY <1>3 DEF OutputIsNew, CutoverShows, InFlight, NoOutput
<1>8. MasksUsed'
  BY <1>3, <1>4, QuietStep DEF Kept, MasksUsed, InFlight, NoOutput
<1>9. AckedShown'
  BY <1>3, <1>4, QuietStep DEF Kept, AckedShown, AckedIsFindable, Findable, NoOutput
<1>10. ReaderHolds'
  BY <1>4, QuietReader DEF Kept
<1> QED
  BY <1>5, <1>6, <1>7, <1>8, <1>9, <1>10 DEF Kept

\* A crash loses nothing that was published.
LEMMA KeptCrash == Inv /\ Kept /\ Crash => Kept'
<1> SUFFICES ASSUME Inv, Kept, Crash PROVE Kept'
  OBVIOUS
<1>1. /\ UNCHANGED <<objects, manifest, histVars, rd, acked>>
      /\ ~up' /\ pending' = {} /\ out' = NoOutput
  BY DEF Crash, Down
<1>2. Numbered' /\ OutputIsNew' /\ CutoverShows'
  BY <1>1 DEF Numbered, OutputIsNew, CutoverShows, InFlight, NoOutput
<1>3. Covered'
  BY <1>1 DEF Kept, Covered, IdsCovered, NamesCovered, FileNames, histVars
<1>4. MasksUsed'
  BY <1>1, QuietStep DEF Kept, MasksUsed, InFlight, NoOutput
<1>5. AckedShown'
  BY <1>1, QuietStep DEF Kept, AckedShown, AckedIsFindable, Findable, NoOutput
<1>6. ReaderHolds'
  BY <1>1, QuietReader DEF Kept
<1> QED
  BY <1>2, <1>3, <1>4, <1>5, <1>6 DEF Kept

\* A document takes an id past all published ones; a deletion is of a published id.
LEMMA KeptPoll ==
    /\ Inv /\ Kept /\ (\E d \in Docs : PollAdd(d)) => Kept'
    /\ Inv /\ Kept /\ (\E g \in used : PollDelete(g)) => Kept'
<1>1. ASSUME Inv, Kept, UNCHANGED <<specs, clientVars, histVars, rd>>, Numbered', pending' \subseteq used
      PROVE  Kept'
  <2>1. UNCHANGED <<objects, manifest, up, out, acked>>
    BY <1>1 DEF clientVars
  <2>2. Covered' /\ OutputIsNew'
    BY <1>1, <2>1 DEF Kept, Covered, IdsCovered, NamesCovered, FileNames, OutputIsNew, InFlight, histVars
  <2>3. MasksUsed'
    BY <1>1, <2>1, QuietStep DEF Kept, MasksUsed, InFlight, Masked
  <2>4. CutoverShows'
    BY <1>1, <2>1 DEF Kept, CutoverShows, Shows, AfterPut, InFlight, Visible, Contents
  <2>5. AckedShown'
    BY <1>1, <2>1, QuietStep DEF Kept, AckedShown, AckedIsFindable, Findable
  <2>6. ReaderHolds'
    BY <1>1, <2>1, QuietReader DEF Kept
  <2> QED
    BY <1>1, <2>2, <2>3, <2>4, <2>5, <2>6 DEF Kept
<1>2. ASSUME Inv, Kept, NEW d \in Docs, PollAdd(d) PROVE Kept'
  <2>1. /\ UNCHANGED <<specs, clientVars, histVars, rd, pending>>
        /\ up /\ up' /\ out.ids = {} /\ out'.ids = {}
        /\ memBase' = IF mem = <<>> THEN nextId ELSE memBase
        /\ mem' = Append(mem, d) /\ nextId' = nextId + 1
    BY <1>2, Idle DEF PollAdd, AddKeys, Ready, clientVars
  <2>2. used' = used /\ \A u \in used : u \in Nat
    BY <1>2, <2>1, InvTypes DEF histVars
  <2>3. nextId \in Nat /\ memBase \in Nat /\ mem \in Seq(Docs) /\ Len(mem') = Len(mem) + 1
        /\ Len(mem) \in Nat /\ (mem = <<>> => Len(mem) = 0)
    BY <1>2, <2>1, InvTypes
  <2>4. /\ \A u \in used : u < nextId
        /\ mem # <<>> => nextId = memBase + Len(mem) /\ \A u \in used : u < memBase
    BY <1>2, <2>1 DEF Kept, Numbered
  <2>5. \A u \in used : u < nextId + 1
    BY <2>2, <2>3, <2>4
  <2>6. nextId' = memBase' + Len(mem') /\ \A u \in used : u < memBase'
    BY <2>1, <2>3, <2>4
  <2>7. Numbered'
    BY <2>1, <2>2, <2>5, <2>6 DEF Numbered
  <2> QED
    BY <1>1, <1>2, <2>1, <2>7 DEF Kept, MasksUsed
<1>3. ASSUME Inv, Kept, NEW g \in used, PollDelete(g) PROVE Kept'
  <2>1. /\ UNCHANGED <<specs, clientVars, histVars, rd, mem, memBase, nextId>>
        /\ pending' = pending \union {g}
    BY <1>3 DEF PollDelete, Delete
  <2>2. Numbered'
    BY <1>3, <2>1 DEF Kept, Numbered, clientVars, histVars
  <2> QED
    BY <1>1, <1>3, <2>1, <2>2 DEF Kept, MasksUsed
<1> QED
  BY <1>2, <1>3

\* The documents of a flush, under their ids.
FlushBatch == Contents(FlushSpec, FlushBody)

\* They take consecutive ids, one each, and include every document with a key.
LEMMA FlushBatchIs ==
    ASSUME WriterTypeOK
    PROVE  /\ FlushBatch \in Bodies
           /\ \A p \in FlushBatch : p[1] \in memBase .. (memBase + Len(mem) - 1)
           /\ \A p, q \in FlushBatch : p[1] = q[1] => p = q
           /\ Range(mem) \subseteq Keyless \union {p[2] : p \in FlushBatch}
<1>1. Len(mem) \in Nat /\ DOMAIN mem = 1 .. Len(mem) /\ memBase \in Nat
      /\ \A i \in DOMAIN mem : mem[i] \in Docs
  BY DEF WriterTypeOK
<1>2. ASSUME NEW i \in DOMAIN mem PROVE GlobalId(FlushSpec, i - 1) = memBase + (i - 1)
  <2>1. mem # <<>>
    BY <1>1
  <2> QED
    BY <2>1 DEF GlobalId, FlushSpec, DeltaEntry
<1>3. ASSUME NEW p \in FlushBatch
      PROVE  \E i \in DOMAIN mem : p = <<memBase + (i - 1), mem[i]>>
  <2>1. PICK e \in FlushBody : p = <<GlobalId(FlushSpec, e[1]), e[2]>>
    BY DEF FlushBatch, Contents
  <2>2. PICK i \in DOMAIN mem : e = <<i - 1, mem[i]>>
    BY DEF FlushBody
  <2> QED
    BY <1>2, <2>1, <2>2
<1>4. ASSUME NEW p \in FlushBatch
      PROVE  p \in Nat \X Docs /\ p[1] \in memBase .. (memBase + Len(mem) - 1)
  <2>1. PICK i \in DOMAIN mem : p = <<memBase + (i - 1), mem[i]>>
    BY <1>3
  <2>2. i \in 1 .. Len(mem) /\ mem[i] \in Docs
    BY <1>1
  <2> QED
    BY <1>1, <2>1, <2>2
<1>5. ASSUME NEW p \in FlushBatch, NEW q \in FlushBatch, p[1] = q[1] PROVE p = q
  <2>1. PICK i \in DOMAIN mem : p = <<memBase + (i - 1), mem[i]>>
    BY <1>3
  <2>2. PICK j \in DOMAIN mem : q = <<memBase + (j - 1), mem[j]>>
    BY <1>3
  <2>3. memBase + (i - 1) = memBase + (j - 1) /\ i \in Nat /\ j \in Nat
    BY <1>1, <1>5, <2>1, <2>2
  <2>4. i = j
    BY <1>1, <2>3
  <2> QED
    BY <2>1, <2>2, <2>4
<1>6. ASSUME NEW i \in DOMAIN mem, mem[i] \notin Keyless
      PROVE  \E p \in FlushBatch : p[2] = mem[i]
  <2>1. <<i - 1, mem[i]>> \in FlushBody
    BY <1>6 DEF FlushBody
  <2>2. <<GlobalId(FlushSpec, i - 1), mem[i]>> \in FlushBatch
    BY <2>1 DEF FlushBatch, Contents
  <2> QED
    BY <2>2
<1>7. Range(mem) \subseteq Keyless \union {p[2] : p \in FlushBatch}
  BY <1>6 DEF Range
<1> QED
  BY <1>4, <1>5, <1>7 DEF Bodies

\* The manifest's splits are in the store, beside a name it does not have.
LEMMA ManifestBeside ==
    ASSUME Inv, NEW name, name \notin FileNames(manifest)
    PROVE  Beside(manifest, name, objects)
BY DEF Inv, Structure, ManifestResolves, Beside, FileNames

\* A flush is on its way: a new file, new ids, and its documents to be seen.
LEMMA KeptClientFlush == Inv /\ Inv' /\ Kept /\ ClientFlush => Kept'
<1> SUFFICES ASSUME Inv, Inv', Kept, ClientFlush PROVE Kept'
  OBVIOUS
<1> DEFINE spec == FlushSpec
           ids == memBase .. (memBase + Len(mem) - 1)
<1>1. WriterTypeOK
  BY DEF Inv, Typed, TypeOK
<1>2. up /\ out.step = "none" /\ manifest = specs
  BY DEF Inv, Structure, WriterInStep, ClientFlush, Ready
<1>3. spec.name = <<"d", flushSeq>> /\ spec.tomb = pending
      /\ (mem # <<>> => spec.count = Len(mem) /\ spec.hi = memBase + Len(mem) - 1)
  BY DEF FlushSpec, DeltaEntry
<1>4. /\ UNCHANGED <<objects, manifest, histVars, rd, acked, up, nextId, memBase>>
      /\ specs' = manifest \union {spec} /\ mem' = <<>> /\ pending' = {}
      /\ out' = [step |-> "split", name |-> spec.name, body |-> FlushBody,
                 man |-> specs', docs |-> Range(mem), ids |-> ids, dels |-> pending, removed |-> {}]
  BY <1>2 DEF ClientFlush, Flush
<1>5. /\ out'.step = "split" /\ out'.name = spec.name /\ out'.body = FlushBody
      /\ out'.man = manifest \union {spec} /\ out'.docs = Range(mem) /\ out'.ids = ids
      /\ out'.dels = pending
  BY <1>4
<1>6. Len(mem) \in Nat /\ memBase \in Nat /\ nextId \in Nat /\ flushSeq \in Nat
      /\ (mem # <<>> => Len(mem) > 0) /\ (mem = <<>> => Len(mem) = 0)
  BY <1>1 DEF WriterTypeOK
<1> HIDE DEF spec
<1>7. \A u \in ids : u < nextId /\ mem # <<>>
  <2>1. mem # <<>> => nextId = memBase + Len(mem)
    BY <1>2 DEF Kept, Numbered
  <2> QED
    BY <1>6, <2>1
<1>8. ids \intersect used = {}
  <2>1. mem # <<>> => \A u \in used : u < memBase
    BY <1>2 DEF Kept, Numbered
  <2>2. \A u \in used : u \in Nat
    BY InvTypes
  <2> QED
    BY <1>6, <1>7, <2>1, <2>2
<1>9. Numbered'
  BY <1>2, <1>4, <1>5, <1>7 DEF Kept, Numbered, histVars
<1>10. Covered'
  <2>1. IdsCovered(used, manifest) /\ NamesCovered(manifest)
    BY DEF Kept, Covered
  <2>2. IdsCovered(used, specs') /\ NamesCovered(specs')
    BY <1>4, <2>1 DEF IdsCovered, NamesCovered
  <2> QED
    BY <1>4, <2>1, <2>2 DEF Kept, Covered, IdsCovered, NamesCovered, FileNames, histVars
<1>11. spec.name \notin published
  <2>1. \A n \in Numbers(specs, "d") : n < flushSeq
    BY <1>2 DEF Inv, Structure, NumberedBelow
  <2>2. ASSUME spec.name \in published PROVE FALSE
    <3>1. PICK s \in manifest : s.name[1] = "d" /\ flushSeq <= s.name[2]
      BY <1>3, <2>2 DEF Kept, Covered, NamesCovered
    <3>2. s.name[2] < flushSeq
      BY <1>2, <2>1, <3>1 DEF Numbers
    <3>3. s.name[2] \in Nat
      BY InvTypes DEF SplitSpecs, Names
    <3> QED
      BY <1>6, <3>1, <3>2, <3>3
  <2> QED
    BY <2>2
<1>12. OutputIsNew'
  <2>1. \A u \in ids : spec.count > 0 /\ u <= spec.hi
    BY <1>3, <1>6, <1>7
  <2>2. IdsCovered(ids, manifest \union {spec})
    BY <2>1 DEF IdsCovered
  <2> QED
    BY <1>4, <1>5, <1>8, <1>11, <2>2 DEF OutputIsNew, IdsCovered, histVars
<1>13. Masked(manifest \union {spec}) = Masked(manifest) \union pending
  BY <1>3 DEF Masked
<1>14. MasksUsed'
  <2>1. Masked(manifest)' = Masked(manifest) /\ used' = used /\ Masked(out.man)' = Masked(out'.man)
    BY <1>4 DEF Masked, histVars
  <2>2. pending \subseteq used /\ Masked(manifest) \subseteq used
    BY DEF Kept, MasksUsed
  <2> QED
    BY <1>4, <1>5, <1>13, <2>1, <2>2 DEF MasksUsed
<1>15. CutoverShows'
  <2> DEFINE after == Put(objects, spec.name, FlushBody)
  <2>1. FlushBatch \in Bodies /\ \A p \in FlushBatch : p[1] \in ids
    BY <1>1, FlushBatchIs
  <2>2. \A p, q \in FlushBatch : p[1] = q[1] => p = q
    BY <1>1, FlushBatchIs
  <2>3. Range(mem) \subseteq Keyless \union {p[2] : p \in FlushBatch}
    BY <1>1, FlushBatchIs
  <2>4. Beside(manifest, spec.name, objects)
    BY <1>11, ManifestBeside DEF Kept, Covered
  <2>5. \A p \in FlushBatch : p[1] \notin Masked(manifest) /\ p[1] \notin spec.tomb
    BY <1>3, <1>8, <2>1 DEF Kept, MasksUsed
  <2>6. Visible(manifest \union {spec}, after)
          = {p \in Visible(manifest, objects) : p[1] \notin pending} \union FlushBatch
    <3>1. ASSUME NEW p
          PROVE  p \in Visible(manifest \union {spec}, after)
                   <=> \/ p \in Visible(manifest, objects) /\ p[1] \notin pending
                       \/ p \in FlushBatch
      <4>1. p \in Visible(manifest \union {spec}, after)
              <=> /\ p[1] \notin spec.tomb
                  /\ \/ p \in Visible(manifest, objects)
                     \/ p \in Contents(spec, FlushBody) /\ p[1] \notin Masked(manifest)
        BY <2>4, VisibleAdd
      <4>2. Contents(spec, FlushBody) = FlushBatch
        BY DEF spec, FlushBatch
      <4> QED
        BY <1>3, <2>5, <4>1, <4>2
    <3> QED
      BY <3>1
  <2>7. /\ AfterPut' = after
        /\ Visible(out.man, AfterPut)' = Visible(manifest \union {spec}, after)
        /\ Visible(manifest, objects)' = Visible(manifest, objects)
    BY <1>4, <1>5 DEF AfterPut, Put, Visible, Contents, Masked
  <2>8. PICK batch \in Bodies : batch = FlushBatch
    BY <2>1
  <2>9. Shows(batch)'
    BY <1>5, <2>1, <2>2, <2>3, <2>6, <2>7, <2>8 DEF Shows
  <2> QED
    BY <2>8, <2>9 DEF CutoverShows
<1>16. AckedShown'
  BY <1>4, <1>5, QuietStep DEF Kept, AckedShown, AckedIsFindable, Findable
<1>17. ReaderHolds'
  BY <1>4, QuietReader DEF Kept
<1> QED
  BY <1>9, <1>10, <1>12, <1>14, <1>15, <1>16, <1>17 DEF Kept

\* A compaction that spares the newest delta is on its way: a new file, no new
\* ids, and nothing to be seen.
LEMMA KeptClientCompact ==
    ASSUME SpareNewest, Inv, Inv', Kept, NEW inputs \in SUBSET specs, ClientCompact(inputs)
    PROVE  Kept'
<1> DEFINE spec == CompactSpec(inputs, objects)
           body == Merged(inputs, objects)
<1>1. inputs \in SUBSET SplitSpecs /\ inputs \subseteq manifest /\ compactSeq \in Nat
  BY InvTypes DEF Inv, Structure, WriterInStep, ClientCompact, Ready
<1>2. up /\ out.step = "none" /\ manifest = specs /\ Spares(inputs)
  BY DEF Inv, Structure, WriterInStep, ClientCompact, Ready
<1>3. spec.name = <<"c", compactSeq>> /\ spec.tomb = Masked(inputs) /\ spec.abs = TRUE
  BY DEF CompactSpec, MergedEntry
<1> HIDE DEF spec
<1>4. /\ UNCHANGED <<objects, manifest, histVars, rd, acked, up, nextId, memBase, mem, pending>>
      /\ specs' = (manifest \ inputs) \union {spec}
      /\ out' = [step |-> "split", name |-> spec.name, body |-> body,
                 man |-> specs', docs |-> {}, ids |-> {}, dels |-> {},
                 removed |-> FileNames(inputs)]
  BY <1>2 DEF ClientCompact, Compact, spec
<1> HIDE DEF body
<1>5. /\ out'.step = "split" /\ out'.name = spec.name /\ out'.body = body
      /\ out'.man = (manifest \ inputs) \union {spec} /\ out'.docs = {} /\ out'.ids = {}
      /\ out'.dels = {}
  BY <1>4
<1>6. Numbered'
  BY <1>2, <1>4, <1>5 DEF Kept, Numbered, histVars
<1>7. IdsCovered(used, specs')
  <2> SUFFICES ASSUME NEW u \in used PROVE \E s \in specs' : s.count > 0 /\ u <= s.hi
    BY DEF IdsCovered
  <2>1. PICK s \in manifest : s.count > 0 /\ u <= s.hi
    BY DEF Kept, Covered, IdsCovered
  <2>2. CASE s \notin inputs
    BY <1>4, <2>1, <2>2
  <2>3. CASE s \in inputs
    <3>1. PICK t \in specs \ inputs : t.count > 0 /\ t.hi > s.hi
      BY <1>2, <2>1, <2>3 DEF Spares
    <3>2. t \in specs' /\ u \in Nat /\ s.hi \in Nat /\ t.hi \in Nat
      BY <1>2, <1>4, <3>1, InvTypes DEF SplitSpecs
    <3> QED
      BY <2>1, <3>1, <3>2
  <2> QED
    BY <2>2, <2>3
<1>8. NamesCovered(specs')
  <2> SUFFICES ASSUME NEW n \in published, n[1] # "b"
               PROVE  \E s \in specs' : s.name[1] = n[1] /\ n[2] <= s.name[2]
    BY DEF NamesCovered
  <2>1. PICK s \in manifest : s.name[1] = n[1] /\ n[2] <= s.name[2]
    BY DEF Kept, Covered, NamesCovered
  <2>2. n[1] \in {"d", "c"} /\ n[2] \in Nat /\ s.name[2] \in Nat
    BY InvTypes DEF Names, SplitSpecs
  <2>3. CASE s \notin inputs
    BY <1>4, <2>1, <2>3
  <2>4. CASE s \in inputs /\ n[1] = "d"
    <3>1. PICK t \in specs \ inputs : t.name[1] = "d" /\ t.name[2] > s.name[2]
      BY <1>2, <2>1, <2>4 DEF Spares
    <3>2. t \in specs' /\ t.name[2] \in Nat
      BY <1>2, <1>4, <3>1, InvTypes DEF SplitSpecs, Names
    <3> QED
      BY <2>1, <2>2, <2>4, <3>1, <3>2
  <2>5. CASE s \in inputs /\ n[1] = "c"
    <3>1. s.name[2] < compactSeq
      BY <1>2, <2>1, <2>5 DEF Inv, Structure, NumberedBelow, Numbers
    <3>2. spec \in specs' /\ spec.name[1] = "c" /\ spec.name[2] = compactSeq
      BY <1>3, <1>4
    <3> QED
      BY <1>1, <2>1, <2>2, <2>5, <3>1, <3>2
  <2> QED
    BY <2>2, <2>3, <2>4, <2>5
<1>9. Covered'
  BY <1>4, <1>7, <1>8 DEF Kept, Covered, IdsCovered, NamesCovered, FileNames, histVars
<1>10. spec.name \notin published
  <2>1. \A n \in Numbers(specs, "c") : n < compactSeq
    BY <1>2 DEF Inv, Structure, NumberedBelow
  <2>2. ASSUME spec.name \in published PROVE FALSE
    <3>1. PICK s \in manifest : s.name[1] = "c" /\ compactSeq <= s.name[2]
      BY <1>3, <2>2 DEF Kept, Covered, NamesCovered
    <3>2. s.name[2] < compactSeq
      BY <1>2, <2>1, <3>1 DEF Numbers
    <3>3. s.name[2] \in Nat
      BY InvTypes DEF SplitSpecs, Names
    <3> QED
      BY <1>1, <3>1, <3>2, <3>3
  <2> QED
    BY <2>2
<1>11. OutputIsNew'
  BY <1>4, <1>5, <1>10 DEF OutputIsNew, IdsCovered, histVars
<1>12. MasksUsed'
  <2>1. Masked(manifest)' = Masked(manifest) /\ used' = used /\ Masked(out.man)' = Masked(out'.man)
    BY <1>4 DEF Masked, histVars
  <2>2. Masked((manifest \ inputs) \union {spec}) = Masked(manifest)
    BY <1>1, <1>3 DEF Masked
  <2>3. pending \subseteq used /\ Masked(manifest) \subseteq used
    BY DEF Kept, MasksUsed
  <2> QED
    BY <1>4, <1>5, <2>1, <2>2, <2>3 DEF MasksUsed
<1>13. CutoverShows'
  <2> DEFINE after == Put(objects, spec.name, body)
             next == (manifest \ inputs) \union {spec}
  <2>1. Beside(manifest, spec.name, objects)
    BY <1>10, ManifestBeside DEF Kept, Covered
  <2>2. body \in Bodies
    <3>1. out' \in Outputs
      BY DEF Inv, Typed, TypeOK
    <3> QED
      BY <1>5, <3>1 DEF Outputs
  <2>3. Visible(next, after) = Visible(manifest, objects)
    <3>1. inputs \in SUBSET manifest /\ body = Merged(inputs, objects)
      BY <1>1 DEF body
    <3>2. IsMerge(manifest, inputs, spec, objects, body, next, after)
      BY <1>3, <2>1, <2>2, <3>1 DEF IsMerge
    <3> HIDE DEF next, after
    <3> QED
      BY <3>2, VisibleMerge
  <2>4. /\ AfterPut' = after
        /\ Visible(out.man, AfterPut)' = Visible(next, after)
        /\ Visible(manifest, objects)' = Visible(manifest, objects)
    BY <1>4, <1>5 DEF AfterPut, Put, Visible, Contents, Masked
  <2> HIDE DEF after, next
  <2>5. Shows({})'
    BY <1>5, <2>3, <2>4 DEF Shows
  <2> QED
    BY <2>5 DEF CutoverShows, Bodies
<1>14. AckedShown'
  BY <1>4, <1>5, QuietStep DEF Kept, AckedShown, AckedIsFindable, Findable
<1>15. ReaderHolds'
  BY <1>4, QuietReader DEF Kept
<1> QED
  BY <1>6, <1>9, <1>11, <1>12, <1>13, <1>14, <1>15 DEF Kept

\* A step that keeps the manifest and its files shows what was shown.
LEMMA SameView ==
    ASSUME manifest' = manifest, \A s \in manifest : objects'[s.name] = objects[s.name]
    PROVE  Visible(manifest, objects)' = Visible(manifest, objects)
<1>1. Visible(manifest, objects)' = Visible(manifest, objects')
  BY DEF Visible, Contents, Masked
<1> QED
  BY <1>1, VisibleDepends

\* The new file is written over none that was published.
LEMMA KeptPutSplit == Inv /\ Kept /\ PutSplit => Kept'
<1> SUFFICES ASSUME Inv, Kept, PutSplit PROVE Kept'
  OBVIOUS
<1>1. /\ UNCHANGED <<specs, nextId, mem, memBase, pending, manifest, up, acked, rd, histVars>>
      /\ objects' = Put(objects, out.name, out.body) /\ out.step = "split"
      /\ out' = [out EXCEPT !.step = "manifest"]
  BY DEF PutSplit, writerVars
<1>2. /\ out'.step = "manifest" /\ out'.name = out.name /\ out'.body = out.body /\ out'.man = out.man
      /\ out'.ids = out.ids /\ out'.dels = out.dels /\ out'.docs = out.docs
  BY <1>1, InvTypes DEF Outputs
<1>3. out.name \notin published /\ out.name \notin FileNames(manifest)
  BY <1>1 DEF Kept, Covered, OutputIsNew, InFlight
<1>4. Visible(manifest, objects)' = Visible(manifest, objects)
  <2>1. \A s \in manifest : objects'[s.name] = objects[s.name]
    BY <1>1, <1>3, ManifestBeside, PutBeside
  <2> QED
    BY <1>1, <2>1, SameView
<1>5. Numbered' /\ Covered' /\ OutputIsNew'
  BY <1>1, <1>2 DEF Kept, Numbered, Covered, OutputIsNew, InFlight, IdsCovered, NamesCovered,
                    FileNames, histVars
<1>6. MasksUsed'
  BY <1>1, <1>2 DEF Kept, MasksUsed, InFlight, Masked, histVars
<1>7. CutoverShows'
  <2>1. PICK batch \in Bodies : Shows(batch)
    BY <1>1 DEF Kept, CutoverShows, InFlight
  <2>2. AfterPut' = AfterPut
    BY <1>1, <1>2 DEF AfterPut, Put
  <2>3. Visible(out.man, AfterPut)' = Visible(out.man, AfterPut)
    BY <1>2, <2>2 DEF Visible, Contents, Masked
  <2>4. Shows(batch)'
    BY <1>2, <1>4, <2>1, <2>3 DEF Shows
  <2> QED
    BY <2>4 DEF CutoverShows
<1>8. AckedShown'
  BY <1>1, <1>2, <1>4 DEF Kept, AckedShown, AckedIsFindable, Findable, histVars
<1>9. ReaderHolds'
  <2>1. \A n \in published \intersect DOMAIN objects' : n \in DOMAIN objects /\ objects'[n] = objects[n]
    BY <1>1, <1>3 DEF Put
  <2> QED
    BY <1>1, <2>1, ReaderUnmoved DEF Kept, histVars
<1> QED
  BY <1>5, <1>6, <1>7, <1>8, <1>9 DEF Kept

\* The cutover: what was visible stays so unless deleted, and the batch joins it.
LEMMA CutoverView ==
    ASSUME Inv, Kept, PutManifest
    PROVE  \E batch \in Bodies :
             /\ Visible(manifest, objects)'
                  = {p \in Visible(manifest, objects) : p[1] \notin out.dels} \union batch
             /\ \A p \in batch : p[1] \in out.ids
             /\ \A p, q \in batch : p[1] = q[1] => p = q
             /\ out.docs \subseteq Keyless \union {p[2] : p \in batch}
<1>1. out.step = "manifest" /\ InFlight /\ manifest' = out.man /\ objects' = objects
  BY DEF PutManifest, Cutover, InFlight
<1>2. PICK batch \in Bodies : Shows(batch)
  BY <1>1 DEF Kept, CutoverShows
<1>3. \A s \in out.man : AfterPut[s.name] = objects[s.name]
  <2>1. out.name \in DOMAIN objects /\ objects[out.name] = out.body
    BY <1>1 DEF Inv, Structure, OutputInFlight
  <2>2. PICK e \in out.man : e.name = out.name /\ out.man \ {e} \subseteq manifest
    BY <1>1 DEF Inv, Structure, OutputInFlight
  <2>3. \A s \in out.man : s.name \in DOMAIN objects
    BY <2>1, <2>2 DEF Inv, Structure, ManifestResolves, FileNames
  <2> QED
    BY <2>1, <2>3 DEF AfterPut, Put
<1>4. Visible(out.man, AfterPut) = Visible(out.man, objects)
  BY <1>3, VisibleDepends
<1>5. Visible(manifest, objects)' = Visible(out.man, objects)
  BY <1>1 DEF Visible, Contents, Masked
<1> QED
  BY <1>2, <1>4, <1>5 DEF Shows

\* The cutover publishes what was on its way, and withdraws what was deleted.
LEMMA KeptPutManifest == Inv /\ Inv' /\ Kept /\ PutManifest => Kept'
<1> SUFFICES ASSUME Inv, Inv', Kept, PutManifest PROVE Kept'
  OBVIOUS
<1>1. /\ out.step = "manifest" /\ InFlight /\ manifest' = out.man /\ out.man = specs
      /\ UNCHANGED <<specs, nextId, mem, memBase, pending, objects, up, acked, rd>>
      /\ used' = used \union out.ids
      /\ withdrawn' = withdrawn \union
           {p[2] : p \in {q \in Visible(manifest, objects) : q[1] \in out.dels}}
      /\ published' = published \union FileNames(out.man)
  BY DEF PutManifest, Cutover, InFlight, writerVars, Inv, Structure, WriterInStep
<1>2. /\ out'.step \in {"ack", "delete"} /\ out'.ids = out.ids /\ out'.dels = out.dels
      /\ out'.docs = out.docs
  BY InvTypes DEF PutManifest, AfterCutover, Outputs
<1>3. up
  BY <1>1 DEF Inv, Structure, WriterInStep, NoOutput
<1>4. Numbered'
  BY <1>1, <1>2 DEF Kept, Numbered
<1>5. Covered'
  <2>1. IdsCovered(used \union out.ids, out.man)
    BY <1>1, <1>3 DEF Kept, Covered, OutputIsNew, IdsCovered
  <2>2. ASSUME NEW n \in published', n[1] # "b"
        PROVE  \E s \in out.man : s.name[1] = n[1] /\ n[2] <= s.name[2]
    <3>1. CASE n \in published
      BY <1>1, <1>3, <2>2, <3>1 DEF Kept, Covered, NamesCovered
    <3>2. CASE n \in FileNames(out.man)
      <4>1. PICK s \in out.man : s.name = n
        BY <3>2 DEF FileNames
      <4>2. n[2] \in Nat
        BY <1>1, <4>1, InvTypes DEF SplitSpecs, Names
      <4> QED
        BY <4>1, <4>2
    <3> QED
      BY <1>1, <3>1, <3>2
  <2> QED
    BY <1>1, <2>1, <2>2 DEF Covered, IdsCovered, NamesCovered, FileNames
<1>6. OutputIsNew' /\ CutoverShows'
  BY <1>2 DEF OutputIsNew, CutoverShows, InFlight
<1>7. MasksUsed'
  <2>1. Masked(manifest)' = Masked(manifest) \union out.dels
    BY <1>1 DEF Masked, Kept, MasksUsed
  <2> QED
    BY <1>1, <1>2, <2>1 DEF Kept, MasksUsed, InFlight
<1>8. AckedShown'
  <2>1. PICK batch \in Bodies :
          /\ Visible(manifest, objects)'
               = {p \in Visible(manifest, objects) : p[1] \notin out.dels} \union batch
          /\ out.docs \subseteq Keyless \union {p[2] : p \in batch}
    BY CutoverView
  <2>2. Findable' = Keyless \union withdrawn' \union {p[2] : p \in Visible(manifest, objects)'}
    BY DEF Findable
  <2>3. Findable \subseteq Findable'
    BY <1>1, <2>1, <2>2 DEF Findable
  <2>4. out.docs \subseteq Findable'
    BY <2>1, <2>2
  <2>5. acked \subseteq Findable
    BY DEF Kept, AckedShown, AckedIsFindable, Findable
  <2> QED
    BY <1>1, <1>2, <2>3, <2>4, <2>5 DEF AckedShown, AckedIsFindable, Findable
<1>9. ReaderHolds'
  BY <1>1, ReaderUnmoved DEF Kept
<1> QED
  BY <1>4, <1>5, <1>6, <1>7, <1>8, <1>9 DEF Kept

\* What is acked was shown by the cutover that the ack follows.
LEMMA KeptAck == Inv /\ Kept /\ Ack => Kept'
<1> SUFFICES ASSUME Inv, Kept, Ack PROVE Kept'
  OBVIOUS
<1>1. /\ UNCHANGED <<specs, nextId, mem, memBase, pending, objects, manifest, up, rd, histVars>>
      /\ out.step = "ack" /\ acked' = acked \union out.docs /\ out' = NoOutput
  BY DEF Ack, writerVars
<1>2. Numbered' /\ Covered' /\ OutputIsNew' /\ CutoverShows'
  BY <1>1 DEF Kept, Numbered, Covered, OutputIsNew, CutoverShows, InFlight, NoOutput, IdsCovered,
              NamesCovered, FileNames, histVars
<1>3. MasksUsed'
  BY <1>1, QuietStep DEF Kept, MasksUsed, InFlight, NoOutput
<1>4. AckedShown'
  BY <1>1, QuietStep DEF Kept, AckedShown, AckedIsFindable, Findable, NoOutput
<1>5. ReaderHolds'
  BY <1>1, QuietReader DEF Kept
<1> QED
  BY <1>2, <1>3, <1>4, <1>5 DEF Kept

\* A superseded file is in no manifest that is published now.
LEMMA KeptDeleteOld == Inv /\ Kept /\ (\E n \in out.removed : DeleteOld(n)) => Kept'
<1> SUFFICES ASSUME Inv, Kept, NEW n \in out.removed, DeleteOld(n) PROVE Kept'
  OBVIOUS
<1>1. /\ UNCHANGED <<specs, nextId, mem, memBase, pending, manifest, up, acked, rd, histVars>>
      /\ out.step = "delete" /\ objects' = Remove(objects, n)
  BY DEF DeleteOld, writerVars
<1>2. /\ out'.step \in {"none", "delete"}
      /\ out'.ids \in {out.ids, {}} /\ out'.dels \in {out.dels, {}}
  BY <1>1, InvTypes DEF DeleteOld, Outputs, NoOutput
<1>3. Visible(manifest, objects)' = Visible(manifest, objects)
  <2>1. n \notin FileNames(manifest)
    BY <1>1 DEF Inv, Structure, OutputInFlight
  <2>2. \A s \in manifest : objects'[s.name] = objects[s.name]
    BY <1>1, <2>1 DEF Remove, FileNames, Inv, Structure, ManifestResolves
  <2> QED
    BY <1>1, <2>2, SameView
<1>4. Numbered' /\ Covered' /\ OutputIsNew' /\ CutoverShows'
  BY <1>1, <1>2 DEF Kept, Numbered, Covered, OutputIsNew, CutoverShows, InFlight, IdsCovered,
                    NamesCovered, FileNames, histVars
<1>5. MasksUsed'
  BY <1>1, <1>2 DEF Kept, MasksUsed, InFlight, Masked, histVars
<1>6. AckedShown'
  BY <1>1, <1>2, <1>3 DEF Kept, AckedShown, AckedIsFindable, Findable, histVars
<1>7. ReaderHolds'
  <2>1. \A m \in published \intersect DOMAIN objects' : m \in DOMAIN objects /\ objects'[m] = objects[m]
    BY <1>1 DEF Remove
  <2> QED
    BY <1>1, <2>1, ReaderUnmoved DEF Kept, histVars
<1> QED
  BY <1>4, <1>5, <1>6, <1>7 DEF Kept

\* A reader collects the splits of the manifest it opened, as they were then.
LEMMA KeptReader == Inv /\ Kept /\ (ReaderOpen \/ \E s \in rd.todo : ReaderRead(s)) => Kept'
<1>1. ASSUME Kept, UNCHANGED <<writerVars, clientVars, histVars>>, ReaderHolds' PROVE Kept'
  <2>1. /\ UNCHANGED <<objects, manifest, up, out, acked, histVars, specs, nextId, mem, memBase, pending>>
    BY <1>1 DEF clientVars, writerVars
  <2>2. Numbered' /\ Covered' /\ OutputIsNew'
    BY <1>1, <2>1 DEF Kept, Numbered, Covered, OutputIsNew, InFlight, IdsCovered,
                      NamesCovered, FileNames, histVars
  <2>3. MasksUsed'
    BY <1>1, <2>1, QuietStep DEF Kept, MasksUsed, InFlight, Masked
  <2>4. CutoverShows'
    BY <1>1, <2>1 DEF Kept, CutoverShows, Shows, AfterPut, InFlight, Visible, Contents
  <2>5. AckedShown'
    BY <1>1, <2>1, QuietStep DEF Kept, AckedShown, AckedIsFindable, Findable
  <2> QED
    BY <1>1, <2>2, <2>3, <2>4, <2>5 DEF Kept
<1>2. ASSUME Inv, Kept, ReaderOpen PROVE ReaderHolds'
  <2>1. /\ rd' = [st |-> "reading", man |-> manifest, todo |-> manifest, got |-> {},
                  snap |-> Visible(manifest, objects)]
        /\ UNCHANGED <<manifest, objects, published>>
    BY <1>2 DEF ReaderOpen, clientVars, histVars
  <2>2. \A s \in manifest : s.name \in published
    BY <1>2 DEF Kept, Covered, FileNames
  <2>3. {} = UNION {Contents(s, objects[s.name]) : s \in manifest \ manifest}
    OBVIOUS
  <2> DEFINE f == objects
  <2>4. /\ \A s \in rd'.man : /\ s.name \in published'
                              /\ s.name \in DOMAIN objects' => objects'[s.name] = f[s.name]
        /\ rd'.snap = Visible(rd'.man, f)
        /\ rd'.todo \subseteq rd'.man
        /\ rd'.got = UNION {Contents(s, f[s.name]) : s \in rd'.man \ rd'.todo}
        /\ rd'.st = "done" => rd'.todo = {}
    BY <2>1, <2>2, <2>3
  <2> QED
    BY <2>4 DEF ReaderHolds, Visible, Contents, Masked, GlobalId
<1>3. ASSUME Inv, Kept, NEW s \in rd.todo, ReaderRead(s) PROVE ReaderHolds'
  <2>1. rd \in Readings /\ rd.st = "reading" /\ UNCHANGED <<objects, published>>
    BY <1>3 DEF Inv, Typed, TypeOK, ReaderRead, clientVars, histVars
  <2>2. CASE s.name \notin DOMAIN objects
    BY <1>3, <2>1, <2>2 DEF ReaderRead, ReaderHolds, Readings
  <2>3. CASE s.name \in DOMAIN objects
    <3>1. PICK f : /\ \A t \in rd.man : /\ t.name \in published
                                        /\ t.name \in DOMAIN objects => objects[t.name] = f[t.name]
                   /\ rd.snap = Visible(rd.man, f)
                   /\ rd.todo \subseteq rd.man
                   /\ rd.got = UNION {Contents(t, f[t.name]) : t \in rd.man \ rd.todo}
      BY <1>3, <2>1 DEF Kept, ReaderHolds
    <3>2. /\ rd'.man = rd.man /\ rd'.todo = rd.todo \ {s} /\ rd'.snap = rd.snap
          /\ rd'.got = rd.got \union Contents(s, objects[s.name])
          /\ rd'.st = IF rd.todo = {s} THEN "done" ELSE "reading"
      BY <1>3, <2>1, <2>3 DEF ReaderRead, Readings
    <3>3. Contents(s, objects[s.name]) = Contents(s, f[s.name])
      BY <2>3, <3>1
    <3>4. rd.man \ (rd.todo \ {s}) = (rd.man \ rd.todo) \union {s}
      BY <3>1
    <3>5. rd'.got = UNION {Contents(t, f[t.name]) : t \in rd'.man \ rd'.todo}
      <4> DEFINE c(t) == Contents(t, f[t.name])
      <4>1. rd'.got = (UNION {c(t) : t \in rd.man \ rd.todo}) \union c(s)
        BY <3>1, <3>2, <3>3
      <4> HIDE DEF c
      <4>2. rd'.got = UNION {c(t) : t \in rd'.man \ rd'.todo}
        BY <3>2, <3>4, <4>1
      <4> QED
        BY <4>2 DEF c
    <3>6. /\ \A t \in rd'.man : /\ t.name \in published'
                                /\ t.name \in DOMAIN objects' => objects'[t.name] = f[t.name]
          /\ rd'.snap = Visible(rd'.man, f)
          /\ rd'.todo \subseteq rd'.man
          /\ rd'.st = "done" => rd'.todo = {}
      BY <2>1, <3>1, <3>2
    <3> QED
      BY <3>5, <3>6 DEF ReaderHolds, Visible, Contents, Masked, GlobalId
  <2> QED
    BY <2>2, <2>3
<1> QED
  BY <1>1, <1>2, <1>3 DEF ReaderOpen, ReaderRead

\* Every step keeps what is kept, if the client spares its newest delta.
LEMMA KeptStep == SpareNewest /\ Inv /\ Inv' /\ Kept /\ [Next]_vars => Kept'
<1> SUFFICES ASSUME SpareNewest, Inv, Inv', Kept, [Next]_vars PROVE Kept'
  OBVIOUS
<1>1. CASE Start \/ Crash
  BY <1>1, KeptStart, KeptCrash
<1>2. CASE \/ \E d \in Docs : PollAdd(d)
           \/ \E g \in used : PollDelete(g)
  BY <1>2, KeptPoll
<1>3. CASE ClientFlush
  BY <1>3, KeptClientFlush
<1>4. CASE \E inputs \in SUBSET specs : ClientCompact(inputs)
  BY <1>4, KeptClientCompact
<1>5. CASE PutSplit
  BY <1>5, KeptPutSplit
<1>6. CASE PutManifest
  BY <1>6, KeptPutManifest
<1>7. CASE Ack
  BY <1>7, KeptAck
<1>8. CASE \E n \in out.removed : DeleteOld(n)
  BY <1>8, KeptDeleteOld
<1>9. CASE ReaderOpen \/ \E s \in rd.todo : ReaderRead(s)
  BY <1>9, KeptReader
<1>10. CASE UNCHANGED vars
  <2>1. UNCHANGED <<objects, manifest, up, out, acked, histVars, rd, specs, nextId, mem, memBase, pending>>
    BY <1>10 DEF vars, clientVars, writerVars
  <2>2. Numbered' /\ Covered' /\ OutputIsNew'
    BY <2>1 DEF Kept, Numbered, Covered, OutputIsNew, InFlight, IdsCovered,
                NamesCovered, FileNames, histVars
  <2>3. MasksUsed'
    BY <2>1, QuietStep DEF Kept, MasksUsed, InFlight, Masked
  <2>4. CutoverShows'
    BY <2>1 DEF Kept, CutoverShows, Shows, AfterPut, InFlight, Visible, Contents
  <2>5. AckedShown'
    BY <2>1, QuietStep DEF Kept, AckedShown, AckedIsFindable, Findable
  <2>6. ReaderHolds'
    BY <2>1, QuietReader DEF Kept
  <2> QED
    BY <2>2, <2>3, <2>4, <2>5, <2>6 DEF Kept
<1> QED
  BY <1>1, <1>2, <1>3, <1>4, <1>5, <1>6, <1>7, <1>8, <1>9, <1>10 DEF Next

\* A client that never compacts its newest delta keeps ids, names and views
\* apart, whatever crashes, compactions and deletions happen.
THEOREM SparedInvariance ==
    ASSUME SpareNewest
    PROVE  Spec => [](Inv /\ Kept)
<1>1. Init => Inv /\ Kept
  BY InvInit, KeptInit
<1>2. (Inv /\ Kept) /\ [Next]_vars => (Inv /\ Kept)'
  BY InvStep, KeptStep
<1> QED
  BY <1>1, <1>2, PTL DEF Spec

\* No acked document is lost: it can be found, or one of its ids was deleted.
THEOREM AckedIsFindableAlways ==
    ASSUME SpareNewest
    PROVE  Spec => []AckedIsFindable
<1>1. Inv /\ Kept => AckedIsFindable
  BY DEF Kept, AckedShown
<1> QED
  BY <1>1, SparedInvariance, PTL

\* A reader that finds all the files of the manifest it opened sees exactly what
\* was visible when it opened it.
THEOREM ReaderSeesSnapshotAlways ==
    ASSUME SpareNewest
    PROVE  Spec => []ReaderSeesSnapshot
<1>1. Kept => ReaderSeesSnapshot
  <2> SUFFICES ASSUME Kept, rd.st = "done"
               PROVE  {p \in rd.got : p[1] \notin Masked(rd.man)} = rd.snap
    BY DEF ReaderSeesSnapshot
  <2>1. PICK f : /\ rd.snap = Visible(rd.man, f)
                 /\ rd.got = UNION {Contents(s, f[s.name]) : s \in rd.man \ rd.todo}
                 /\ rd.todo = {}
    BY DEF Kept, ReaderHolds
  <2>2. rd.man \ rd.todo = rd.man
    BY <2>1
  <2> QED
    BY <2>1, <2>2 DEF Visible
<1> QED
  BY <1>1, SparedInvariance, PTL

\* No cutover publishes documents under ids that were published before.
THEOREM IdsNeverReissuedAlways ==
    ASSUME SpareNewest
    PROVE  Spec => IdsNeverReissued
<1>1. Inv /\ Kept /\ [Next]_vars =>
        [used' # used \/ manifest' # manifest => out.ids \intersect used = {}]_vars
  <2> SUFFICES ASSUME Kept, [Next]_vars, used' # used \/ manifest' # manifest
               PROVE  out.ids \intersect used = {}
    OBVIOUS
  <2>1. PutManifest
    BY DEF Next, vars, clientVars, histVars, Start, Crash, PollAdd, PollDelete, ClientFlush,
           ClientCompact, PutSplit, Ack, DeleteOld, ReaderOpen, ReaderRead
  <2> QED
    BY <2>1 DEF PutManifest, Kept, OutputIsNew, InFlight
<1> QED
  BY <1>1, SparedInvariance, PTL DEF Spec, IdsNeverReissued

\* No step rewrites a file that some published manifest named.
THEOREM PublishedFilesImmutableAlways ==
    ASSUME SpareNewest
    PROVE  Spec => PublishedFilesImmutable
<1>1. Inv /\ Kept /\ [Next]_vars =>
        [\A n \in published \intersect DOMAIN objects' :
            n \in DOMAIN objects => objects'[n] = objects[n]]_vars
  <2> SUFFICES ASSUME Kept, [Next]_vars,
                      NEW n \in published \intersect DOMAIN objects', n \in DOMAIN objects
               PROVE  objects'[n] = objects[n]
    OBVIOUS
  <2>1. CASE PutSplit
    BY <2>1 DEF PutSplit, Put, Kept, OutputIsNew, InFlight
  <2>2. CASE \E m \in out.removed : DeleteOld(m)
    BY <2>2 DEF DeleteOld, Remove
  <2>3. CASE UNCHANGED objects
    BY <2>3
  <2> QED
    BY <2>1, <2>2, <2>3
       DEF Next, vars, clientVars, Start, Crash, PollAdd, PollDelete, ClientFlush, ClientCompact,
           PutManifest, Ack, ReaderOpen, ReaderRead
<1> QED
  BY <1>1, SparedInvariance, PTL DEF Spec, PublishedFilesImmutable

\* At first the store holds the base.
LEMMA StoreInit == Init => Store!Init
<1> SUFFICES ASSUME Init PROVE Store!Init
  OBVIOUS
<1>1. Len(BaseDocs) \in Nat /\ DOMAIN BaseDocs = 1 .. Len(BaseDocs)
  BY BaseAssumption
<1>2. Masked(manifest) = {}
  BY DEF Init, BaseManifest, Masked
<1>3. \A s \in manifest : Contents(s, objects[s.name]) = BaseBody
  <2> SUFFICES ASSUME NEW s \in manifest PROVE Contents(s, objects[s.name]) = BaseBody
    OBVIOUS
  <2>1. objects[s.name] = BaseBody /\ s.lo = 0 /\ s.abs = FALSE
    BY DEF Init, BaseManifest, FileNames
  <2>2. ASSUME NEW e \in BaseBody PROVE <<GlobalId(s, e[1]), e[2]>> = e
    <3>1. PICK i \in DOMAIN BaseDocs : e = <<i - 1, BaseDocs[i]>>
      BY DEF BaseBody
    <3>2. i \in 1 .. Len(BaseDocs)
      BY <1>1
    <3>3. 0 + (i - 1) = i - 1
      BY <1>1, <3>2
    <3> QED
      BY <2>1, <3>1, <3>3 DEF GlobalId
  <2> QED
    BY <2>1, <2>2 DEF Contents
<1>4. manifest = {} => BaseBody = {}
  <2>1. manifest = {} => BaseDocs = <<>>
    BY DEF Init, BaseManifest
  <2>2. BaseDocs = <<>> => DOMAIN BaseDocs = {}
    OBVIOUS
  <2> QED
    BY <2>1, <2>2 DEF BaseBody
<1>5. Visible(manifest, objects) = BaseBody
  <2>1. UNION {Contents(s, objects[s.name]) : s \in manifest} = BaseBody
    BY <1>3, <1>4
  <2> QED
    BY <1>2, <2>1 DEF Visible
<1> QED
  BY <1>5 DEF Store!Init, Init

\* A cutover is one Publish of the store; every other step goes unnoticed.
LEMMA StoreStep == Inv /\ Inv' /\ Kept /\ [Next]_vars => [Store!Next]_(Store!storeVars)
<1> SUFFICES ASSUME Inv, Inv', Kept, [Next]_vars PROVE [Store!Next]_(Store!storeVars)
  OBVIOUS
<1> DEFINE live == Visible(manifest, objects)
<1>1. CASE PutManifest
  <2>1. /\ used' = used \union out.ids /\ deleted' = deleted \union out.dels
        /\ manifest' = out.man /\ InFlight
    BY <1>1 DEF PutManifest, Cutover, InFlight
  <2>2. PICK batch \in Bodies :
          /\ live' = {p \in live : p[1] \notin out.dels} \union batch
          /\ \A p \in batch : p[1] \in out.ids
          /\ \A p, q \in batch : p[1] = q[1] => p = q
    BY <1>1, CutoverView
  <2>3. out.ids \intersect used = {} /\ out.dels \subseteq used /\ Masked(manifest) \subseteq used
    BY <2>1 DEF Kept, OutputIsNew, MasksUsed
  <2>4. deleted \subseteq Masked(manifest)
    BY DEF Inv, Structure, DeletedStaysDeleted
  <2>5. \A p \in live : p[1] \notin deleted
    BY <2>4 DEF Visible
  <2> HIDE DEF live
  <2>6. live' \ live \subseteq batch
    BY <2>2
  <2>7. Store!Ids(live' \ live) \subseteq used' \ used
    BY <2>1, <2>2, <2>3, <2>6 DEF Store!Ids
  <2>8. \A p, q \in live' \ live : p[1] = q[1] => p = q
    BY <2>2, <2>6
  <2>9. deleted' \ deleted \subseteq used \union (used' \ used)
    BY <2>1, <2>3
  <2>10. /\ used' = used \union (used' \ used)
         /\ deleted' = deleted \union (deleted' \ deleted)
    BY <2>1
  <2>11. live' = {p \in live \union (live' \ live) : p[1] \notin deleted'}
    BY <2>1, <2>2, <2>3, <2>4, <2>5
  <2>12. Store!Publish(live' \ live, used' \ used, deleted' \ deleted)
    BY <2>7, <2>8, <2>9, <2>10, <2>11 DEF Store!Publish, live
  <2> QED
    BY <2>12 DEF Store!Next, live
<1>2. CASE ~PutManifest
  <2>1. UNCHANGED <<manifest, used, deleted>>
    BY <1>2 DEF Next, vars, clientVars, histVars, Start, Crash, PollAdd, PollDelete, ClientFlush,
           ClientCompact, PutSplit, Ack, DeleteOld, ReaderOpen, ReaderRead
  <2>2. \A s \in manifest : objects'[s.name] = objects[s.name]
    BY <2>1, LiveFilesStep DEF FileNames, Inv, Structure, ManifestResolves
  <2>3. live' = live
    BY <2>1, <2>2, SameView
  <2> QED
    BY <2>1, <2>3 DEF Store!storeVars
<1> QED
  BY <1>1, <1>2

\* The split set implements the document store of DocStore.
THEOREM ImplementsDocStoreAlways ==
    ASSUME SpareNewest
    PROVE  Spec => ImplementsDocStore
<1>1. Init => Store!Init
  BY StoreInit
<1>2. (Inv /\ Kept) /\ (Inv /\ Kept)' /\ [Next]_vars => [Store!Next]_(Store!storeVars)
  BY StoreStep
<1> QED
  BY <1>1, <1>2, SparedInvariance, PTL DEF Spec, ImplementsDocStore, Store!Spec
==============================================================================
