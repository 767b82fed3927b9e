----------------------------- MODULE SplitIngest -----------------------------
(****************************************************************************)
(* A split set being written and read: the pure writer of SplitWriter, the  *)
(* client loop around it, the object store, the document source, and a      *)
(* reader with a manifest it opened earlier.                                *)
(*                                                                          *)
(* The client loop is the one of rust/src/splitset_write.rs:10-19 and       *)
(* rust/examples/splitset_ingest.rs: poll the source and add; flush; PUT    *)
(* the split; PUT the manifest (the cutover); ack the source; and, after a  *)
(* compaction, delete the superseded files once the cutover is done.  The   *)
(* source redelivers whatever was not acked.  The process may crash between *)
(* any two of those steps and resumes from the manifest in the store.       *)
(****************************************************************************)
EXTENDS SplitWriter

CONSTANTS
    BaseDocs,     \* the documents of the base split, in id order
    MaxCrashes,   \* bound: crashes of the ingesting process
    MaxCompacts,  \* bound: compactions
    MaxDeletes,   \* bound: ids deleted
    SpareNewest,  \* the client never compacts its newest delta
    OnlyAdjacent, \* the client only compacts deltas whose id ranges touch
    WithReader    \* whether a reader runs beside the writer

ASSUME BaseAssumption == BaseDocs \in Seq(Docs)
ASSUME BoundsAssumption ==
    /\ MaxCrashes \in Nat /\ MaxCompacts \in Nat /\ MaxDeletes \in Nat
    /\ SpareNewest \in BOOLEAN /\ OnlyAdjacent \in BOOLEAN
    /\ WithReader \in BOOLEAN

VARIABLES
    objects,      \* the split files in the object store, by name
    manifest,     \* the manifest in the object store
    up,           \* whether the writer process runs
    out,          \* the writer output the client is publishing
    acked,        \* the documents the source has been told to forget
    rd,           \* the reader
    crashes, compacts,     \* how many happened
    used,         \* history: the ids of every published document
    deleted,      \* history: the ids deleted by a cutover
    withdrawn,    \* history: the documents those ids belonged to
    published     \* history: the file names of every manifest ever PUT

clientVars == <<objects, manifest, up, out, acked>>
histVars == <<used, deleted, withdrawn, published>>
vars == <<writerVars, clientVars, rd, crashes, compacts, histVars>>

NoOutput == [step |-> "none", name |-> <<"b", 0>>, body |-> {}, man |-> {},
             docs |-> {}, ids |-> {}, dels |-> {}, removed |-> {}]

Outputs == [step: {"none", "split", "manifest", "ack", "delete"}, name: Names,
            body: Bodies, man: SUBSET SplitSpecs, docs: SUBSET Docs,
            ids: SUBSET Nat, dels: SUBSET Nat, removed: SUBSET Names]

NoRead == [st |-> "idle", man |-> {}, todo |-> {}, got |-> {}, snap |-> {}]

Readings == [st: {"idle", "reading", "done", "missing"}, man: SUBSET SplitSpecs,
             todo: SUBSET SplitSpecs, got: Bodies, snap: Bodies]

TypeOK ==
    /\ WriterTypeOK
    /\ DOMAIN objects \subseteq Names
    /\ \A n \in DOMAIN objects : objects[n] \in Bodies
    /\ manifest \subseteq SplitSpecs
    /\ up \in BOOLEAN
    /\ out \in Outputs
    /\ acked \subseteq Docs
    /\ rd \in Readings
    /\ crashes \in Nat /\ compacts \in Nat
    /\ used \subseteq Nat /\ deleted \subseteq Nat
    /\ withdrawn \subseteq Docs
    /\ published \subseteq Names

------------------------------------------------------------------------------
FileNames(man) == {s.name : s \in man}

\* Object store PUT and DELETE of whole files.
Put(objs, name, body) ==
    [n \in DOMAIN objs \union {name} |-> IF n = name THEN body ELSE objs[n]]
Remove(objs, name) == [n \in DOMAIN objs \ {name} |-> objs[n]]

\* The base was built elsewhere: one split with ids 0 .. n-1, or none.
BaseName == <<"b", 0>>
BaseManifest ==
    IF BaseDocs = <<>> THEN {}
    ELSE {[name |-> BaseName, base |-> TRUE, lo |-> 0, hi |-> Len(BaseDocs) - 1,
           count |-> Len(BaseDocs), epoch |-> 0, abs |-> FALSE, tomb |-> {}]}
BaseBody ==
    {<<i - 1, BaseDocs[i]>> : i \in {j \in DOMAIN BaseDocs : BaseDocs[j] \notin Keyless}}
BaseIds == {i - 1 : i \in DOMAIN BaseDocs}

Down ==
    /\ specs' = {} /\ nextId' = 0 /\ nextEpoch' = 0 /\ flushSeq' = 0
    /\ compactSeq' = 0 /\ mem' = <<>> /\ memBase' = 0 /\ pending' = {}

Init ==
    /\ specs = {} /\ nextId = 0 /\ nextEpoch = 0 /\ flushSeq = 0
    /\ compactSeq = 0 /\ mem = <<>> /\ memBase = 0 /\ pending = {}
    /\ manifest = BaseManifest
    /\ objects = [n \in FileNames(BaseManifest) |-> BaseBody]
    /\ up = FALSE
    /\ out = NoOutput
    /\ acked = Range(BaseDocs)
    /\ rd = NoRead
    /\ crashes = 0 /\ compacts = 0
    /\ used = BaseIds
    /\ deleted = {}
    /\ withdrawn = {}
    /\ published = FileNames(BaseManifest)

Ready == up /\ out.step = "none"

------------------------------------------------------------------------------
\* The process starts and resumes from the manifest it finds in the store.
Start ==
    /\ ~up
    /\ Resume(manifest)
    /\ up' = TRUE
    /\ UNCHANGED <<objects, manifest, out, acked, rd, crashes, compacts, histVars>>

\* The process dies with everything it held in memory.
Crash ==
    /\ up
    /\ crashes < MaxCrashes
    /\ crashes' = crashes + 1
    /\ Down
    /\ up' = FALSE
    /\ out' = NoOutput
    /\ UNCHANGED <<objects, manifest, acked, rd, compacts, histVars>>

\* Mutant: the source is acked on receipt.
AckedPollAdd(d) ==
    /\ Ready
    /\ d \notin acked \union Range(mem)
    /\ AddKeys(d)
    /\ acked' = acked \union {d}
    /\ UNCHANGED <<objects, manifest, up, out, rd, crashes, compacts, histVars>>

\* The source delivers a document that is not acked and not in hand.
PollAdd(d) ==
    /\ Ready
    /\ d \notin acked \union Range(mem)
    /\ AddKeys(d)
    /\ UNCHANGED <<clientVars, rd, crashes, compacts, histVars>>

\* The source delivers the deletion of a published id.
PollDelete(g) ==
    /\ Ready
    /\ Cardinality(deleted \union pending) < MaxDeletes
    /\ g \notin pending
    /\ Delete(g)
    /\ UNCHANGED <<clientVars, rd, crashes, compacts, histVars>>

\* A flush trigger fires: the client holds the split and the new manifest.
ClientFlush ==
    /\ Ready
    /\ Flush
    /\ out' = [step |-> "split", name |-> FlushSpec.name, body |-> FlushBody,
               man |-> specs', docs |-> Range(mem),
               ids |-> memBase .. (memBase + Len(mem) - 1), dels |-> pending,
               removed |-> {}]
    /\ UNCHANGED <<objects, manifest, up, acked, rd, crashes, compacts, histVars>>

\* The two compaction disciplines a client may keep (the code asks for neither).
Spares(inputs) ==
    \A s \in inputs :
        /\ s.name[1] = "d" =>
             \E t \in specs \ inputs : t.name[1] = "d" /\ t.name[2] > s.name[2]
        /\ s.count > 0 => \E t \in specs \ inputs : t.count > 0 /\ t.hi > s.hi
Adjacent(inputs) ==
    \A t \in {u \in specs \ inputs : u.count > 0} :
        \/ \A s \in {u \in inputs : u.count > 0} : t.hi < s.lo
        \/ \A s \in {u \in inputs : u.count > 0} : t.lo > s.hi

\* The client fetches delta files from the store and compacts them.
ClientCompact(inputs) ==
    /\ Ready
    /\ compacts < MaxCompacts
    /\ FileNames(inputs) \subseteq DOMAIN objects
    /\ SpareNewest => Spares(inputs)
    /\ OnlyAdjacent => Adjacent(inputs)
    /\ Compact(inputs, objects)
    /\ out' = [step |-> "split", name |-> CompactSpec(inputs, objects).name,
               body |-> Merged(inputs, objects), man |-> specs', docs |-> {},
               ids |-> {}, dels |-> {}, removed |-> FileNames(inputs)]
    /\ compacts' = compacts + 1
    /\ UNCHANGED <<objects, manifest, up, acked, rd, crashes, histVars>>

------------------------------------------------------------------------------
\* The cutover is over: ack the source after a flush, delete the superseded
\* files after a compaction.
AfterCutover == IF out.removed = {} THEN "ack" ELSE "delete"

Cutover ==
    /\ manifest' = out.man
    /\ used' = used \union out.ids
    /\ deleted' = deleted \union out.dels
    /\ withdrawn' = withdrawn \union
         {p[2] : p \in {q \in Visible(manifest, objects) : q[1] \in out.dels}}
    /\ published' = published \union FileNames(out.man)

\* Mutant: the manifest is PUT first and the split it names second.
ManifestFirstPutSplit ==
    /\ out.step = "split"
    /\ Cutover
    /\ out' = [out EXCEPT !.step = "manifest"]
    /\ UNCHANGED <<writerVars, objects, up, acked, rd, crashes, compacts>>

\* PUT the split.
PutSplit ==
    /\ out.step = "split"
    /\ objects' = Put(objects, out.name, out.body)
    /\ out' = [out EXCEPT !.step = "manifest"]
    /\ UNCHANGED <<writerVars, manifest, up, acked, rd, crashes, compacts, histVars>>

\* PUT the manifest: the atomic cutover.
PutManifest ==
    /\ out.step = "manifest"
    /\ Cutover
    /\ out' = [out EXCEPT !.step = AfterCutover]
    /\ UNCHANGED <<writerVars, objects, up, acked, rd, crashes, compacts>>

\* Ack the documents of the flush.
Ack ==
    /\ out.step = "ack"
    /\ acked' = acked \union out.docs
    /\ out' = NoOutput
    /\ UNCHANGED <<writerVars, objects, manifest, up, rd, crashes, compacts, histVars>>

\* Delete one superseded file.
DeleteOld(n) ==
    /\ out.step = "delete"
    /\ n \in out.removed
    /\ objects' = Remove(objects, n)
    /\ out' = IF out.removed = {n} THEN NoOutput
              ELSE [out EXCEPT !.removed = @ \ {n}]
    /\ UNCHANGED <<writerVars, manifest, up, acked, rd, crashes, compacts, histVars>>

------------------------------------------------------------------------------
\* A reader opens the manifest, and remembers what was visible (history).
ReaderOpen ==
    /\ WithReader
    /\ rd.st = "idle"
    /\ manifest # {}
    /\ rd' = [st |-> "reading", man |-> manifest, todo |-> manifest, got |-> {},
              snap |-> Visible(manifest, objects)]
    /\ UNCHANGED <<writerVars, clientVars, crashes, compacts, histVars>>

\* It reads the splits of that manifest in any order; a file that is gone is an
\* error the caller sees.
ReaderRead(s) ==
    /\ rd.st = "reading"
    /\ rd' = IF s.name \notin DOMAIN objects THEN [rd EXCEPT !.st = "missing"]
             ELSE [rd EXCEPT !.todo = @ \ {s},
                             !.got = @ \union Contents(s, objects[s.name]),
                             !.st = IF rd.todo = {s} THEN "done" ELSE "reading"]
    /\ UNCHANGED <<writerVars, clientVars, crashes, compacts, histVars>>

Next ==
    \/ Start \/ Crash
    \/ \E d \in Docs : PollAdd(d)
    \/ \E g \in used : PollDelete(g)
    \/ ClientFlush
    \/ \E inputs \in SUBSET specs : ClientCompact(inputs)
    \/ PutSplit \/ PutManifest \/ Ack
    \/ \E n \in out.removed : DeleteOld(n)
    \/ ReaderOpen
    \/ \E s \in rd.todo : ReaderRead(s)

Spec == Init /\ [][Next]_vars

\* The client loop keeps running: it restarts after a crash, polls, flushes and
\* finishes what it began.  Nothing makes it compact, delete or crash.
Fairness ==
    /\ WF_vars(Start) /\ WF_vars(ClientFlush)
    /\ WF_vars(PutSplit) /\ WF_vars(PutManifest) /\ WF_vars(Ack)
    /\ WF_vars(\E n \in out.removed : DeleteOld(n))
    /\ \A d \in Docs : WF_vars(PollAdd(d))

LiveSpec == Spec /\ Fairness

------------------------------------------------------------------------------
\* No manifest, in the store, in the writer or on its way there, has two splits
\* under one name: resume continues the name sequences (splitset_write.rs:226).
NamesUnique ==
    \A man \in {manifest, specs, out.man} :
        \A s, t \in man : s.name = t.name => s = t

\* Whatever crashes, every split the stored manifest names is in the store: the
\* manifest PUT is the last write of a cutover and old files go after it.
ManifestResolves == FileNames(manifest) \subseteq DOMAIN objects

\* A file the stored manifest refers to is neither overwritten nor deleted
\* ("a resumed writer must never re-emit a live delta's filename").
LiveFilesIntact ==
    [][\A n \in FileNames(manifest) \intersect FileNames(manifest') :
          n \in DOMAIN objects' /\ (n \in DOMAIN objects => objects'[n] = objects[n])]_vars

\* An id deleted by a cutover stays masked: compaction keeps its inputs'
\* tombstones, so a base document cannot come back.
DeletedStaysDeleted == deleted \subseteq Masked(manifest)

\* Every posting of a split lies in the id range its manifest entry claims, so
\* Split::contains and to_local find it again.
RangesHoldPostings ==
    \A s \in {t \in manifest : t.name \in DOMAIN objects} :
        \A p \in Contents(s, objects[s.name]) :
            s.count > 0 /\ s.lo <= p[1] /\ p[1] <= s.hi

\* An acked document with keys can be found, unless one of its ids was deleted:
\* a crash may publish it twice (the source redelivers) but never lose it.
AckedIsFindable ==
    acked \subseteq Keyless \union withdrawn
                       \union {p[2] : p \in Visible(manifest, objects)}

\* A reader that finds all its files sees exactly what was visible when it
\* opened the manifest, however far the writer went since.
ReaderSeesSnapshot ==
    rd.st = "done" => {p \in rd.got : p[1] \notin Masked(rd.man)} = rd.snap

\* A cutover publishes its documents under ids no published document ever had:
\* "returning its monotonic global doc id" (splitset_write.rs:281), "continues
\* the global id space past the highest id" (splitset_write.rs:188).
IdsNeverReissued ==
    [][used' # used \/ manifest' # manifest => out.ids \intersect used = {}]_vars

\* A split file that some published manifest named never changes: "immutable".
PublishedFilesImmutable ==
    [][\A n \in published \intersect DOMAIN objects' :
          n \in DOMAIN objects => objects'[n] = objects[n]]_vars

\* No two splits of the manifest claim the same id: "the splits' disjoint
\* global id ranges" (splitset.rs:1024).
DisjointRanges ==
    \A s, t \in {u \in manifest : u.count > 0} :
        s # t => s.hi < t.lo \/ t.hi < s.lo

\* Every document the source delivers is eventually acked, however the bounded
\* number of crashes falls.
EveryDocAcked == \A d \in Docs : <>(d \in acked)

\* The split set implements the document store it promises to be.
Store == INSTANCE DocStore WITH
            InitialPairs <- BaseBody,
            InitialIds <- BaseIds,
            live <- Visible(manifest, objects)
ImplementsDocStore == Store!Spec
==============================================================================
