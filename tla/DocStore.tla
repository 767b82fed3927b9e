------------------------------ MODULE DocStore -------------------------------
(****************************************************************************)
(* What a split set promises to whoever reads it, with no splits in sight:  *)
(* a store of documents under numeric ids.  A cutover publishes a batch of  *)
(* documents under ids nobody has seen and withdraws deleted ids, all at    *)
(* once; nothing else a writer, a client, a crash or a compaction does can  *)
(* be noticed.  rust/src/splitset_write.rs:5-29 states these promises.      *)
(****************************************************************************)
CONSTANTS
    InitialPairs, \* the <<id, document>> pairs of the base
    InitialIds    \* its ids, those of documents nobody can search included

VARIABLES
    live,         \* the <<id, document>> pairs a search can return
    used,         \* every id that was ever published
    deleted       \* the published ids that were deleted

storeVars == <<live, used, deleted>>

Ids(pairs) == {p[1] : p \in pairs}

Init ==
    /\ live = InitialPairs
    /\ used = InitialIds
    /\ deleted = {}

\* `batch` appears under fresh ids, one document to an id (a document may take
\* an id and not be searchable); `dels` disappear for good.
Publish(batch, fresh, dels) ==
    /\ Ids(batch) \subseteq fresh
    /\ \A p, q \in batch : p[1] = q[1] => p = q
    /\ fresh \intersect used = {}
    /\ dels \subseteq used \union fresh
    /\ used' = used \union fresh
    /\ deleted' = deleted \union dels
    /\ live' = {p \in live \union batch : p[1] \notin deleted'}

Next == Publish(live' \ live, used' \ used, deleted' \ deleted)

Spec == Init /\ [][Next]_storeVars
==============================================================================
