---------------------------- MODULE SearchCursor -----------------------------
(****************************************************************************)
(* The pagination cursor of the RRS reader, rust/src/index.rs (Cursor), and *)
(* the SecondaryCursor of rust/src/secondary.rs that maps its pages through *)
(* a permutation.                                                           *)
(*                                                                          *)
(* A cursor holds the head of the answer in memory and appends the tail as  *)
(* pages ask for it, a few bucket windows per call.  Each window, the       *)
(* opening of the scan, the whole-tail load and the mapping of a page are   *)
(* awaits: there a fetch may fail, or the caller may drop the future.  The  *)
(* caller then simply calls again.                                          *)
(****************************************************************************)
EXTENDS QueryEval, Sequences, SequencesExt

CONSTANTS
    Queries,         \* the queries a cursor may be opened for
    WindowsPerCall,  \* TAIL_WINDOWS_PER_CALL
    PageSizes,       \* the page sizes callers ask for
    Everything,      \* usize::MAX: a bound above every result count
    Perm,            \* the permutation column: secondary rank -> primary id
    MaxFaults,       \* bound: failed or dropped awaits
    Faulty           \* the phases whose awaits may fail

ASSUME CursorAssumption ==
    /\ WindowsPerCall \in Nat \ {0} /\ PageSizes \subseteq Nat
    /\ Everything \in Nat /\ MaxFaults \in Nat
    /\ Faulty \subseteq {"opening", "scanning", "loading", "mapping"}

\* The queries have finitely many keys and postings, and the column of a mapped
\* query has a row for every rank.
ASSUME QueriesAssumption ==
    \A q \in Queries :
        /\ IsQuery(q)
        /\ q.mapped => \A t \in q.keys : \A d \in q.post[t] : Perm[d] \in Nat

VARIABLES
    query,     \* the query, and with it recs, min_match and the filter, and
               \* whether a SecondaryCursor wraps the cursor (query.mapped)
    results,   \* Cursor.results
    pos,       \* Cursor.pos
    tailDone,  \* Cursor.tail_done
    scan,      \* Cursor.tail_scan: whether it is held, and its keys left
    tried,     \* Cursor.tail_scan_tried
    phase,     \* where the call in progress is; "idle" between calls
    call,      \* the call in progress
    outbox,    \* the page a SecondaryCursor is mapping
    delivered, \* history: everything `next` has returned, in order
    faults     \* how many awaits have failed

cursorVars == <<query, results, pos, tailDone, scan, tried>>
vars == <<cursorVars, phase, call, outbox, delivered, faults>>

NoScan == [held |-> FALSE, keys |-> {}]
NoCall == [kind |-> "none", want |-> 0, windows |-> 0, start |-> 0]

TypeOK ==
    /\ query \in Queries
    /\ results \in Seq(Nat)
    /\ pos \in 0 .. Len(results)
    /\ tailDone \in BOOLEAN /\ tried \in BOOLEAN
    /\ scan.held \in BOOLEAN /\ scan.keys \subseteq Nat \ {0}
    /\ phase \in {"idle", "opening", "scanning", "loading", "replying", "mapping"}
    /\ call.kind \in {"none", "next", "page", "load"} /\ call.want \in Nat
    /\ call.windows \in 0 .. WindowsPerCall /\ call.start \in Nat
    /\ outbox \in Seq(Nat) /\ delivered \in Seq(Nat)
    /\ faults \in 0 .. MaxFaults

\* search_cursor_filtered.
Init ==
    /\ query \in Queries
    /\ results = IF Unmatchable(query) THEN <<>> ELSE Sorted(HeadDocs(query))
    /\ tailDone = Unmatchable(query)
    /\ tried = Unmatchable(query)
    /\ pos = 0
    /\ scan = NoScan
    /\ phase = "idle" /\ call = NoCall /\ outbox = <<>>
    /\ delivered = <<>> /\ faults = 0

PendingTail == ~tailDone

\* ensure: its early return, then the incremental path for a strict AND (which
\* opens the scan once) or the whole-tail load.
EnsurePhase(want) ==
    IF tailDone \/ want <= Len(results) THEN "replying"
    ELSE IF Strict(query) /\ ~tried THEN "opening"
    ELSE IF Strict(query) /\ scan.held THEN "scanning"
    ELSE "loading"

Begin(kind, want) ==
    /\ phase = "idle"
    /\ call' = [kind |-> kind, want |-> want, windows |-> WindowsPerCall,
                start |-> Len(results)]
    /\ phase' = EnsurePhase(want)
    /\ UNCHANGED <<cursorVars, outbox, delivered, faults>>

Next(n) == Begin("next", pos + n)
Page(offset, n) == Begin("page", offset + n)
LoadTail == PendingTail /\ Begin("load", Everything)

------------------------------------------------------------------------------
\* TailScan::open succeeds: a scan, or None when a posting is not seekable.
OpenScan ==
    /\ phase = "opening"
    /\ tried' = TRUE
    /\ scan' = IF query.seekable THEN [held |-> TRUE, keys |-> CandidateKeys(query)]
               ELSE NoScan
    /\ phase' = IF query.seekable THEN "scanning" ELSE "loading"
    /\ UNCHANGED <<query, results, pos, tailDone, call, outbox, delivered, faults>>

\* The loop condition of ensure, with its first-paint break.
Scanning ==
    /\ phase = "scanning"
    /\ Len(results) < call.want /\ scan.keys # {} /\ call.windows > 0
    /\ ~(Len(results) > call.start /\ call.windows + 2 <= WindowsPerCall)

\* What the next window may hold, one for each posting that may seed it, and
\* what the whole tail may hold.  (They agree: which posting seeds is a matter
\* of bytes.)
Windows == {WindowDocs(query, seed, NextKeys(scan.keys)) : seed \in Recs(query)}
Tails == {WholeTail(query, seed) : seed \in Recs(query)}

\* Mutant: an empty window does not advance the scan.
StuckScanWindow ==
    /\ Scanning
    /\ \E win \in Windows :
         /\ results' = results \o Sorted(win)
         /\ scan' = [scan EXCEPT !.keys = IF win = {} THEN @ ELSE @ \ NextKeys(@)]
    /\ call' = [call EXCEPT !.windows = @ - 1]
    /\ UNCHANGED <<query, pos, tailDone, tried, phase, outbox, delivered, faults>>

\* next_window succeeds.
ScanWindow ==
    /\ Scanning
    /\ \E win \in Windows : results' = results \o Sorted(win)
    /\ scan' = [scan EXCEPT !.keys = @ \ NextKeys(@)]
    /\ call' = [call EXCEPT !.windows = @ - 1]
    /\ UNCHANGED <<query, pos, tailDone, tried, phase, outbox, delivered, faults>>

\* Mutant: a spent window budget counts as the end of the tail.
EagerScanStop ==
    /\ phase = "scanning" /\ ~Scanning
    /\ tailDone' = (scan.keys = {} \/ call.windows = 0)
    /\ phase' = "replying"
    /\ UNCHANGED <<query, results, pos, scan, tried, call, outbox, delivered, faults>>

\* The loop ends; the scan is put back for the next call.
ScanStop ==
    /\ phase = "scanning" /\ ~Scanning
    /\ tailDone' = (scan.keys = {})
    /\ phase' = "replying"
    /\ UNCHANGED <<query, results, pos, scan, tried, call, outbox, delivered, faults>>

\* The whole-tail load.
LoadWhole ==
    /\ phase = "loading"
    /\ \E tail \in Tails : results' = results \o Sorted(tail)
    /\ tailDone' = TRUE
    /\ phase' = "replying"
    /\ UNCHANGED <<query, pos, scan, tried, call, outbox, delivered, faults>>

------------------------------------------------------------------------------
Reached == Min({call.want, Len(results)})

\* Mutant: `next` moves past what it returned.
OverrunReplyNext ==
    /\ phase = "replying" /\ call.kind = "next"
    /\ pos' = call.want
    /\ outbox' = IF query.mapped THEN SubSeq(results, pos + 1, Reached) ELSE <<>>
    /\ delivered' = IF query.mapped THEN delivered
                    ELSE delivered \o SubSeq(results, pos + 1, Reached)
    /\ phase' = IF query.mapped THEN "mapping" ELSE "idle"
    /\ call' = IF query.mapped THEN call ELSE NoCall
    /\ UNCHANGED <<query, results, tailDone, scan, tried, faults>>

\* `next` returns its page and moves the position; a SecondaryCursor still has
\* to map the page.
ReplyNext ==
    /\ phase = "replying" /\ call.kind = "next"
    /\ pos' = Reached
    /\ outbox' = IF query.mapped THEN SubSeq(results, pos + 1, Reached) ELSE <<>>
    /\ delivered' = IF query.mapped THEN delivered
                    ELSE delivered \o SubSeq(results, pos + 1, Reached)
    /\ phase' = IF query.mapped THEN "mapping" ELSE "idle"
    /\ call' = IF query.mapped THEN call ELSE NoCall
    /\ UNCHANGED <<query, results, tailDone, scan, tried, faults>>

\* `page` changes nothing more; `load_tail` loops until the tail is loaded.
ReplyPage ==
    /\ phase = "replying" /\ call.kind = "page"
    /\ phase' = "idle" /\ call' = NoCall
    /\ UNCHANGED <<cursorVars, outbox, delivered, faults>>

ReplyLoad ==
    /\ phase = "replying" /\ call.kind = "load"
    /\ phase' = IF PendingTail THEN EnsurePhase(call.want) ELSE "idle"
    /\ call' = IF PendingTail
               THEN [call EXCEPT !.windows = WindowsPerCall, !.start = Len(results)]
               ELSE NoCall
    /\ UNCHANGED <<cursorVars, outbox, delivered, faults>>

\* values_u32: the column's value at each rank of the page, in page order.
Primary(ranks) == [i \in DOMAIN ranks |-> Perm[ranks[i]]]

\* SecondaryCursor::next: the page is mapped to primary ids.
MapPage ==
    /\ phase = "mapping"
    /\ delivered' = delivered \o Primary(outbox)
    /\ outbox' = <<>>
    /\ phase' = "idle" /\ call' = NoCall
    /\ UNCHANGED <<cursorVars, faults>>

\* An await fails or its future is dropped.  The scan of a window was taken
\* out of the cursor (tail_scan.take()) and goes with it.
Fault ==
    /\ phase \in Faulty
    /\ phase = "scanning" => Scanning
    /\ faults < MaxFaults
    /\ faults' = faults + 1
    /\ scan' = IF phase = "scanning" THEN NoScan ELSE scan
    /\ outbox' = <<>>
    /\ phase' = "idle" /\ call' = NoCall
    /\ UNCHANGED <<query, results, pos, tailDone, tried, delivered>>

Step == \/ OpenScan \/ ScanWindow \/ ScanStop \/ LoadWhole
        \/ ReplyNext \/ ReplyPage \/ ReplyLoad \/ MapPage

NextStep ==
    \/ \E n \in PageSizes : Next(n)
    \/ \E n \in PageSizes, offset \in {0, Len(results)} : Page(offset, n)
    \/ LoadTail
    \/ OpenScan \/ ScanWindow \/ ScanStop \/ LoadWhole
    \/ ReplyNext \/ ReplyPage \/ ReplyLoad \/ MapPage
    \/ Fault

Spec == Init /\ [][NextStep]_vars

\* A call runs to its end: the executor polls it and every read settles.
LiveSpec == Spec /\ WF_vars(Step)

------------------------------------------------------------------------------
\* The answer to a query, in ascending (rank) order.
Answer == Sorted(Matching(query))

\* The scan was taken by a window that failed.
ScanLost == ~Unmatchable(query) /\ Strict(query) /\ query.seekable /\ tried /\ ~scan.held

\* What is materialised is always the answer's beginning, in order and without
\* repetition, whichever calls, windows and failed awaits filled it (unless a
\* window itself failed, see AppendsInOrder).
PrefixOfAnswer == ~ScanLost => IsPrefix(results, Answer)

\* Successive `next` calls deliver the answer from its beginning, each document
\* once, with page and load_tail calls and failed calls between them; a
\* SecondaryCursor delivers the same documents under their primary ids.
NextDeliversInOrder ==
    ~ScanLost => IsPrefix(delivered, IF query.mapped THEN Primary(Answer) ELSE Answer)

\* Failed windows included, the cursor never shows a document that does not
\* match, and has every one that does when it says its tail is done.
NothingForeignNothingLost ==
    /\ ToSet(results) \subseteq ToSet(Answer)
    /\ tailDone => ToSet(Answer) \subseteq ToSet(results)

\* What the code says of every append: it "preserves global ascending
\* (popularity) order" (index.rs:1064), and a call "continues the scan from
\* where it stopped" (index.rs:1186), failed windows or not.
AppendsInOrder == IsPrefix(results, Answer)

\* Every call returns; load_tail's loop in particular ("every iteration
\* advances the scan, so this terminates", index.rs:1215).
EveryCallReturns == phase # "idle" ~> phase = "idle"
==============================================================================
