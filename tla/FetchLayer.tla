------------------------------ MODULE FetchLayer ------------------------------
(****************************************************************************)
(* The fetch layer of the browser reader, rust/src/wasm.rs: WasmFetch::read *)
(* serves a range from the shared cache, joins a read of the same range     *)
(* already in flight, or starts a network read behind the fetch window.     *)
(*                                                                          *)
(* A flight is the inner future of one Shared handle; it is a read of the   *)
(* gate.  It is polled only by the callers that hold a handle, and dropped  *)
(* with the last of them: the singleflight table holds weak references.     *)
(* Every borrow of the cache and of the table ends before the next await,   *)
(* so each poll is one atomic step.                                         *)
(****************************************************************************)
EXTENDS FetchGate, RangeCache

CONSTANTS
    Callers,      \* the concurrent callers of WasmFetch::read
    NoRead,       \* no flight
    SweepAt       \* table size at which dead entries are swept (1024)

ASSUME NoReadAssumption == NoRead \notin Reads
ASSUME SweepAssumption == SweepAt \in Nat

VARIABLES
    at,           \* caller -> the flight whose handle it awaits
    key,          \* flight -> the range it fetches
    outcome,      \* flight -> what its completed Shared future yields
    table         \* IN_FLIGHT: range -> weak reference to a flight

layerVars == <<at, key, outcome, table>>
vars == <<gateVars, cacheVars, layerVars>>

Outcomes == {"none", "ok", "failed"}

LayerTypeOK ==
    /\ at \in [Callers -> Reads \union {NoRead}]
    /\ key \in [Reads -> Keys \union {NoRead}]
    /\ outcome \in [Reads -> Outcomes]
    /\ table \in [DOMAIN table -> Reads] /\ DOMAIN table \subseteq Keys

TypeOK == GateTypeOK /\ CacheTypeOK /\ LayerTypeOK

Init ==
    /\ GateInit /\ CacheInit
    /\ at = [c \in Callers |-> NoRead]
    /\ key = [f \in Reads |-> NoRead]
    /\ outcome = [f \in Reads |-> "none"]
    /\ table = << >>

\* WeakShared::upgrade: some caller still holds a handle of the flight.
Alive(f) == \E c \in Callers : at[c] = f

Idle(c) == at[c] = NoRead

\* Polling a Shared handle polls its flight: the gate if it has no permit yet.
PollFlight(f) == Poll(f) \/ (~Pollable(f) /\ UNCHANGED gateVars)

\* read: the range cache answers.
ReadCached(c, k) ==
    /\ Idle(c)
    /\ Get(k)
    /\ UNCHANGED <<gateVars, layerVars>>

\* Mutant: a miss never looks for a read in flight.
NeverInFlight(k) == FALSE

\* The singleflight lookup: the table entry of k, if it is still alive.
InFlight(k) == k \in DOMAIN table /\ Alive(table[k])

\* read: a miss that joins the identical read in flight.
ReadJoin(c, k) ==
    /\ Idle(c) /\ Misses(k) /\ InFlight(k)
    /\ at' = [at EXCEPT ![c] = table[k]]
    /\ PollFlight(table[k])
    /\ UNCHANGED <<cacheVars, key, outcome, table>>

\* Mutant: dead table entries are never swept.
Unswept == table

\* The table before an insert: past SweepAt entries the dead ones are removed.
Swept ==
    IF Cardinality(DOMAIN table) >= SweepAt
    THEN Restrict(table, {k \in DOMAIN table : Alive(table[k])})
    ELSE table

\* The next flight: acquire's ids are all alike, so which one it is is no choice.
Fresh == CHOOSE f \in Reads : pc[f] = "new"

\* read: a miss that starts a flight, replacing a dead table entry, and polls
\* it at once.
ReadStart(c, k, f) ==
    /\ Idle(c) /\ Misses(k) /\ ~InFlight(k)
    /\ pc[f] = "new" /\ f = Fresh
    /\ at' = [at EXCEPT ![c] = f]
    /\ key' = [key EXCEPT ![f] = k]
    /\ table' = Set(Swept, k, f)
    /\ Poll(f)
    /\ UNCHANGED <<cacheVars, outcome>>

\* A flight woken by the gate is polled again through one of its handles.
Repoll(f) ==
    /\ Alive(f) /\ pc[f] = "woken"
    /\ Poll(f)
    /\ UNCHANGED <<cacheVars, layerVars>>

\* Mutant: an error releases everything but never completes the Shared future.
SilentFail(f) ==
    /\ pc[f] = "holding" /\ Alive(f)
    /\ DropPermit(f)
    /\ table' = Drop(table, {key[f]})
    /\ UNCHANGED <<cacheVars, at, key, outcome>>

\* network_read ends in an error (transport, status, wrong length): the permit
\* is dropped and the table entry of the range removed in the same poll.
Fail(f) ==
    /\ pc[f] = "holding" /\ Alive(f)
    /\ DropPermit(f)
    /\ outcome' = [outcome EXCEPT ![f] = "failed"]
    /\ table' = Drop(table, {key[f]})
    /\ UNCHANGED <<cacheVars, at, key>>

\* network_read ends well: the payload is cached, the permit dropped and the
\* table entry removed, in the same poll.
Succeed(f) ==
    /\ pc[f] = "holding" /\ Alive(f)
    /\ Insert(key[f])
    /\ DropPermit(f)
    /\ outcome' = [outcome EXCEPT ![f] = "ok"]
    /\ table' = Drop(table, {key[f]})
    /\ UNCHANGED <<at, key>>

\* A caller is polled after its flight completed and returns its result.
Settle(c) ==
    /\ ~Idle(c) /\ outcome[at[c]] # "none"
    /\ at' = [at EXCEPT ![c] = NoRead]
    /\ UNCHANGED <<gateVars, cacheVars, key, outcome, table>>

\* Mutant: the table keeps flights alive after their callers have gone.
PinnedAbandon(c) ==
    /\ ~Idle(c)
    /\ at' = [at EXCEPT ![c] = NoRead]
    /\ UNCHANGED <<gateVars, cacheVars, key, outcome, table>>

\* A caller is dropped.  With the last handle of an unfinished flight goes the
\* flight: its queue entry or its permit; the table entry stays, dead.
Abandon(c) ==
    LET f == at[c]
        last_handle == \A d \in Callers \ {c} : at[d] # f
    IN /\ ~Idle(c)
       /\ at' = [at EXCEPT ![c] = NoRead]
       /\ IF last_handle /\ outcome[f] = "none"
          THEN DropAcquire(f) \/ DropPermit(f)
          ELSE UNCHANGED gateVars
       /\ UNCHANGED <<cacheVars, key, outcome, table>>

\* setFetchWindow
SetFetchWindow(l) == SetLimit(l) /\ UNCHANGED <<cacheVars, layerVars>>

\* setRangeCacheMb
SetRangeCache(b) == SetMaxBytes(b) /\ UNCHANGED <<gateVars, layerVars>>

Next ==
    \/ \E c \in Callers, k \in Keys :
          ReadCached(c, k) \/ ReadJoin(c, k) \/ (\E f \in Reads : ReadStart(c, k, f))
    \/ \E f \in Reads : Repoll(f) \/ Fail(f) \/ Succeed(f)
    \/ \E c \in Callers : Settle(c) \/ Abandon(c)
    \/ \E l \in Limits : SetFetchWindow(l)
    \/ \E b \in Budgets : SetRangeCache(b)

Spec == Init /\ [][Next]_vars

\* The executor polls every woken task, and the browser settles every fetch it
\* was given, one way or the other.  Nobody has to start or abandon a read.
Fairness ==
    /\ \A f \in Reads : WF_vars(Repoll(f)) /\ WF_vars(Fail(f) \/ Succeed(f))
    /\ \A c \in Callers : WF_vars(Settle(c))

LiveSpec == Spec /\ Fairness

------------------------------------------------------------------------------
Unfinished == {f \in Reads : pc[f] \in {"parked", "woken", "holding"}}

\* Identical concurrent misses share one network fetch: no two unfinished
\* flights read the same range (the comment of IN_FLIGHT).
OneFetchPerRange == \A f, g \in Unfinished : key[f] = key[g] => f = g

\* Every unfinished flight has a caller that polls it, so no permit and no
\* queue entry is trapped in a future nobody drives (the task-088 hang).
PermitsHaveReaders == \A f \in Unfinished : Alive(f)

\* A range in the cache is never on the network: the look-up in the cache, the
\* singleflight table and the fill at completion leave no gap between them.
NoFetchOfCached == \A f \in Unfinished : key[f] \notin Cached

\* The weak table is bounded by the sweep and the callers, however many reads
\* are abandoned.
TableBounded ==
    \/ Cardinality(DOMAIN table) <= SweepAt
    \/ Cardinality(DOMAIN table) <= Cardinality(Callers)

\* A caller that keeps waiting gets a result or an error, whatever the other
\* callers abandon and however the window and the cache are resized.
EveryReadReturns == \A c \in Callers : ~Idle(c) ~> Idle(c)
===============================================================================
