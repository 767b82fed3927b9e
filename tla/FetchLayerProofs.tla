--------------------------- MODULE FetchLayerProofs ---------------------------
(* Proofs about the fetch window for every finite set of reads and every    *)
(* set of window sizes, and about the browser's fetch layer for every       *)
(* number of callers, flights and ranges.  The layer is shown to drive the  *)
(* gate only by steps of the gate's own specification, so the gate's        *)
(* theorems hold of it; the singleflight invariant is then proved on top.   *)
EXTENDS FetchLayer, NatSetLemmas, FiniteSetTheorems, TLAPS

\* The types of the gate's variables are kept by every step of fetch_window.rs.
THEOREM GateTypeCorrect == GateSpec => []GateTypeOK
<1>1. GateInit => GateTypeOK
  BY LimitsAssumption DEF GateInit, GateTypeOK, States
<1>2. GateTypeOK /\ [GateNext]_gateVars => GateTypeOK'
  <2> SUFFICES ASSUME GateTypeOK, [GateNext]_gateVars PROVE GateTypeOK'
    OBVIOUS
  <2> USE DEF GateTypeOK, States
  <2>1. ASSUME NEW r \in Reads, PollAdmitted(r) PROVE GateTypeOK'
    BY <2>1 DEF PollAdmitted
  <2>2. ASSUME NEW r \in Reads, PollParked(r) PROVE GateTypeOK'
    BY <2>2 DEF PollParked
  <2>3. ASSUME NEW r \in Reads, DropAcquire(r) PROVE GateTypeOK'
    BY <2>3 DEF DropAcquire
  <2>4. ASSUME NEW r \in Reads, DropPermit(r) PROVE GateTypeOK'
    BY <2>4 DEF DropPermit, WakeAll
  <2>5. ASSUME NEW l \in Limits, SetLimit(l) PROVE GateTypeOK'
    BY <2>5, LimitsAssumption DEF SetLimit, WakeAll
  <2>6. CASE UNCHANGED gateVars
    BY <2>6 DEF gateVars
  <2> QED
    BY <2>1, <2>2, <2>3, <2>4, <2>5, <2>6 DEF GateNext
<1> QED
  BY <1>1, <1>2, PTL DEF GateSpec

\* The queue of the gate holds exactly the parked reads, for any number of
\* reads: Drop for Acquire and the admission poll leave no entry behind.
THEOREM QueueIsParkedAlways == GateSpec => []QueueIsParked
<1>1. GateInit => QueueIsParked
  BY DEF GateInit, QueueIsParked
<1>2. GateTypeOK /\ QueueIsParked /\ [GateNext]_gateVars => QueueIsParked'
  <2> SUFFICES ASSUME GateTypeOK, QueueIsParked, [GateNext]_gateVars PROVE QueueIsParked'
    OBVIOUS
  <2> USE DEF GateTypeOK, QueueIsParked, States
  <2>1. ASSUME NEW r \in Reads, PollAdmitted(r) PROVE QueueIsParked'
    BY <2>1 DEF PollAdmitted
  <2>2. ASSUME NEW r \in Reads, PollParked(r) PROVE QueueIsParked'
    BY <2>2 DEF PollParked
  <2>3. ASSUME NEW r \in Reads, DropAcquire(r) PROVE QueueIsParked'
    BY <2>3 DEF DropAcquire
  <2>4. ASSUME NEW r \in Reads, DropPermit(r) PROVE QueueIsParked'
    BY <2>4 DEF DropPermit, WakeAll
  <2>5. ASSUME NEW l \in Limits, SetLimit(l) PROVE QueueIsParked'
    BY <2>5 DEF SetLimit, WakeAll
  <2>6. CASE UNCHANGED gateVars
    BY <2>6 DEF gateVars
  <2> QED
    BY <2>1, <2>2, <2>3, <2>4, <2>5, <2>6 DEF GateNext
<1> QED
  BY <1>1, <1>2, GateTypeCorrect, PTL DEF GateSpec

\* No release, resize, admission or abandonment leaves a read parked while the
\* window has room: the hang described at the top of fetch_window.rs is
\* impossible whatever the number of reads and the sizes of the window.
THEOREM NoLostWakeupAlways == GateSpec => []NoLostWakeup
<1>1. GateInit => NoLostWakeup
  BY DEF GateInit, NoLostWakeup
<1>2. GateTypeOK /\ NoLostWakeup /\ [GateNext]_gateVars => NoLostWakeup'
  <2> SUFFICES ASSUME GateTypeOK, NoLostWakeup, [GateNext]_gateVars PROVE NoLostWakeup'
    OBVIOUS
  <2> USE DEF GateTypeOK, NoLostWakeup
  <2>1. ASSUME NEW r \in Reads, PollAdmitted(r) PROVE NoLostWakeup'
    BY <2>1 DEF PollAdmitted
  <2>2. ASSUME NEW r \in Reads, PollParked(r) PROVE NoLostWakeup'
    BY <2>2 DEF PollParked, Admits
  <2>3. ASSUME NEW r \in Reads, DropAcquire(r) PROVE NoLostWakeup'
    BY <2>3 DEF DropAcquire
  <2>4. ASSUME NEW r \in Reads, DropPermit(r) PROVE NoLostWakeup'
    BY <2>4 DEF DropPermit
  <2>5. ASSUME NEW l \in Limits, SetLimit(l) PROVE NoLostWakeup'
    BY <2>5 DEF SetLimit
  <2>6. CASE UNCHANGED gateVars
    BY <2>6 DEF gateVars
  <2> QED
    BY <2>1, <2>2, <2>3, <2>4, <2>5, <2>6 DEF GateNext
<1> QED
  BY <1>1, <1>2, GateTypeCorrect, PTL DEF GateSpec

\* `active` counts the live permits exactly, for any finite number of reads, so
\* the saturating subtraction in release never saturates.
THEOREM PermitAccountingAlways == GateSpec => []PermitAccounting
<1>1. GateInit => PermitAccounting
  <2> SUFFICES ASSUME GateInit PROVE PermitAccounting
    OBVIOUS
  <2>1. Holders = {}
    BY DEF GateInit, Holders
  <2> QED
    BY <2>1, FS_EmptySet DEF GateInit, PermitAccounting
<1>2. GateTypeOK /\ QueueIsParked /\ PermitAccounting /\ [GateNext]_gateVars => PermitAccounting'
  <2> SUFFICES ASSUME GateTypeOK, QueueIsParked, PermitAccounting, [GateNext]_gateVars
               PROVE PermitAccounting'
    OBVIOUS
  <2> USE DEF GateTypeOK
  <2>a. IsFiniteSet(Holders) /\ Cardinality(Holders) \in Nat
    <3>1. Holders \subseteq Reads
      BY DEF Holders
    <3> QED
      BY <3>1, ReadsAssumption, FS_Subset, FS_CardinalityType
  <2>b. ASSUME Holders' = Holders, active' = active PROVE PermitAccounting'
    BY <2>b DEF PermitAccounting
  <2>1. ASSUME NEW r \in Reads, PollAdmitted(r) PROVE PermitAccounting'
    <3>1. r \notin Holders /\ Holders' = Holders \union {r}
      BY <2>1 DEF PollAdmitted, Pollable, Holders, States
    <3>2. Cardinality(Holders') = Cardinality(Holders) + 1
      BY <2>a, <3>1, FS_AddElement
    <3> QED
      BY <2>1, <3>2 DEF PollAdmitted, PermitAccounting
  <2>2. ASSUME NEW r \in Reads, PollParked(r) PROVE PermitAccounting'
    <3>1. Holders' = Holders
      BY <2>2 DEF PollParked, Pollable, Holders, States
    <3> QED
      BY <2>2, <2>b, <3>1 DEF PollParked
  <2>3. ASSUME NEW r \in Reads, DropAcquire(r) PROVE PermitAccounting'
    <3>1. Holders' = Holders
      BY <2>3 DEF DropAcquire, Holders, States
    <3> QED
      BY <2>3, <2>b, <3>1 DEF DropAcquire
  <2>4. ASSUME NEW r \in Reads, DropPermit(r) PROVE PermitAccounting'
    <3>1. r \in Holders /\ Holders' = Holders \ {r}
      BY <2>4 DEF DropPermit, WakeAll, Holders, QueueIsParked, States
    <3>2. Cardinality(Holders') = Cardinality(Holders) - 1
      BY <2>a, <3>1, FS_RemoveElement
    <3>3. Cardinality(Holders) # 0
      BY <2>a, <3>1, FS_EmptySet
    <3> QED
      BY <2>4, <2>a, <3>2, <3>3 DEF DropPermit, PermitAccounting
  <2>5. ASSUME NEW l \in Limits, SetLimit(l) PROVE PermitAccounting'
    <3>1. Holders' = Holders
      BY <2>5 DEF SetLimit, WakeAll, Holders, QueueIsParked, States
    <3> QED
      BY <2>5, <2>b, <3>1 DEF SetLimit
  <2>6. CASE UNCHANGED gateVars
    BY <2>6 DEF gateVars, Holders, PermitAccounting
  <2> QED
    BY <2>1, <2>2, <2>3, <2>4, <2>5, <2>6 DEF GateNext
<1> QED
  BY <1>1, <1>2, GateTypeCorrect, QueueIsParkedAlways, PTL DEF GateSpec

------------------------------------------------------------------------------
(* The fetch layer.                                                           *)

\* The callers, flights, outcomes and the singleflight table of wasm.rs keep their
\* types.
LEMMA LayerTyped == Spec => []LayerTypeOK
<1>1. Init => LayerTypeOK
  BY DEF Init, LayerTypeOK, Outcomes
<1>2. LayerTypeOK /\ [Next]_vars => LayerTypeOK'
  <2> SUFFICES ASSUME LayerTypeOK, [Next]_vars PROVE LayerTypeOK'
    OBVIOUS
  <2> USE DEF LayerTypeOK
  <2>1. ASSUME NEW c \in Callers, NEW k \in Keys, ReadCached(c, k) PROVE LayerTypeOK'
    BY <2>1 DEF ReadCached, layerVars
  <2>2. ASSUME NEW c \in Callers, NEW k \in Keys, ReadJoin(c, k) PROVE LayerTypeOK'
    BY <2>2 DEF ReadJoin, InFlight
  <2>3. ASSUME NEW c \in Callers, NEW k \in Keys, NEW f \in Reads, ReadStart(c, k, f)
        PROVE LayerTypeOK'
    BY <2>3 DEF ReadStart, Set, Swept, Restrict
  <2>4. ASSUME NEW f \in Reads, Repoll(f) PROVE LayerTypeOK'
    BY <2>4 DEF Repoll, layerVars
  <2>5. ASSUME NEW f \in Reads, Fail(f) \/ Succeed(f) PROVE LayerTypeOK'
    BY <2>5 DEF Fail, Succeed, Drop, Restrict, Outcomes
  <2>6. ASSUME NEW c \in Callers, Settle(c) \/ Abandon(c) PROVE LayerTypeOK'
    BY <2>6 DEF Settle, Abandon
  <2>7. ASSUME NEW l \in Limits, SetFetchWindow(l) PROVE LayerTypeOK'
    BY <2>7 DEF SetFetchWindow, layerVars
  <2>8. ASSUME NEW b \in Budgets, SetRangeCache(b) PROVE LayerTypeOK'
    BY <2>8 DEF SetRangeCache, layerVars
  <2>9. CASE UNCHANGED vars
    BY <2>9 DEF vars, layerVars
  <2> QED
    BY <2>1, <2>2, <2>3, <2>4, <2>5, <2>6, <2>7, <2>8, <2>9 DEF Next
<1> QED
  BY <1>1, <1>2, PTL DEF Spec

\* The fetch layer implements the gate: whatever callers join, abandon and
\* complete, the gate only ever sees polls, drops and resizes.
THEOREM LayerImplementsGate == Spec => GateSpec
<1>1. Init => GateInit
  BY DEF Init
<1>2. LayerTypeOK /\ [Next]_vars => [GateNext]_gateVars
  <2> SUFFICES ASSUME LayerTypeOK, [Next]_vars PROVE [GateNext]_gateVars
    OBVIOUS
  <2> USE DEF GateNext, Poll
  <2>1. ASSUME NEW c \in Callers, NEW k \in Keys, ReadCached(c, k)
        PROVE [GateNext]_gateVars
    BY <2>1 DEF ReadCached
  <2>2. ASSUME NEW c \in Callers, NEW k \in Keys, ReadJoin(c, k)
        PROVE [GateNext]_gateVars
    BY <2>2 DEF ReadJoin, InFlight, PollFlight, LayerTypeOK
  <2>3. ASSUME NEW c \in Callers, NEW k \in Keys, NEW f \in Reads, ReadStart(c, k, f)
        PROVE [GateNext]_gateVars
    BY <2>3 DEF ReadStart
  <2>4. ASSUME NEW f \in Reads, Repoll(f) PROVE [GateNext]_gateVars
    BY <2>4 DEF Repoll
  <2>5. ASSUME NEW f \in Reads, Fail(f) \/ Succeed(f) PROVE [GateNext]_gateVars
    BY <2>5 DEF Fail, Succeed
  <2>6. ASSUME NEW c \in Callers, Settle(c) \/ Abandon(c) PROVE [GateNext]_gateVars
    BY <2>6 DEF Settle, Abandon, Idle, LayerTypeOK
  <2>7. ASSUME NEW l \in Limits, SetFetchWindow(l) PROVE [GateNext]_gateVars
    BY <2>7 DEF SetFetchWindow
  <2>8. ASSUME NEW b \in Budgets, SetRangeCache(b) PROVE [GateNext]_gateVars
    BY <2>8 DEF SetRangeCache
  <2>9. CASE UNCHANGED vars
    BY <2>9 DEF vars
  <2> QED
    BY <2>1, <2>2, <2>3, <2>4, <2>5, <2>6, <2>7, <2>8, <2>9 DEF Next
<1> QED
  BY <1>1, <1>2, LayerTyped, PTL DEF Spec, GateSpec

\* Permits are counted exactly by the whole layer, aborted reads included.
THEOREM LayerPermitAccounting == Spec => []PermitAccounting
BY LayerImplementsGate, PermitAccountingAlways, PTL

\* No read of the whole layer sleeps while the window has room.
THEOREM LayerNoLostWakeup == Spec => []NoLostWakeup
BY LayerImplementsGate, NoLostWakeupAlways, PTL

\* What is proved of the window of fetch_window.rs holds of the layer.
LEMMA LayerGateFacts == Spec => [](GateTypeOK /\ QueueIsParked)
BY LayerImplementsGate, GateTypeCorrect, QueueIsParkedAlways, PTL

------------------------------------------------------------------------------
(* What a step of the gate does to the flights that are under way.          *)

NewFlights == {f \in Reads : pc[f] = "new"}

\* A poll of Acquire moves its own read to holding or parked and no other.
LEMMA PollStep ==
    ASSUME GateTypeOK, NEW f \in Reads, Poll(f)
    PROVE  Unfinished' = Unfinished \union {f} /\ NewFlights' = NewFlights \ {f}
BY DEF GateTypeOK, States, Poll, PollAdmitted, PollParked, Unfinished, NewFlights

\* Dropping an Acquire or a FetchPermit finishes its read; the others can only
\* be woken.
LEMMA DropStep ==
    ASSUME GateTypeOK, QueueIsParked, NEW f \in Reads, DropAcquire(f) \/ DropPermit(f)
    PROVE  Unfinished' = Unfinished \ {f} /\ NewFlights' = NewFlights /\ f \in Unfinished
BY DEF GateTypeOK, QueueIsParked, States, DropAcquire, DropPermit, WakeAll,
       Unfinished, NewFlights

\* set_limit only wakes parked reads.
LEMMA ResizeStep ==
    ASSUME GateTypeOK, QueueIsParked, NEW l \in Limits, SetLimit(l)
    PROVE  Unfinished' = Unfinished /\ NewFlights' = NewFlights
BY DEF GateTypeOK, QueueIsParked, States, SetLimit, WakeAll, Unfinished, NewFlights

\* A step outside the window leaves every read where it was.
LEMMA GateStutter ==
    ASSUME UNCHANGED gateVars
    PROVE  Unfinished' = Unfinished /\ NewFlights' = NewFlights
BY DEF gateVars, Unfinished, NewFlights

(* What a step of the cache does to the set of cached ranges.               *)

\* insert of the range cache adds no key but its own.
LEMMA InsertStep ==
    ASSUME NEW k \in Keys, Insert(k)
    PROVE  Cached' \subseteq Cached \union {k}
BY DEF Insert, Evict, cacheVars, Cached, Drop, Set, Restrict

\* A cache hit changes no cached key.
LEMMA HitStep ==
    ASSUME NEW k \in Keys, Get(k)
    PROVE  Cached' = Cached
BY DEF Get, Cached

\* setRangeCacheMb adds no key to the cache.
LEMMA ResizeCacheStep ==
    ASSUME NEW b \in Budgets, SetMaxBytes(b)
    PROVE  Cached' \subseteq Cached
BY DEF SetMaxBytes, Evict, Cached, Drop, Restrict

------------------------------------------------------------------------------
(* The singleflight invariant: the table finds every unfinished flight under *)
(* its range, and callers wait for nothing but running or settled flights.   *)

TableFinds ==
    \A f \in Unfinished : key[f] \in DOMAIN table /\ table[key[f]] = f

EntriesAreStarted ==
    \A k \in DOMAIN table : /\ key[table[k]] = k
                            /\ outcome[table[k]] = "none"
                            /\ table[k] \notin NewFlights

OutcomesFit ==
    /\ \A f \in Unfinished \union NewFlights : outcome[f] = "none"
    /\ \A f \in NewFlights : ~Alive(f)
    /\ \A c \in Callers : ~Idle(c) => at[c] \in Unfinished \/ outcome[at[c]] # "none"

NoBudgetNoCache == maxBytes = 0 => Cached = {}

FlightInv ==
    /\ NoBudgetNoCache
    /\ TableFinds
    /\ EntriesAreStarted
    /\ OutcomesFit
    /\ PermitsHaveReaders
    /\ NoFetchOfCached

\* The invariant of the flights holds before the first read.
LEMMA FlightInvInit == Init => FlightInv
<1> SUFFICES ASSUME Init PROVE FlightInv
  OBVIOUS
<1>1. Unfinished = {} /\ \A f \in NewFlights : f \in Reads
  BY DEF Init, GateInit, Unfinished, NewFlights
<1>2. \A f \in Reads : ~Alive(f)
  BY NoReadAssumption DEF Init, Alive
<1>3. Cached = {}
  BY DEF Init, CacheInit, Cached
<1>4. DOMAIN table = {}
  BY DEF Init
<1> QED
  BY <1>1, <1>2, <1>3, <1>4 DEF Init, FlightInv, NoBudgetNoCache, TableFinds,
     EntriesAreStarted, OutcomesFit, PermitsHaveReaders, NoFetchOfCached, Idle, NewFlights

\* A step that starts, ends and abandons no flight keeps the invariant.
LEMMA Steady ==
    ASSUME FlightInv, UNCHANGED layerVars, Unfinished' = Unfinished,
           NewFlights' = NewFlights, Cached' \subseteq Cached, NoBudgetNoCache'
    PROVE  FlightInv'
BY DEF FlightInv, TableFinds, EntriesAreStarted, OutcomesFit, PermitsHaveReaders,
       NoFetchOfCached, Alive, Idle, layerVars

\* Joining the identical read in flight (wasm.rs:232) keeps the invariant.
LEMMA JoinKeeps ==
    ASSUME LayerTypeOK, GateTypeOK, FlightInv,
           NEW c \in Callers, NEW k \in Keys, ReadJoin(c, k)
    PROVE  FlightInv'
<1> DEFINE f == table[k]
<1>1. f \in Reads /\ f \in Unfinished
  <2>1. f \in Reads /\ outcome[f] = "none"
    BY DEF ReadJoin, InFlight, LayerTypeOK, FlightInv, EntriesAreStarted
  <2>2. PICK d \in Callers : at[d] = f
    BY DEF ReadJoin, InFlight, Alive
  <2>3. ~Idle(d)
    BY <2>1, <2>2, NoReadAssumption DEF Idle
  <2> QED
    BY <2>1, <2>2, <2>3 DEF FlightInv, OutcomesFit
<1>2. Unfinished' = Unfinished /\ NewFlights' = NewFlights
  <2>1. CASE Poll(f)
    BY <1>1, <2>1, PollStep DEF Unfinished, NewFlights
  <2>2. CASE UNCHANGED gateVars
    BY <2>2, GateStutter
  <2> QED
    BY <2>1, <2>2 DEF ReadJoin, PollFlight
<1>3. at' = [at EXCEPT ![c] = f] /\ at[c] = NoRead
  BY DEF ReadJoin, Idle
<1>4. \A g \in Reads : Alive(g)' <=> Alive(g) \/ g = f
  BY <1>3, <1>1, NoReadAssumption DEF Alive, LayerTypeOK
<1>5. Unfinished \subseteq Reads /\ NewFlights \subseteq Reads /\ f \notin NewFlights
  BY <1>1 DEF Unfinished, NewFlights
<1>6. Cached' = Cached /\ UNCHANGED <<maxBytes, key, outcome, table>>
  BY DEF ReadJoin, cacheVars, Cached
<1> QED
  BY <1>1, <1>2, <1>3, <1>4, <1>5, <1>6
  DEF FlightInv, NoBudgetNoCache, TableFinds, EntriesAreStarted, OutcomesFit, PermitsHaveReaders,
      NoFetchOfCached, Idle, LayerTypeOK

\* Starting a network read and registering it (wasm.rs:235-250) keeps it.
LEMMA StartKeeps ==
    ASSUME LayerTypeOK, GateTypeOK, FlightInv,
           NEW c \in Callers, NEW k \in Keys, NEW f \in Reads, ReadStart(c, k, f)
    PROVE  FlightInv'
<1>1. f \in NewFlights /\ Unfinished' = Unfinished \union {f}
      /\ NewFlights' = NewFlights \ {f} /\ f \notin Unfinished
  BY PollStep DEF ReadStart, NewFlights, Unfinished
<1>2. /\ at' = [at EXCEPT ![c] = f] /\ at[c] = NoRead
      /\ key' = [key EXCEPT ![f] = k]
      /\ outcome' = outcome /\ Cached' = Cached /\ maxBytes' = maxBytes
  BY DEF ReadStart, Idle, cacheVars, Cached
<1>3. k \notin Cached
  BY DEF ReadStart, Misses, FlightInv, NoBudgetNoCache
<1>4. \A g \in Reads : Alive(g)' <=> Alive(g) \/ g = f
  BY <1>2, NoReadAssumption DEF Alive, LayerTypeOK
<1>5. Unfinished \subseteq Reads /\ NewFlights \subseteq Reads
  BY DEF Unfinished, NewFlights
<1>6. \A g \in Unfinished : key[g] # k /\ key'[g] = key[g]
  BY <1>1, <1>2, <1>5 DEF ReadStart, InFlight, FlightInv, TableFinds, PermitsHaveReaders,
     LayerTypeOK
<1>7. /\ DOMAIN Swept \subseteq DOMAIN table
      /\ \A h \in DOMAIN Swept : Swept[h] = table[h]
      /\ \A g \in Unfinished : key[g] \in DOMAIN Swept
  <2>1. CASE Swept = table
    BY <2>1 DEF FlightInv, TableFinds
  <2>2. CASE Swept = [h \in {h \in DOMAIN table : Alive(table[h])} |-> table[h]]
    BY <2>2 DEF FlightInv, TableFinds, PermitsHaveReaders
  <2> QED
    BY <2>1, <2>2 DEF Swept, Restrict
<1>8. /\ DOMAIN table' = DOMAIN Swept \union {k}
      /\ \A h \in DOMAIN table' : table'[h] = IF h = k THEN f ELSE table[h]
  BY <1>7 DEF ReadStart, Set
<1>9. TableFinds'
  BY <1>1, <1>2, <1>6, <1>7, <1>8 DEF FlightInv, TableFinds, LayerTypeOK
<1>10. EntriesAreStarted'
  BY <1>1, <1>2, <1>7, <1>8 DEF FlightInv, EntriesAreStarted, OutcomesFit, LayerTypeOK
<1>11. OutcomesFit'
  BY <1>1, <1>2, <1>4, <1>5 DEF FlightInv, OutcomesFit, Idle, LayerTypeOK
<1>12. PermitsHaveReaders' /\ NoFetchOfCached' /\ NoBudgetNoCache'
  BY <1>1, <1>2, <1>3, <1>4, <1>5, <1>6
  DEF FlightInv, PermitsHaveReaders, NoFetchOfCached, NoBudgetNoCache, LayerTypeOK
<1> QED
  BY <1>9, <1>10, <1>11, <1>12 DEF FlightInv

\* The completing poll (wasm.rs:237-239), ok or failed, keeps it.
LEMMA EndKeeps ==
    ASSUME LayerTypeOK, GateTypeOK, QueueIsParked, FlightInv,
           NEW f \in Reads, Fail(f) \/ Succeed(f)
    PROVE  FlightInv'
<1>1. Unfinished' = Unfinished \ {f} /\ NewFlights' = NewFlights /\ f \in Unfinished
  BY DropStep DEF Fail, Succeed
<1>2. Unfinished \subseteq Reads /\ NewFlights \subseteq Reads /\ f \notin NewFlights
  BY <1>1 DEF Unfinished, NewFlights
<1>3. /\ UNCHANGED <<at, key>> /\ outcome'[f] # "none"
      /\ \A g \in Reads \ {f} : outcome'[g] = outcome[g]
      /\ table' = [h \in DOMAIN table \ {key[f]} |-> table[h]]
  BY DEF Fail, Succeed, LayerTypeOK, Drop, Restrict
<1>4. key[f] \in Keys
  BY <1>1 DEF FlightInv, TableFinds, LayerTypeOK
<1>5. Cached' \subseteq Cached \union {key[f]} /\ NoBudgetNoCache'
  <2>1. CASE Fail(f)
    BY <2>1 DEF Fail, cacheVars, Cached, FlightInv, NoBudgetNoCache
  <2>2. CASE Succeed(f)
    <3>1. Insert(key[f])
      BY <2>2 DEF Succeed
    <3>2. NoBudgetNoCache'
      BY <3>1 DEF Insert, FlightInv, NoBudgetNoCache, Cached, cacheVars
    <3> QED
      BY <1>4, <3>1, <3>2, InsertStep
  <2> QED
    BY <2>1, <2>2
<1>6. \A g \in Unfinished \ {f} : key[g] # key[f]
  BY <1>1 DEF FlightInv, TableFinds
<1>7. \A h \in DOMAIN table \ {key[f]} : table[h] # f /\ table[h] \in Reads
  BY DEF FlightInv, EntriesAreStarted, LayerTypeOK
<1>8. TableFinds'
  BY <1>1, <1>3, <1>6 DEF FlightInv, TableFinds
<1>9. EntriesAreStarted'
  BY <1>1, <1>3, <1>7 DEF FlightInv, EntriesAreStarted
<1>10. OutcomesFit'
  BY <1>1, <1>2, <1>3 DEF FlightInv, OutcomesFit, Idle, Alive, LayerTypeOK
<1>11. PermitsHaveReaders' /\ NoFetchOfCached'
  BY <1>1, <1>3, <1>5, <1>6 DEF FlightInv, PermitsHaveReaders, NoFetchOfCached, Alive
<1> QED
  BY <1>5, <1>8, <1>9, <1>10, <1>11 DEF FlightInv

\* A caller that settles or is dropped keeps it.
LEMMA LeaveKeeps ==
    ASSUME LayerTypeOK, GateTypeOK, QueueIsParked, FlightInv,
           NEW c \in Callers, Settle(c) \/ Abandon(c)
    PROVE  FlightInv'
<1>0. PICK f \in Reads \union {NoRead} : f = at[c]
  BY DEF LayerTypeOK
<1>1. f \in Reads /\ f # NoRead /\ at' = [at EXCEPT ![c] = NoRead]
      /\ UNCHANGED <<cacheVars, key, outcome, table>>
  BY <1>0, NoReadAssumption DEF Settle, Abandon, Idle, LayerTypeOK
<1>2. \A g \in Reads : Alive(g)' => Alive(g)
  BY <1>0, <1>1, NoReadAssumption DEF Alive, LayerTypeOK
<1>3. \A g \in Reads \ {f} : Alive(g) => Alive(g)'
  BY <1>0, <1>1 DEF Alive, LayerTypeOK
<1>4. /\ NewFlights' = NewFlights
      /\ \/ Unfinished' = Unfinished \ {f} /\ \A d \in Callers \ {c} : at[d] # f
         \/ Unfinished' = Unfinished /\ (f \in Unfinished => Alive(f)')
  <2>1. CASE outcome[f] # "none"
    <3>1. UNCHANGED gateVars
      BY <1>0, <2>1 DEF Settle, Abandon
    <3>2. f \notin Unfinished
      BY <2>1 DEF FlightInv, OutcomesFit
    <3> QED
      BY <3>1, <3>2, GateStutter
  <2>2. CASE Abandon(c) /\ outcome[f] = "none" /\ \A d \in Callers \ {c} : at[d] # f
    <3>1. DropAcquire(f) \/ DropPermit(f)
      BY <1>0, <2>2 DEF Abandon
    <3> QED
      BY <1>1, <2>2, <3>1, DropStep
  <2>3. CASE Abandon(c) /\ ~(\A d \in Callers \ {c} : at[d] # f)
    <3>1. UNCHANGED gateVars
      BY <1>0, <2>3 DEF Abandon
    <3>2. PICK d \in Callers \ {c} : at[d] = f
      BY <2>3
    <3>3. at'[d] = f
      BY <1>1, <3>2 DEF LayerTypeOK
    <3>4. Alive(f)'
      BY <3>3 DEF Alive
    <3> QED
      BY <3>1, <3>4, GateStutter
  <2> QED
    BY <1>0, <2>1, <2>2, <2>3 DEF Settle
<1>5. Cached' = Cached /\ maxBytes' = maxBytes
  BY <1>1 DEF cacheVars, Cached
<1>6. Unfinished \subseteq Reads /\ NewFlights \subseteq Reads
  BY DEF Unfinished, NewFlights
<1>7. TableFinds' /\ EntriesAreStarted'
  BY <1>1, <1>4 DEF FlightInv, TableFinds, EntriesAreStarted
<1>8. OutcomesFit'
  <2>1. \A g \in Unfinished' \union NewFlights' : outcome'[g] = "none"
    BY <1>1, <1>4 DEF FlightInv, OutcomesFit
  <2>2. \A g \in NewFlights' : ~Alive(g)'
    BY <1>2, <1>4, <1>6 DEF FlightInv, OutcomesFit
  <2>3. ASSUME NEW d \in Callers, ~Idle(d)'
        PROVE  at'[d] \in Unfinished' \/ outcome'[at'[d]] # "none"
    <3>1. d # c /\ at'[d] = at[d] /\ ~Idle(d)
      BY <1>1, <2>3 DEF Idle, LayerTypeOK
    <3> QED
      BY <1>1, <1>4, <3>1 DEF FlightInv, OutcomesFit
  <2> QED
    BY <2>1, <2>2, <2>3 DEF OutcomesFit
<1>9. PermitsHaveReaders' /\ NoFetchOfCached' /\ NoBudgetNoCache'
  BY <1>1, <1>3, <1>4, <1>5, <1>6
  DEF FlightInv, PermitsHaveReaders, NoFetchOfCached, NoBudgetNoCache
<1> QED
  BY <1>7, <1>8, <1>9 DEF FlightInv

\* Every unfinished flight is found through the singleflight table, has a caller
\* that drives it and fetches a range that is not cached: the facts that make
\* WasmFetch::read safe hold together in every reachable state.
THEOREM FlightInvariance == Spec => []FlightInv
<1>1. LayerTypeOK /\ GateTypeOK /\ QueueIsParked /\ FlightInv /\ [Next]_vars => FlightInv'
  <2> SUFFICES ASSUME LayerTypeOK, GateTypeOK, QueueIsParked, FlightInv, [Next]_vars
               PROVE  FlightInv'
    OBVIOUS
  <2>1. ASSUME NEW c \in Callers, NEW k \in Keys, ReadCached(c, k) PROVE FlightInv'
    <3>1. Unfinished' = Unfinished /\ NewFlights' = NewFlights /\ UNCHANGED layerVars
      BY <2>1, GateStutter DEF ReadCached
    <3>2. Cached' = Cached /\ maxBytes' = maxBytes
      BY <2>1, HitStep DEF ReadCached, Get
    <3> QED
      BY <3>1, <3>2, Steady DEF FlightInv, NoBudgetNoCache
  <2>2. ASSUME NEW c \in Callers, NEW k \in Keys, ReadJoin(c, k) PROVE FlightInv'
    BY <2>2, JoinKeeps
  <2>3. ASSUME NEW c \in Callers, NEW k \in Keys, NEW f \in Reads, ReadStart(c, k, f)
        PROVE FlightInv'
    BY <2>3, StartKeeps
  <2>4. ASSUME NEW f \in Reads, Repoll(f) PROVE FlightInv'
    <3>1. Unfinished' = Unfinished /\ NewFlights' = NewFlights
      BY <2>4, PollStep DEF Repoll, Unfinished, NewFlights
    <3>2. Cached' = Cached /\ maxBytes' = maxBytes /\ UNCHANGED layerVars
      BY <2>4 DEF Repoll, cacheVars, Cached
    <3> QED
      BY <3>1, <3>2, Steady DEF FlightInv, NoBudgetNoCache
  <2>5. ASSUME NEW f \in Reads, Fail(f) \/ Succeed(f) PROVE FlightInv'
    BY <2>5, EndKeeps
  <2>6. ASSUME NEW c \in Callers, Settle(c) \/ Abandon(c) PROVE FlightInv'
    BY <2>6, LeaveKeeps
  <2>7. ASSUME NEW l \in Limits, SetFetchWindow(l) PROVE FlightInv'
    <3>1. Unfinished' = Unfinished /\ NewFlights' = NewFlights /\ UNCHANGED layerVars
      BY <2>7, ResizeStep DEF SetFetchWindow
    <3>2. Cached' = Cached /\ maxBytes' = maxBytes
      BY <2>7 DEF SetFetchWindow, cacheVars, Cached
    <3> QED
      BY <3>1, <3>2, Steady DEF FlightInv, NoBudgetNoCache
  <2>8. ASSUME NEW b \in Budgets, SetRangeCache(b) PROVE FlightInv'
    <3>1. Unfinished' = Unfinished /\ NewFlights' = NewFlights /\ UNCHANGED layerVars
      BY <2>8, GateStutter DEF SetRangeCache
    <3>2. Cached' \subseteq Cached
      BY <2>8, ResizeCacheStep DEF SetRangeCache
    <3>3. NoBudgetNoCache'
      BY <2>8 DEF SetRangeCache, SetMaxBytes, NoBudgetNoCache, Cached
    <3> QED
      BY <3>1, <3>2, <3>3, Steady
  <2>9. CASE UNCHANGED vars
    <3>1. Unfinished' = Unfinished /\ NewFlights' = NewFlights /\ UNCHANGED layerVars
      BY <2>9, GateStutter DEF vars
    <3>2. Cached' = Cached /\ maxBytes' = maxBytes
      BY <2>9 DEF vars, cacheVars, Cached
    <3> QED
      BY <3>1, <3>2, Steady DEF FlightInv, NoBudgetNoCache
  <2> QED
    BY <2>1, <2>2, <2>3, <2>4, <2>5, <2>6, <2>7, <2>8, <2>9 DEF Next
<1> QED
  BY <1>1, FlightInvInit, LayerTyped, LayerGateFacts, PTL DEF Spec

\* No two unfinished flights fetch the same range, whatever joins, abandons,
\* completes or is swept from the singleflight table of wasm.rs.
THEOREM OneFetchPerRangeAlways == Spec => []OneFetchPerRange
<1>1. FlightInv => OneFetchPerRange
  BY DEF FlightInv, TableFinds, OneFetchPerRange
<1> QED
  BY <1>1, FlightInvariance, PTL

\* No permit or queue entry is ever held by a flight that nobody polls: the
\* weak table cannot reproduce the task-088 hang.
THEOREM PermitsHaveReadersAlways == Spec => []PermitsHaveReaders
<1>1. FlightInv => PermitsHaveReaders
  BY DEF FlightInv
<1> QED
  BY <1>1, FlightInvariance, PTL

\* A cached range is never on the network at the same time.
THEOREM NoFetchOfCachedAlways == Spec => []NoFetchOfCached
<1>1. FlightInv => NoFetchOfCached
  BY DEF FlightInv
<1> QED
  BY <1>1, FlightInvariance, PTL

------------------------------------------------------------------------------
(* The range cache by itself: what its steps do to its two maps and its     *)
(* byte count, for caches of any size and budget.                            *)

\* The map and the recency list mirror each other.
Mirror(l, rec) ==
    /\ \A k \in DOMAIN l : l[k] \in DOMAIN rec /\ rec[l[k]] = k
    /\ \A t \in DOMAIN rec : rec[t] \in DOMAIN l /\ l[rec[t]] = t

\* A cache of mirroring maps whose byte counter is the payload they hold.
Holds(l, rec, total, n) ==
    /\ DOMAIN l \subseteq Keys /\ l \in [DOMAIN l -> 1 .. n]
    /\ DOMAIN rec \subseteq 1 .. n /\ rec \in [DOMAIN rec -> Keys]
    /\ Mirror(l, rec)
    /\ total = SumOver(Size, DOMAIN l)

\* Both maps are finite, and ranges have sizes.
LEMMA CacheFinite ==
    ASSUME NEW l, NEW rec, NEW total, NEW n \in Nat, Holds(l, rec, total, n)
    PROVE  /\ IsFiniteSet(DOMAIN rec) /\ IsFiniteSet(DOMAIN l)
           /\ \A k \in DOMAIN l : Size[k] \in Nat /\ Size[k] > 0
           /\ total \in Nat
<1>1. IsFiniteSet(1 .. n)
  BY FS_Interval
<1>2. IsFiniteSet(DOMAIN rec)
  BY <1>1, FS_Subset DEF Holds
<1>3. l \in Injection(DOMAIN l, DOMAIN rec)
  BY DEF Holds, Mirror, Injection, IsInjective
<1>4. IsFiniteSet(DOMAIN l)
  BY <1>2, <1>3, FS_Injection
<1>5. \A k \in DOMAIN l : Size[k] \in Nat /\ Size[k] > 0
  BY SizeAssumption DEF Holds
<1>6. SumOver(Size, DOMAIN l) \in Nat
  BY <1>4, <1>5, SumOverStep
<1> QED
  BY <1>2, <1>4, <1>5, <1>6 DEF Holds

\* The payload of some entries, by their clocks or by their keys.
LEMMA PayloadByKey ==
    ASSUME NEW l, NEW rec, NEW total, NEW n \in Nat, Holds(l, rec, total, n),
           NEW e, \A t \in DOMAIN rec : e[t] = Size[rec[t]], NEW U \in SUBSET DOMAIN rec
    PROVE  SumOver(e, U) = SumOver(Size, {rec[t] : t \in U})
<1> DEFINE K(s) == {rec[t] : t \in s}
           Good == {s \in SUBSET U : SumOver(e, s) = SumOver(Size, K(s))}
<1>1. /\ IsFiniteSet(DOMAIN rec) /\ IsFiniteSet(DOMAIN l)
      /\ \A k \in DOMAIN l : Size[k] \in Nat
  BY CacheFinite
<1>2. \A t \in DOMAIN rec : e[t] \in Nat /\ rec[t] \in DOMAIN l
  BY <1>1 DEF Holds, Mirror
<1>3. IsFiniteSet(U)
  BY <1>1, FS_Subset
<1>4. {} \in Good
  <2>1. K({}) = {} /\ \A x \in {} : e[x] \in Nat /\ Size[x] \in Nat
    OBVIOUS
  <2>2. SumOver(e, {}) = 0 /\ SumOver(Size, {}) = 0
    BY FS_EmptySet, SumOverStep
  <2> QED
    BY <2>1, <2>2
<1>5. ASSUME NEW s \in SUBSET U, s # {} PROVE \E x \in s : s \ {x} \in Good => s \in Good
  <2>1. PICK t \in s : TRUE
    BY <1>5
  <2>2. t \in DOMAIN rec /\ s \in SUBSET DOMAIN rec
    OBVIOUS
  <2>3. IsFiniteSet(s)
    BY <1>3, FS_Subset
  <2>4. SumOver(e, s) = e[t] + SumOver(e, s \ {t})
    BY <1>2, <2>2, <2>3, SumOverStep
  <2>5. K(s) \in SUBSET DOMAIN l /\ rec[t] \in K(s)
    BY <1>2, <2>2
  <2>6. K(s) \ {rec[t]} = K(s \ {t})
    <3>1. \A u \in s : rec[u] = rec[t] => u = t
      BY <2>2 DEF Holds, Mirror
    <3> QED
      BY <3>1
  <2>7. PICK V : V = K(s)
    OBVIOUS
  <2> HIDE DEF K
  <2>8. IsFiniteSet(V) /\ rec[t] \in V /\ \A k \in V : Size[k] \in Nat
    BY <1>1, <2>5, <2>7, FS_Subset
  <2>9. SumOver(Size, V) = Size[rec[t]] + SumOver(Size, V \ {rec[t]})
    BY <2>8, SumOverStep
  <2>10. SumOver(Size, K(s)) = e[t] + SumOver(Size, K(s \ {t}))
    BY <2>2, <2>6, <2>7, <2>9
  <2> QED
    BY <2>4, <2>10
<1> HIDE DEF Good, K
<1>6. SUBSET U \subseteq Good
  BY <1>3, <1>4, <1>5, SubsetInduction
<1> QED
  BY <1>6 DEF Good, K

\* The payload of a part of the cache, and of the rest.
LEMMA PayloadSplits ==
    ASSUME NEW l, NEW rec, NEW total, NEW n \in Nat, Holds(l, rec, total, n),
           NEW K \in SUBSET DOMAIN l
    PROVE  /\ SumOver(Size, K) \in Nat /\ SumOver(Size, DOMAIN l \ K) \in Nat
           /\ SumOver(Size, DOMAIN l \ K) = total - SumOver(Size, K)
<1>1. IsFiniteSet(DOMAIN l) /\ \A k \in DOMAIN l : Size[k] \in Nat
  BY CacheFinite
<1>2. PICK L : L = DOMAIN l \ K
  OBVIOUS
<1>3. IsFiniteSet(K) /\ IsFiniteSet(L)
  BY <1>1, <1>2, FS_Subset
<1>4. SumOver(Size, K) \in Nat
  BY <1>1, <1>3, SumOverStep
<1>5. SumOver(Size, L) \in Nat
  BY <1>1, <1>2, <1>3, SumOverStep
<1>6. K \intersect L = {} /\ K \union L = DOMAIN l /\ \A k \in K \union L : Size[k] \in Nat
  BY <1>1, <1>2
<1>7. SumOver(Size, K \union L) = SumOver(Size, K) + SumOver(Size, L)
  BY <1>3, <1>6, SumOverUnion
<1>8. total = SumOver(Size, K) + SumOver(Size, L)
  BY <1>6, <1>7 DEF Holds
<1> QED
  BY <1>2, <1>4, <1>5, <1>8

\* Smaller parts of the cache weigh no more.
LEMMA PayloadMono ==
    ASSUME NEW S \in SUBSET Keys, IsFiniteSet(S), NEW K \in SUBSET S
    PROVE  SumOver(Size, K) \in Nat /\ SumOver(Size, S) \in Nat
           /\ SumOver(Size, K) <= SumOver(Size, S)
<1>1. PICK L : L = S \ K
  OBVIOUS
<1>2. \A k \in S : Size[k] \in Nat
  BY SizeAssumption
<1>3. IsFiniteSet(K) /\ IsFiniteSet(L)
  BY <1>1, FS_Subset
<1>4. SumOver(Size, K) \in Nat
  BY <1>2, <1>3, SumOverStep
<1>5. SumOver(Size, L) \in Nat
  BY <1>1, <1>2, <1>3, SumOverStep
<1>6. K \intersect L = {} /\ K \union L = S /\ \A k \in K \union L : Size[k] \in Nat
  BY <1>1, <1>2
<1>7. SumOver(Size, K \union L) = SumOver(Size, K) + SumOver(Size, L)
  BY <1>3, <1>6, SumOverUnion
<1>8. SumOver(Size, S) = SumOver(Size, K) + SumOver(Size, L)
  BY <1>6, <1>7
<1>9. \A x, y, z : x \in Nat /\ y \in Nat /\ z = x + y => z \in Nat /\ x <= z
  OBVIOUS
<1> QED
  BY <1>4, <1>5, <1>8, <1>9

\* What evict_to_budget (range_cache.rs) removes: the oldest entries, none
\* that the budget has room for, and all that it has none for.
LEMMA VictimsAreOldest ==
    ASSUME NEW l, NEW rec, NEW total, NEW n \in Nat, NEW budget \in Nat,
           Holds(l, rec, total, n),
           NEW gone, gone = Victims(l, rec, total, budget)
    PROVE  /\ gone \in SUBSET DOMAIN rec
           /\ \A t \in DOMAIN rec :
                t \in gone <=>
                  total - SumOver(Size, {rec[u] : u \in {v \in DOMAIN rec : v < t}}) > budget
<1> DEFINE e == [t \in DOMAIN rec |-> Size[rec[t]]]
           Below(t) == {u \in DOMAIN rec : u < t}
<1>1. \A t \in DOMAIN rec : rec[t] \in DOMAIN l
  BY DEF Holds, Mirror
<1>2. IsFiniteSet(DOMAIN rec) /\ IsFiniteSet(DOMAIN l) /\ \A k \in DOMAIN l : Size[k] \in Nat
  BY CacheFinite
<1>3. \A t \in DOMAIN rec : e[t] \in Nat
  BY <1>1, <1>2
<1> DEFINE pay(t) == IF rec[t] \in DOMAIN l THEN Size[rec[t]] ELSE 0
<1>4. ASSUME NEW U \in SUBSET DOMAIN rec
      PROVE  MapThenSumSet(pay, U) = SumOver(e, U)
  <2>1. IsFiniteSet(U) /\ \A x \in U : e[x] \in Nat
    BY <1>2, <1>3, FS_Subset
  <2> DEFINE Rec(F) == F = [s \in SUBSET U |-> IF s = {} THEN 0
                     ELSE pay(CHOOSE x \in s : TRUE) + F[s \ {CHOOSE x \in s : TRUE}]]
  <2>2. ASSUME NEW x \in U PROVE pay(x) = e[x]
    BY <1>1
  <2>3. \A s \in SUBSET U : s # {} => pay(CHOOSE x \in s : TRUE) = e[CHOOSE x \in s : TRUE]
    BY <2>2
  <2> HIDE DEF pay, e
  <2>4. \A F : Rec(F) <=> Recurs(F, U, e)
    BY <2>3 DEF Recurs
  <2>5. \E F : Recurs(F, U, e)
    BY <2>1, RecursionExists
  <2> DEFINE G == CHOOSE F : Rec(F)
  <2>6. \E F : Rec(F)
    <3>1. PICK F : Recurs(F, U, e)
      BY <2>5
    <3>2. Rec(F)
      BY <2>4, <3>1
    <3> HIDE DEF Rec
    <3> QED
      BY <3>2
  <2>7. Rec(G)
    BY <2>6
  <2>8. MapThenSumSet(pay, U) = G[U]
    BY DEF MapThenSumSet, MapThenFoldSet
  <2> HIDE DEF G, Rec
  <2>9. Sums(G, U, e)
    BY <2>1, <2>4, <2>7, RecursionSums
  <2>10. SumOver(e, U) = G[U]
    BY <2>1, <2>9, SumOverSums
  <2> QED
    BY <2>8, <2>10
<1>5. gone = {t \in DOMAIN rec : total - MapThenSumSet(pay, Below(t)) > budget}
  BY DEF Victims
<1> HIDE DEF pay
<1>6. \A t \in DOMAIN rec : MapThenSumSet(pay, Below(t)) = SumOver(e, Below(t))
  BY <1>4
<1> HIDE DEF Below
<1>7. \A t \in DOMAIN rec : SumOver(e, Below(t)) = SumOver(Size, {rec[u] : u \in Below(t)})
  <2> TAKE t \in DOMAIN rec
  <2>1. \A u \in DOMAIN rec : e[u] = Size[rec[u]]
    OBVIOUS
  <2>2. Below(t) \in SUBSET DOMAIN rec
    BY DEF Below
  <2> HIDE DEF e
  <2> QED
    BY <2>1, <2>2, PayloadByKey
<1> HIDE DEF e
<1>8. \A t \in DOMAIN rec : t \in gone <=> total - SumOver(Size, {rec[u] : u \in Below(t)}) > budget
  BY <1>5, <1>6, <1>7
<1> QED
  BY <1>5, <1>8 DEF Below

\* The keys K leave the map l, the oldest first and no more than the budget asks.
Evicts(K, l, ll, budget) ==
    /\ K \in SUBSET DOMAIN l
    /\ DOMAIN ll = DOMAIN l \ K
    /\ \A k \in DOMAIN l \ K : ll[k] = l[k]
    /\ \A a \in K, b \in DOMAIN l \ K : l[a] < l[b]
    /\ \A k \in K : SumOver(Size, {j \in DOMAIN l : ~(l[j] < l[k])}) > budget

\* evict_to_budget leaves mirroring maps, an exact byte count and a payload
\* within the budget; what it evicts is the oldest, and as little as will do.
LEMMA EvictKeeps ==
    ASSUME NEW l, NEW rec, NEW total, NEW n \in Nat, NEW budget \in Nat,
           Holds(l, rec, total, n), Evict(l, rec, total, budget)
    PROVE  /\ Holds(last', recency', bytes', n)
           /\ bytes' \in Nat /\ bytes' <= budget
           /\ \E K : Evicts(K, l, last', budget)
<1> DEFINE gone == Victims(l, rec, total, budget)
           keys == {rec[t] : t \in gone}
           Kept(t) == SumOver(Size, {rec[u] : u \in {v \in DOMAIN rec : v < t}})
<1>1. /\ IsFiniteSet(DOMAIN rec) /\ IsFiniteSet(DOMAIN l) /\ total \in Nat
      /\ \A k \in DOMAIN l : Size[k] \in Nat
  BY CacheFinite
<1>2. gone \in SUBSET DOMAIN rec /\ \A t \in DOMAIN rec : t \in gone <=> total - Kept(t) > budget
  <2>1. PICK g : g = gone
    OBVIOUS
  <2>2. g \in SUBSET DOMAIN rec /\ \A t \in DOMAIN rec : t \in g <=> total - Kept(t) > budget
    BY <2>1, VictimsAreOldest
  <2> QED
    BY <2>1, <2>2
<1> HIDE DEF gone
<1>3. keys \in SUBSET DOMAIN l
  BY <1>2 DEF Holds, Mirror
<1>4. /\ recency' = [t \in DOMAIN rec \ gone |-> rec[t]]
      /\ last' = [k \in DOMAIN l \ keys |-> l[k]]
      /\ bytes' = total - SumOver(Size, keys)
  <2>1. keys \intersect DOMAIN l = keys
    BY <1>3
  <2> HIDE DEF keys
  <2>2. /\ recency' = Drop(rec, gone) /\ last' = Drop(l, {rec[t] : t \in gone} \intersect DOMAIN l)
        /\ bytes' = total - SumOver(Size, {rec[t] : t \in gone} \intersect DOMAIN l)
    BY DEF Evict, SumOver, gone
  <2>3. last' = Drop(l, keys) /\ bytes' = total - SumOver(Size, keys)
    BY <2>1, <2>2 DEF keys
  <2>4. DOMAIN rec \ (DOMAIN rec \ gone) = gone /\ DOMAIN l \ (DOMAIN l \ keys) = keys
    BY <1>2, <2>1
  <2> QED
    BY <2>2, <2>3 DEF Drop, Restrict
<1>5. \A t \in DOMAIN rec : t \in gone <=> rec[t] \in keys
  BY <1>2 DEF Holds, Mirror
<1>6. \A k \in DOMAIN l : k \in keys <=> l[k] \in gone
  BY <1>5 DEF Holds, Mirror
<1> HIDE DEF keys
<1>7. SumOver(Size, DOMAIN l \ keys) = total - SumOver(Size, keys)
      /\ SumOver(Size, DOMAIN l \ keys) \in Nat
  BY <1>3, PayloadSplits
<1>8. Holds(last', recency', bytes', n)
  <2>1. DOMAIN last' = DOMAIN l \ keys /\ DOMAIN recency' = DOMAIN rec \ gone
    BY <1>4
  <2>2. Mirror(last', recency')
    BY <1>4, <1>5, <1>6, <2>1 DEF Holds, Mirror
  <2>3. bytes' = SumOver(Size, DOMAIN last')
    BY <1>4, <1>7, <2>1
  <2>4. last' \in [DOMAIN last' -> 1 .. n] /\ recency' \in [DOMAIN recency' -> Keys]
    BY <1>4, <2>1 DEF Holds
  <2> QED
    BY <2>1, <2>2, <2>3, <2>4 DEF Holds
<1>9. bytes' \in Nat
  BY <1>4, <1>7
<1>10. bytes' <= budget
  <2>1. CASE gone = DOMAIN rec
    <3>1. DOMAIN l \ keys = {}
      BY <1>6, <2>1 DEF Holds, Mirror
    <3>2. SumOver(Size, {}) = 0
      BY FS_EmptySet, SumOverStep
    <3> QED
      BY <1>4, <1>7, <3>1, <3>2
  <2>2. CASE gone # DOMAIN rec
    <3>1. DOMAIN rec \ gone # {} /\ DOMAIN rec \ gone \in SUBSET Nat
      BY <1>2, <2>2 DEF Holds
    <3>2. PICK t \in DOMAIN rec \ gone : \A u \in DOMAIN rec \ gone : t <= u
      BY <3>1, NatSetHasLeast
    <3>3. ~(total - Kept(t) > budget)
      BY <1>2, <3>2
    <3> DEFINE B == {rec[u] : u \in {v \in DOMAIN rec : v < t}}
    <3>4. B \in SUBSET keys
      <4>1. \A u \in DOMAIN rec : u < t => u \in gone
        BY <3>1, <3>2
      <4> QED
        BY <4>1, <1>5
    <3>5. SumOver(Size, B) <= SumOver(Size, keys) /\ SumOver(Size, B) \in Nat
      <4>1. keys \in SUBSET Keys /\ IsFiniteSet(keys)
        BY <1>1, <1>3, FS_Subset DEF Holds
      <4> HIDE DEF B
      <4> QED
        BY <3>4, <4>1, PayloadMono
    <3>6. SumOver(Size, keys) \in Nat
      BY <1>3, PayloadSplits
    <3> HIDE DEF B
    <3>7. ~(total - SumOver(Size, B) > budget)
      BY <3>3 DEF B
    <3> QED
      BY <1>1, <1>4, <3>5, <3>6, <3>7
  <2> QED
    BY <2>1, <2>2
<1>11. \A k \in DOMAIN l :
         Kept(l[k]) = SumOver(Size, {j \in DOMAIN l : l[j] < l[k]})
  <2> TAKE k \in DOMAIN l
  <2>1. {rec[u] : u \in {v \in DOMAIN rec : v < l[k]}} = {j \in DOMAIN l : l[j] < l[k]}
    BY DEF Holds, Mirror
  <2> QED
    BY <2>1
<1>12. \A k \in keys : total - SumOver(Size, {j \in DOMAIN l : l[j] < l[k]}) > budget
  <2> TAKE k \in keys
  <2>1. k \in DOMAIN l /\ l[k] \in DOMAIN rec /\ l[k] \in gone
    BY <1>3, <1>6 DEF Holds, Mirror
  <2>2. total - Kept(l[k]) > budget
    BY <1>2, <2>1
  <2> HIDE DEF Kept
  <2> QED
    BY <1>11, <2>1, <2>2
<1>13. \A k \in keys : SumOver(Size, {j \in DOMAIN l : ~(l[j] < l[k])}) > budget
  <2> TAKE k \in keys
  <2>1. PICK L, M : L = {j \in DOMAIN l : l[j] < l[k]} /\ M = {j \in DOMAIN l : ~(l[j] < l[k])}
    OBVIOUS
  <2>2. L \in SUBSET DOMAIN l /\ DOMAIN l \ L = M
    BY <2>1
  <2>3. SumOver(Size, DOMAIN l \ L) = total - SumOver(Size, L)
    BY <2>2, PayloadSplits
  <2>4. total - SumOver(Size, L) > budget
    BY <1>12, <2>1
  <2> QED
    BY <2>1, <2>2, <2>3, <2>4
<1>14. \A a \in keys, b \in DOMAIN l \ keys : l[a] < l[b]
  <2> SUFFICES ASSUME NEW a \in keys, NEW b \in DOMAIN l \ keys, ~(l[a] < l[b]) PROVE FALSE
    OBVIOUS
  <2>1. a \in DOMAIN l /\ a # b /\ l[a] \in Nat /\ l[b] \in Nat /\ l[a] # l[b]
    BY <1>3 DEF Holds, Mirror
  <2>2. l[b] < l[a]
    BY <2>1
  <2>3. PICK A, B : A = {j \in DOMAIN l : l[j] < l[a]} /\ B = {j \in DOMAIN l : l[j] < l[b]}
    OBVIOUS
  <2>4. \A j \in DOMAIN l : l[j] \in Nat
    BY DEF Holds
  <2>5. B \in SUBSET A /\ A \in SUBSET Keys /\ IsFiniteSet(A)
    <3>1. B \in SUBSET A
      BY <2>1, <2>2, <2>3, <2>4
    <3>2. A \in SUBSET DOMAIN l
      BY <2>3
    <3> QED
      BY <1>1, <3>1, <3>2, FS_Subset DEF Holds
  <2>6. SumOver(Size, B) <= SumOver(Size, A) /\ SumOver(Size, A) \in Nat /\ SumOver(Size, B) \in Nat
    BY <2>5, PayloadMono
  <2>7. total - SumOver(Size, A) > budget
    BY <1>12, <2>3
  <2>8. total - SumOver(Size, B) > budget
    BY <1>1, <2>6, <2>7
  <2>9. Kept(l[b]) = SumOver(Size, B)
    BY <1>11, <2>3
  <2>10. total - Kept(l[b]) > budget /\ l[b] \in DOMAIN rec
    <3> HIDE DEF Kept
    <3> QED
      BY <2>8, <2>9 DEF Holds, Mirror
  <2>11. l[b] \in gone
    BY <1>2, <2>10
  <2> QED
    BY <1>6, <2>11
<1>15. DOMAIN last' = DOMAIN l \ keys /\ \A k \in DOMAIN l \ keys : last'[k] = l[k]
  BY <1>4
<1>16. Evicts(keys, l, last', budget)
  BY <1>3, <1>13, <1>14, <1>15 DEF Evicts
<1> QED
  BY <1>8, <1>9, <1>10, <1>16

CacheInv ==
    /\ Holds(last, recency, bytes, clock)
    /\ bytes \in Nat /\ maxBytes \in Nat /\ clock \in Nat
    /\ bytes <= maxBytes

\* The invariant, in the terms of RangeCache.
LEMMA CacheInvSays == CacheInv => CacheTypeOK /\ CacheAccounts
BY DEF CacheInv, CacheTypeOK, CacheAccounts, Holds, Mirror, Cached, SumOver

\* An entry moved to, or put at, the newest clock keeps the maps mirroring.
LEMMA NewestHolds ==
    ASSUME NEW l, NEW rec, NEW total, NEW n \in Nat, Holds(l, rec, total, n), NEW k \in Keys,
           NEW ll, ll = [z \in DOMAIN l \union {k} |-> IF z = k THEN n + 1 ELSE l[z]],
           NEW old, old = {l[o] : o \in {k} \intersect DOMAIN l},
           NEW rr, rr = [t \in (DOMAIN rec \ old) \union {n + 1} |-> IF t = n + 1 THEN k ELSE rec[t]],
           NEW tt, tt = IF k \in DOMAIN l THEN total ELSE total + Size[k]
    PROVE  Holds(ll, rr, tt, n + 1)
<1>1. n + 1 \in 1 .. n + 1 /\ 1 .. n \subseteq 1 .. n + 1 /\ n + 1 \notin 1 .. n
  OBVIOUS
<1>2. /\ DOMAIN ll = DOMAIN l \union {k} /\ DOMAIN rr = (DOMAIN rec \ old) \union {n + 1}
      /\ ll[k] = n + 1 /\ rr[n + 1] = k
      /\ \A z \in DOMAIN l \ {k} : ll[z] = l[z]
      /\ \A t \in DOMAIN rec \ old : rr[t] = rec[t]
  BY <1>1 DEF Holds
<1>3. Mirror(ll, rr)
  <2>1. \A z \in DOMAIN l \ {k} : l[z] \in DOMAIN rec \ old
    BY DEF Holds, Mirror
  <2>2. \A t \in DOMAIN rec \ old : rec[t] \in DOMAIN l \ {k}
    BY DEF Holds, Mirror
  <2> QED
    BY <1>1, <1>2, <2>1, <2>2 DEF Holds, Mirror
<1>4. /\ DOMAIN ll \subseteq Keys /\ ll \in [DOMAIN ll -> 1 .. n + 1]
      /\ DOMAIN rr \subseteq 1 .. n + 1 /\ rr \in [DOMAIN rr -> Keys]
  BY <1>1, <1>2 DEF Holds
<1>5. tt = SumOver(Size, DOMAIN ll)
  <2>1. CASE k \in DOMAIN l
    <3>1. DOMAIN ll = DOMAIN l
      BY <1>2, <2>1
    <3> QED
      BY <3>1, <2>1 DEF Holds
  <2>2. CASE k \notin DOMAIN l
    <3>1. DOMAIN ll \ {k} = DOMAIN l /\ k \in DOMAIN ll
      BY <1>2, <2>2
    <3>2. IsFiniteSet(DOMAIN ll)
      <4>1. IsFiniteSet(DOMAIN l)
        BY CacheFinite
      <4> QED
        BY <1>2, <4>1, FS_AddElement
    <3>3. \A z \in DOMAIN ll : Size[z] \in Nat
      BY <1>4, SizeAssumption
    <3>4. SumOver(Size, DOMAIN ll) = Size[k] + SumOver(Size, DOMAIN ll \ {k})
      <4>1. PICK V : V = DOMAIN ll
        OBVIOUS
      <4>2. IsFiniteSet(V) /\ k \in V /\ \A z \in V : Size[z] \in Nat
        BY <3>1, <3>2, <3>3, <4>1
      <4>3. SumOver(Size, V) = Size[k] + SumOver(Size, V \ {k})
        BY <4>2, SumOverStep
      <4> QED
        BY <4>1, <4>3
    <3>5. SumOver(Size, DOMAIN ll) = Size[k] + total
      BY <3>1, <3>4 DEF Holds
    <3>6. total \in Nat /\ Size[k] \in Nat
      BY CacheFinite, SizeAssumption
    <3> QED
      BY <2>2, <3>5, <3>6
  <2> QED
    BY <2>1, <2>2
<1> QED
  BY <1>3, <1>4, <1>5 DEF Holds

\* get of the range cache moves one entry and keeps the accounts.
LEMMA GetKeeps ==
    ASSUME CacheInv, NEW k \in Keys, Get(k)
    PROVE  CacheInv'
<1>1. /\ Holds(last, recency, bytes, clock) /\ clock \in Nat /\ maxBytes \in Nat
      /\ bytes \in Nat /\ bytes <= maxBytes
  BY DEF CacheInv
<1>2. PICK n : n = clock
  OBVIOUS
<1> DEFINE old == {last[o] : o \in {k} \intersect DOMAIN last}
<1>3. k \in DOMAIN last /\ old = {last[k]}
  BY DEF Get, Cached
<1>4. /\ last' = [z \in DOMAIN last \union {k} |-> IF z = k THEN n + 1 ELSE last[z]]
      /\ recency' = [t \in (DOMAIN recency \ old) \union {n + 1} |->
                       IF t = n + 1 THEN k ELSE recency[t]]
      /\ clock' = n + 1 /\ bytes' = bytes /\ maxBytes' = maxBytes
  <2>1. last' = [last EXCEPT ![k] = n + 1] /\ last = [z \in DOMAIN last |-> last[z]]
    BY <1>1, <1>2 DEF Get, Holds
  <2>2. DOMAIN last = DOMAIN last \union {k}
    BY <1>3
  <2>3. last' = [z \in DOMAIN last \union {k} |-> IF z = k THEN n + 1 ELSE last[z]]
    BY <2>1, <2>2
  <2>4. recency' = Set(Drop(recency, old), n + 1, k)
    BY <1>2, <1>3 DEF Get
  <2>5. DOMAIN recency \ (DOMAIN recency \ (DOMAIN recency \ old)) = DOMAIN recency \ old
    OBVIOUS
  <2>6. n + 1 \notin DOMAIN recency
    BY <1>1, <1>2 DEF Holds
  <2> HIDE DEF old
  <2>7. recency' = [t \in (DOMAIN recency \ old) \union {n + 1} |->
                       IF t = n + 1 THEN k ELSE recency[t]]
    BY <2>4, <2>6 DEF Set, Drop, Restrict
  <2> QED
    BY <1>2, <2>3, <2>7 DEF Get
<1>5. Holds(last', recency', bytes, n + 1)
  <2>1. Holds(last, recency, bytes, n) /\ n \in Nat
    BY <1>1, <1>2
  <2> QED
    BY <1>3, <1>4, <2>1, NewestHolds
<1>6. /\ Holds(last', recency', bytes', clock') /\ clock' \in Nat /\ maxBytes' \in Nat
      /\ bytes' \in Nat /\ bytes' <= maxBytes'
  BY <1>1, <1>2, <1>4, <1>5
<1> QED
  BY <1>6 DEF CacheInv

\* insert of the range cache, past its early returns: the replaced entry is
\* taken out and the new one put in, and then the oldest are evicted.
LEMMA InsertEvicts ==
    ASSUME CacheInv, NEW k \in Keys, Insert(k), ~(maxBytes = 0 \/ Size[k] > maxBytes)
    PROVE  \E ll, rr, tt :
             /\ ll = [z \in DOMAIN last \union {k} |-> IF z = k THEN clock + 1 ELSE last[z]]
             /\ Holds(ll, rr, tt, clock + 1) /\ Evict(ll, rr, tt, maxBytes)
             /\ clock' = clock + 1 /\ maxBytes' = maxBytes
<1>0. /\ Holds(last, recency, bytes, clock) /\ clock \in Nat /\ maxBytes \in Nat
      /\ bytes \in Nat /\ bytes <= maxBytes
  BY DEF CacheInv
<1> DEFINE n == clock
           ll == Set(last, k, n + 1)
           old == {last[o] : o \in {k} \intersect Cached}
           rr == Set(Drop(recency, old), n + 1, k)
           tt == bytes - SumOver(Size, {k} \intersect Cached) + Size[k]
<1>1. Evict(ll, rr, tt, maxBytes) /\ clock' = n + 1 /\ maxBytes' = maxBytes
  BY DEF Insert, SumOver
<1>2. ll = [z \in DOMAIN last \union {k} |-> IF z = k THEN n + 1 ELSE last[z]]
  BY DEF Set
<1>3. n + 1 \notin DOMAIN recency
  BY <1>0 DEF Holds
<1>4. rr = [t \in (DOMAIN recency \ old) \union {n + 1} |-> IF t = n + 1 THEN k ELSE recency[t]]
  <2> HIDE DEF old
  <2> QED
    BY <1>3 DEF Set, Drop, Restrict
<1>5. Size[k] \in Nat /\ IsFiniteSet({k}) /\ IsFiniteSet({})
  BY SizeAssumption, FS_Singleton, FS_EmptySet
<1>6. tt = IF k \in DOMAIN last THEN bytes ELSE bytes + Size[k]
  <2>1. CASE k \in DOMAIN last
    <3>1. {k} \intersect Cached = {k}
      BY <2>1 DEF Cached
    <3>2. SumOver(Size, {k}) = Size[k] + SumOver(Size, {k} \ {k})
      BY <1>5, SumOverStep
    <3>3. {k} \ {k} = {} /\ SumOver(Size, {}) = 0
      BY <1>5, SumOverStep
    <3>4. tt = bytes - (Size[k] + 0) + Size[k]
      BY <3>1, <3>2, <3>3
    <3> HIDE DEF tt
    <3> QED
      BY <1>0, <1>5, <2>1, <3>4
  <2>2. CASE k \notin DOMAIN last
    <3>1. {k} \intersect Cached = {}
      BY <2>2 DEF Cached
    <3>2. SumOver(Size, {}) = 0
      BY <1>5, SumOverStep
    <3>3. tt = bytes - 0 + Size[k]
      BY <3>1, <3>2
    <3> HIDE DEF tt
    <3> QED
      BY <1>0, <1>5, <2>2, <3>3
  <2> QED
    BY <2>1, <2>2
<1>7. old = {last[o] : o \in {k} \intersect DOMAIN last}
  BY DEF Cached
<1>9. ll = [z \in DOMAIN last \union {k} |-> IF z = k THEN clock + 1 ELSE last[z]]
  BY <1>2
<1> HIDE DEF ll, rr, tt, old
<1>8. Holds(ll, rr, tt, n + 1)
  <2>1. Holds(last, recency, bytes, n) /\ n \in Nat
    BY <1>0
  <2> HIDE DEF n
  <2> QED
    BY <1>2, <1>4, <1>6, <1>7, <2>1, NewestHolds
<1> QED
  BY <1>1, <1>8, <1>9

\* insert keeps the accounts.
LEMMA InsertKeeps ==
    ASSUME CacheInv, NEW k \in Keys, Insert(k)
    PROVE  CacheInv'
<1>1. CASE maxBytes = 0 \/ Size[k] > maxBytes
  <2>1. UNCHANGED cacheVars
    BY <1>1 DEF Insert
  <2> QED
    BY <2>1 DEF cacheVars, CacheInv
<1>2. CASE ~(maxBytes = 0 \/ Size[k] > maxBytes)
  <2>1. PICK ll, rr, tt :
           /\ Holds(ll, rr, tt, clock + 1) /\ Evict(ll, rr, tt, maxBytes)
           /\ clock' = clock + 1 /\ maxBytes' = maxBytes
    BY <1>2, InsertEvicts
  <2>2. clock + 1 \in Nat /\ maxBytes \in Nat
    BY DEF CacheInv
  <2>3. Holds(last', recency', bytes', clock + 1) /\ bytes' \in Nat /\ bytes' <= maxBytes
    BY <2>1, <2>2, EvictKeeps
  <2> QED
    BY <2>1, <2>2, <2>3 DEF CacheInv
<1> QED
  BY <1>1, <1>2

\* setRangeCacheMb evicts to the new budget, or drops the cache.
LEMMA SetMaxBytesKeeps ==
    ASSUME CacheInv, NEW b \in Budgets, SetMaxBytes(b)
    PROVE  CacheInv'
<1>1. /\ Holds(last, recency, bytes, clock) /\ clock \in Nat /\ b \in Nat
  BY BudgetsAssumption DEF CacheInv
<1>2. CASE b = 0
  <2>1. last' = << >> /\ recency' = << >> /\ bytes' = 0 /\ clock' = 0 /\ maxBytes' = 0
    BY <1>2 DEF SetMaxBytes
  <2>2. SumOver(Size, {}) = 0
    BY FS_EmptySet, SumOverStep
  <2>3. DOMAIN last' = {} /\ DOMAIN recency' = {}
    BY <2>1
  <2>4. Holds(last', recency', bytes', clock')
    BY <2>1, <2>2, <2>3 DEF Holds, Mirror
  <2>5. bytes' \in Nat /\ maxBytes' \in Nat /\ clock' \in Nat /\ bytes' <= maxBytes'
    BY <2>1
  <2> QED
    BY <2>4, <2>5 DEF CacheInv
<1>3. CASE b # 0
  <2>1. Evict(last, recency, bytes, b) /\ maxBytes' = b /\ clock' = clock
    BY <1>3 DEF SetMaxBytes
  <2>2. Holds(last', recency', bytes', clock) /\ bytes' \in Nat /\ bytes' <= b
    BY <1>1, <2>1, EvictKeeps
  <2>3. /\ Holds(last', recency', bytes', clock') /\ clock' \in Nat /\ maxBytes' \in Nat
        /\ bytes' \in Nat /\ bytes' <= maxBytes'
    BY <1>1, <2>1, <2>2
  <2> QED
    BY <2>3 DEF CacheInv
<1> QED
  BY <1>2, <1>3

\* An empty cache's accounts are right.
LEMMA CacheInitHolds == CacheInit => CacheInv
<1> SUFFICES ASSUME CacheInit PROVE CacheInv
  OBVIOUS
<1>1. last = << >> /\ recency = << >> /\ bytes = 0 /\ clock = 0 /\ maxBytes \in Nat
  BY BudgetsAssumption DEF CacheInit
<1>2. SumOver(Size, {}) = 0
  BY FS_EmptySet, SumOverStep
<1>3. DOMAIN last = {} /\ DOMAIN recency = {}
  BY <1>1
<1>4. Holds(last, recency, bytes, clock)
  BY <1>1, <1>2, <1>3 DEF Holds, Mirror
<1> QED
  BY <1>1, <1>4 DEF CacheInv

------------------------------------------------------------------------------
(* The cache is a strict LRU list: the lists of LruCache are the cached keys  *)
(* in the order of their clocks.                                              *)

\* A stretch of a list has as many members as places.
LEMMA PieceCounts ==
    ASSUME NEW S, IsFiniteSet(S), NEW R, Orders(R, S), NEW s, Lists(s, S, R),
           NEW a \in Nat, NEW b \in Nat, 1 <= a, b <= Cardinality(S), a <= b + 1,
           NEW T, T = {s[j] : j \in a .. b}
    PROVE  IsFiniteSet(T) /\ Cardinality(T) = b + 1 - a
<1> DEFINE f == [j \in a .. b |-> s[j]]
<1>1. /\ Cardinality(S) \in Nat
      /\ \A i, j \in 1 .. Cardinality(S) : i < j => <<s[i], s[j]>> \in R
      /\ \A i \in 1 .. Cardinality(S) : s[i] \in S
  BY ListsInOrder DEF Lists
<1>2. \A i, j \in a .. b : i # j => s[i] # s[j]
  <2> SUFFICES ASSUME NEW i \in a .. b, NEW j \in a .. b, i # j PROVE s[i] # s[j]
    OBVIOUS
  <2>1. i \in 1 .. Cardinality(S) /\ j \in 1 .. Cardinality(S)
    BY <1>1
  <2>2. i < j \/ j < i
    OBVIOUS
  <2> QED
    BY <1>1, <2>1, <2>2 DEF Orders
<1>3. f \in Bijection(a .. b, T)
  BY <1>2 DEF Bijection, Injection, Surjection, IsInjective
<1>4. IsFiniteSet(a .. b) /\ Cardinality(a .. b) = b + 1 - a
  <2>1. a \in Int /\ b \in Int
    OBVIOUS
  <2>2. IsFiniteSet(a .. b) /\ Cardinality(a .. b) = IF a > b THEN 0 ELSE b - a + 1
    BY <2>1, FS_Interval
  <2> QED
    BY <2>2
<1> HIDE DEF f
<1>5. ExistsBijection(a .. b, T)
  BY <1>3 DEF ExistsBijection
<1> QED
  BY <1>4, <1>5, FS_Bijection

\* A stretch of a list lists its members.
LEMMA PieceLists ==
    ASSUME NEW S, IsFiniteSet(S), NEW R, Orders(R, S), NEW s, Lists(s, S, R),
           NEW a \in Nat, NEW b \in Nat, 1 <= a, b <= Cardinality(S), a <= b + 1,
           NEW T, T = {s[j] : j \in a .. b}
    PROVE  Lists(SubSeq(s, a, b), T, R)
<1> DEFINE u == SubSeq(s, a, b)
<1>1. /\ Cardinality(S) \in Nat /\ s \in Seq(S) /\ Len(s) = Cardinality(S)
      /\ \A i, j \in 1 .. Cardinality(S) : i < j => <<s[i], s[j]>> \in R
      /\ \A i \in 1 .. Cardinality(S) : s[i] \in S
  BY ListsInOrder DEF Lists
<1>2. Cardinality(T) = b + 1 - a
  BY PieceCounts
<1>3. u = [i \in 1 .. b + 1 - a |-> s[i + a - 1]]
  <2>1. u = [i \in 1 .. (b - a + 1) |-> s[a + i - 1]]
    OBVIOUS
  <2>2. b - a + 1 = b + 1 - a /\ \A i \in 1 .. b - a + 1 : a + i - 1 = i + a - 1
    OBVIOUS
  <2> HIDE DEF u
  <2> QED
    BY <2>1, <2>2
<1> HIDE DEF u
<1>4. \A i \in 1 .. b + 1 - a : i + a - 1 \in a .. b
  OBVIOUS
<1>5. u \in [1 .. Cardinality(T) -> T]
  BY <1>2, <1>3, <1>4
<1>6. ASSUME NEW d \in T PROVE u[Cardinality(Under(d, T, R)) + 1] = d
  <2>1. PICK i \in a .. b : d = s[i]
    OBVIOUS
  <2>2. Under(d, T, R) = {s[j] : j \in a .. i - 1}
    <3>1. ASSUME NEW j \in a .. b PROVE <<s[j], s[i]>> \in R <=> j < i
      <4>1. i \in 1 .. Cardinality(S) /\ j \in 1 .. Cardinality(S)
        BY <1>1
      <4>2. s[i] \in S /\ s[j] \in S
        BY <1>1, <4>1
      <4>3. CASE j < i
        BY <1>1, <4>1, <4>3
      <4>4. CASE j = i
        BY <4>2, <4>4 DEF Orders
      <4>5. CASE i < j
        BY <1>1, <4>1, <4>2, <4>5 DEF Orders
      <4> QED
        BY <4>3, <4>4, <4>5
    <3>2. a .. i - 1 = {j \in a .. b : j < i}
      OBVIOUS
    <3> QED
      BY <2>1, <3>1, <3>2 DEF Under
  <2>3. i - 1 \in Nat /\ i - 1 <= Cardinality(S) /\ a <= (i - 1) + 1
    BY <1>1
  <2>4. PICK h, V : h = i - 1 /\ V = {s[j] : j \in a .. h}
    OBVIOUS
  <2>5. h \in Nat /\ h <= Cardinality(S) /\ a <= h + 1
    BY <2>3, <2>4
  <2>6. Cardinality(V) = h + 1 - a
    <3>1. V = {s[j] : j \in a .. h}
      BY <2>4
    <3>2. h \in Nat /\ a \in Nat /\ 1 <= a
      BY <2>5
    <3>3. h <= Cardinality(S) /\ a <= h + 1
      BY <2>5
    <3>4. IsFiniteSet(V) /\ Cardinality(V) = h + 1 - a
      BY ONLY <3>1, <3>2, <3>3, IsFiniteSet(S), Orders(R, S), Lists(s, S, R), PieceCounts
    <3> QED
      BY <3>4
  <2>61. Under(d, T, R) = V
    BY <2>2, <2>4
  <2>62. Cardinality(Under(d, T, R)) = h + 1 - a
    BY <2>6, <2>61
  <2>63. Cardinality(Under(d, T, R)) = i - a
    BY <2>4, <2>62
  <2>7. i - a + 1 \in 1 .. b + 1 - a /\ (i - a + 1) + a - 1 = i
    OBVIOUS
  <2> QED
    BY <1>3, <2>1, <2>63, <2>7
<1> QED
  BY <1>5, <1>6 DEF Lists, u

\* Orders that agree on a set list it alike.
LEMMA ListsAgree ==
    ASSUME NEW S, NEW R, NEW Q, \A a, b \in S : <<a, b>> \in R <=> <<a, b>> \in Q,
           NEW s, Lists(s, S, R)
    PROVE  Lists(s, S, Q)
<1>1. \A d \in S : Under(d, S, Q) = Under(d, S, R)
  BY DEF Under
<1> QED
  BY <1>1 DEF Lists

\* The list without one of its members.
LEMMA RemoveLists ==
    ASSUME NEW S, IsFiniteSet(S), NEW R, Orders(R, S), NEW s, Lists(s, S, R), NEW k
    PROVE  Lists(Lru!RemoveFirst(s, k), S \ {k}, R)
<1>1. /\ Cardinality(S) \in Nat /\ s \in Seq(S) /\ Len(s) = Cardinality(S)
      /\ \A d \in S : \E i \in 1 .. Cardinality(S) : s[i] = d
      /\ \A i, j \in 1 .. Cardinality(S) : i < j => <<s[i], s[j]>> \in R
  BY ListsInOrder
<1>2. \A i \in 1 .. Cardinality(S) : s[i] \in S
  BY DEF Lists
<1>3. CASE k \notin S
  <2>1. S \ {k} = S /\ Lru!RemoveFirst(s, k) = s
    BY <1>1, <1>2, <1>3 DEF Lru!RemoveFirst
  <2> QED
    BY <2>1
<1>4. CASE k \in S
  <2>1. PICK p \in 1 .. Cardinality(S) : s[p] = k
    BY <1>1, <1>4
  <2>2. PICK n : n = Cardinality(S)
    OBVIOUS
  <2>3. \A i, j \in 1 .. n : i # j => s[i] # s[j]
    <3> SUFFICES ASSUME NEW i \in 1 .. n, NEW j \in 1 .. n, i # j PROVE s[i] # s[j]
      OBVIOUS
    <3>1. i < j \/ j < i
      BY <1>1, <2>2
    <3> QED
      BY <1>1, <1>2, <2>2, <3>1 DEF Orders
  <2>4. Lru!RemoveFirst(s, k) = SubSeq(s, 1, p - 1) \o SubSeq(s, p + 1, n)
    <3>1. {i \in 1 .. Len(s) : s[i] = k} = {p}
      BY <1>1, <2>1, <2>2, <2>3
    <3>2. Lru!Min({p}) = p
      BY <2>1 DEF Lru!Min
    <3>3. Lru!SelectInSeq(s, LAMBDA v : v = k) = p
      BY <3>1, <3>2 DEF Lru!SelectInSeq
    <3> QED
      BY <1>1, <2>1, <2>2, <3>3 DEF Lru!RemoveFirst, Lru!RemoveAt
  <2>5. PICK a, b : a = p - 1 /\ b = p + 1
    OBVIOUS
  <2>6. PICK A, B : A = {s[j] : j \in 1 .. a} /\ B = {s[j] : j \in b .. n}
    OBVIOUS
  <2>7. /\ a \in Nat /\ b \in Nat /\ n \in Nat /\ 1 <= b /\ a <= Cardinality(S) /\ 1 <= a + 1
        /\ n <= Cardinality(S) /\ b <= n + 1 /\ 1 <= 1 /\ 1 \in Nat
    BY <1>1, <2>1, <2>2, <2>5
  <2>8. IsFiniteSet(A) /\ Lists(SubSeq(s, 1, a), A, R)
    BY <2>6, <2>7, PieceCounts, PieceLists
  <2>9. IsFiniteSet(B) /\ Lists(SubSeq(s, b, n), B, R)
    BY <2>6, <2>7, PieceCounts, PieceLists
  <2>10. A \union B = S \ {k}
    <3>1. \A d \in S \ {k} : \E i \in 1 .. a \union b .. n : s[i] = d
      <4> TAKE d \in S \ {k}
      <4>1. PICK i \in 1 .. n : s[i] = d
        BY <1>1, <2>2
      <4>2. i # p
        BY <2>1, <4>1
      <4>3. i \in 1 .. a \union b .. n
        BY <2>1, <2>5, <2>7, <4>2
      <4> QED
        BY <4>1, <4>3
    <3>2. \A i \in 1 .. a \union b .. n : s[i] \in S \ {k}
      <4> TAKE i \in 1 .. a \union b .. n
      <4>1. i \in 1 .. n /\ i # p
        BY <2>1, <2>2, <2>5, <2>7
      <4> QED
        BY <1>2, <2>1, <2>2, <2>3, <4>1
    <3> QED
      BY <2>6, <3>1, <3>2
  <2>11. \A x \in A, y \in B : <<x, y>> \in R
    <3>1. \A i \in 1 .. a, j \in b .. n : <<s[i], s[j]>> \in R
      <4> TAKE i \in 1 .. a, j \in b .. n
      <4>1. i \in 1 .. n /\ j \in 1 .. n /\ i < j
        BY <2>1, <2>2, <2>5, <2>7
      <4> QED
        BY <1>1, <2>2, <4>1
    <3> QED
      BY <2>6, <3>1
  <2>12. Orders(R, A \union B)
    BY <2>10 DEF Orders
  <2>13. PICK u, v : u = SubSeq(s, 1, a) /\ v = SubSeq(s, b, n)
    OBVIOUS
  <2>14. Lists(u \o v, A \union B, R)
    BY <2>8, <2>9, <2>11, <2>12, <2>13, ListsConcat
  <2> QED
    BY <2>4, <2>5, <2>10, <2>13, <2>14
<1> QED
  BY <1>3, <1>4

\* The list with a member moved or put behind all others.
LEMMA RenewedLists ==
    ASSUME NEW S, IsFiniteSet(S), NEW R, Orders(R, S), NEW s, Lists(s, S, R), NEW k,
           NEW Q, Orders(Q, S \union {k}), \A j \in S \ {k} : <<j, k>> \in Q,
           \A i, j \in S \ {k} : <<i, j>> \in R <=> <<i, j>> \in Q
    PROVE  Lists(Append(Lru!RemoveFirst(s, k), k), S \union {k}, Q)
<1>1. PICK u, A, B : u = Lru!RemoveFirst(s, k) /\ A = S \ {k} /\ B = {k}
  OBVIOUS
<1>2. Lists(u, A, R)
  BY <1>1, RemoveLists
<1>3. Lists(u, A, Q)
  BY <1>1, <1>2, ListsAgree
<1>4. IsFiniteSet(A) /\ IsFiniteSet(B) /\ Cardinality(B) = 1
  BY <1>1, FS_RemoveElement, FS_Singleton
<1>5. Lists(<<k>>, B, Q)
  <2>1. Under(k, B, Q) = {}
    BY <1>1 DEF Under, Orders
  <2>2. Cardinality({}) = 0
    BY FS_EmptySet
  <2>3. <<k>> \in [1 .. 1 -> {k}] /\ <<k>>[0 + 1] = k
    OBVIOUS
  <2>4. <<k>> \in [1 .. Cardinality(B) -> B]
    BY <1>1, <1>4, <2>3
  <2>5. \A d \in B : <<k>>[Cardinality(Under(d, B, Q)) + 1] = d
    BY <1>1, <2>1, <2>2, <2>3
  <2> QED
    BY <2>4, <2>5 DEF Lists
<1>6. A \union B = S \union {k} /\ \A a \in A, b \in B : <<a, b>> \in Q
  BY <1>1
<1>7. Orders(Q, A \union B)
  BY <1>6
<1>8. PICK v : v = <<k>>
  OBVIOUS
<1>9. Lists(u \o v, A \union B, Q)
  BY <1>3, <1>4, <1>5, <1>6, <1>7, <1>8, ListsConcat
<1>10. u \in Seq(A)
  <2>1. Orders(R, A)
    BY <1>1 DEF Orders
  <2> QED
    BY <1>2, <1>4, <2>1, ListsInOrder
<1>11. u \o <<k>> = Append(u, k)
  <2>1. u \in Seq(S \union {k}) /\ k \in S \union {k}
    BY <1>1, <1>10
  <2> QED
    BY <2>1
<1> QED
  BY <1>1, <1>6, <1>8, <1>9, <1>11

\* The cached keys by the clock of their last access.
Older(l) == {p \in Keys \X Keys : l[p[1]] < l[p[2]]}

\* Clocks order the keys: no two entries share one.
LEMMA OlderOrders ==
    ASSUME NEW l, NEW rec, NEW total, NEW n \in Nat, Holds(l, rec, total, n)
    PROVE  /\ \A j, k \in DOMAIN l : <<j, k>> \in Older(l) <=> l[j] < l[k]
           /\ Orders(Older(l), DOMAIN l)
<1>1. \A j, k \in DOMAIN l : <<j, k>> \in Older(l) <=> l[j] < l[k]
  <2>1. \A j, k \in Keys : <<j, k>> \in Older(l) <=> l[j] < l[k]
    BY DEF Older
  <2> QED
    BY <2>1 DEF Holds
<1>2. \A k \in DOMAIN l : l[k] \in Nat
  BY DEF Holds
<1>3. \A j, k \in DOMAIN l : j # k => l[j] # l[k]
  BY DEF Holds, Mirror
<1> QED
  BY <1>1, <1>2, <1>3 DEF Orders

\* LruOrder lists the cached keys, the least recently used first.
LEMMA LruOrderLists ==
    CacheInv => Lists(LruOrder, Cached, Older(last)) /\ IsFiniteSet(Cached)
<1> SUFFICES ASSUME CacheInv PROVE Lists(LruOrder, Cached, Older(last)) /\ IsFiniteSet(Cached)
  OBVIOUS
<1>1. Holds(last, recency, bytes, clock) /\ clock \in Nat
  BY DEF CacheInv
<1>2. PICK S, R : S = DOMAIN last /\ R = Older(last)
  OBVIOUS
<1>3. IsFiniteSet(S) /\ Orders(R, S) /\ \A j, k \in S : <<j, k>> \in R <=> last[j] < last[k]
  BY <1>1, <1>2, CacheFinite, OlderOrders
<1>4. \A k \in S : last[k] \in Nat /\ \A j \in S : j # k => last[j] # last[k]
  BY <1>1, <1>2 DEF Holds, Mirror
<1>5. Cardinality(S) \in Nat
  BY <1>3, FS_CardinalityType
<1> DEFINE Upto(k) == Cardinality({j \in S : last[j] <= last[k]})
<1>6. ASSUME NEW k \in S PROVE Upto(k) = Cardinality(Under(k, S, R)) + 1
  <2>1. {j \in S : last[j] <= last[k]} = Under(k, S, R) \union {k}
    BY <1>3, <1>4 DEF Under
  <2>2. k \notin Under(k, S, R)
    BY <1>3 DEF Under, Orders
  <2>3. IsFiniteSet(Under(k, S, R))
    BY <1>3, UnderCounts
  <2> QED
    BY <2>1, <2>2, <2>3, FS_AddElement
<1>7. LruOrder = [i \in 1 .. Cardinality(S) |-> CHOOSE k \in S : Upto(k) = i]
  BY <1>2 DEF LruOrder, Cached
<1> HIDE DEF Upto
<1>8. ASSUME NEW i \in 1 .. Cardinality(S)
      PROVE  LruOrder[i] \in S /\ Upto(LruOrder[i]) = i
  <2>1. i - 1 \in 0 .. Cardinality(S) - 1
    BY <1>5
  <2>2. PICK k \in S : Cardinality(Under(k, S, R)) = i - 1
    BY <1>3, <2>1, RanksAreFilled
  <2>3. Upto(k) = i
    BY <1>6, <2>2
  <2> QED
    BY <1>7, <2>3
<1>9. ASSUME NEW k \in S PROVE LruOrder[Cardinality(Under(k, S, R)) + 1] = k
  <2>1. PICK i : i = Cardinality(Under(k, S, R)) + 1
    OBVIOUS
  <2>2. i \in 1 .. Cardinality(S)
    BY <1>3, <1>5, <2>1, UnderCounts
  <2>3. LruOrder[i] \in S /\ Upto(LruOrder[i]) = i
    BY <1>8, <2>2
  <2>4. \A a, b \in S : Cardinality(Under(a, S, R)) = Cardinality(Under(b, S, R)) => a = b
    BY <1>3, RanksCount
  <2>5. Cardinality(Under(LruOrder[i], S, R)) + 1 = Cardinality(Under(k, S, R)) + 1
    BY <1>6, <2>1, <2>3
  <2>6. Cardinality(Under(LruOrder[i], S, R)) \in Nat /\ Cardinality(Under(k, S, R)) \in Nat
    BY <1>3, <2>3, UnderCounts, FS_CardinalityType
  <2> QED
    BY <2>1, <2>3, <2>4, <2>5, <2>6
<1>10. LruOrder \in [1 .. Cardinality(S) -> S]
  BY <1>7, <1>8
<1> QED
  BY <1>2, <1>3, <1>9, <1>10 DEF Lists, Cached

\* A list weighs what its keys do.
LEMMA ListPayload ==
    ASSUME NEW s
    PROVE  Lru!Payload(s) = SumOver(Size, Lru!ToSet(s))
BY DEF Lru!Payload, SumOver, MapThenSumSet, MapThenFoldSet, Lru!MapThenSumSet, Lru!MapThenFoldSet

\* Where the oldest keys K are more than the budget allows and the others are
\* not, Fitting keeps the others.
LEMMA FittingLists ==
    ASSUME NEW S \in SUBSET Keys, IsFiniteSet(S), NEW R, Orders(R, S), NEW s, Lists(s, S, R),
           NEW budget \in Nat, NEW K \in SUBSET S,
           \A a \in K, b \in S \ K : <<a, b>> \in R,
           SumOver(Size, S \ K) <= budget,
           \A k \in K : SumOver(Size, S \ Under(k, S, R)) > budget
    PROVE  Lists(Lru!Fitting(s, budget), S \ K, R)
<1> DEFINE m == Cardinality(K)
           n == Cardinality(S)
           Beyond(i) == {s[j] : j \in i + 1 .. n}
<1>1. /\ n \in Nat /\ s \in Seq(S) /\ Len(s) = n
      /\ \A d \in S : \E i \in 1 .. n : s[i] = d
      /\ \A i, j \in 1 .. n : i < j => <<s[i], s[j]>> \in R
  BY ListsInOrder
<1>2. \A i \in 1 .. n : s[i] \in S
  BY DEF Lists
<1>3. IsFiniteSet(K) /\ m \in Nat /\ m <= n
  BY FS_Subset, FS_CardinalityType
<1>4. \A i, j \in 1 .. n : i # j => s[i] # s[j]
  <2> SUFFICES ASSUME NEW i \in 1 .. n, NEW j \in 1 .. n, i # j PROVE s[i] # s[j]
    OBVIOUS
  <2>1. i < j \/ j < i
    BY <1>1
  <2> QED
    BY <1>1, <1>2, <2>1 DEF Orders
<1>5. K = {s[j] : j \in 1 .. m}
  <2>1. ASSUME NEW k \in K PROVE \E j \in 1 .. m : s[j] = k
    <3>1. Under(k, S, R) = Under(k, K, R)
      BY DEF Under, Orders
    <3>2. Orders(R, K)
      BY DEF Orders
    <3>3. Cardinality(Under(k, K, R)) \in 0 .. m - 1
      BY <1>3, <3>2, UnderCounts
    <3>4. s[Cardinality(Under(k, S, R)) + 1] = k
      BY DEF Lists
    <3>5. Cardinality(Under(k, S, R)) + 1 \in 1 .. m
      BY <1>3, <3>1, <3>3
    <3> QED
      BY <3>4, <3>5
  <2>2. PICK V : V = {s[j] : j \in 1 .. m}
    OBVIOUS
  <2>3. K \in SUBSET V
    BY <2>1, <2>2
  <2>4. IsFiniteSet(V) /\ Cardinality(V) = m
    <3>1. 1 \in Nat /\ 1 <= 1 /\ 1 <= m + 1
      BY <1>3
    <3>2. IsFiniteSet(V) /\ Cardinality(V) = m + 1 - 1
      BY <1>3, <2>2, <3>1, PieceCounts
    <3> QED
      BY <1>3, <3>2
  <2>5. K = V
    BY <2>3, <2>4, FS_Subset
  <2> QED
    BY <2>2, <2>5
<1> HIDE DEF m, n
<1>6. \A i \in 0 .. n : Lru!ToSet(SubSeq(s, i + 1, Len(s))) = Beyond(i)
  <2> TAKE i \in 0 .. n
  <2>1. SubSeq(s, i + 1, n) = [j \in 1 .. n - i |-> s[i + j]]
    BY <1>1
  <2>2. \A j \in i + 1 .. n : j - i \in 1 .. n - i /\ i + (j - i) = j
    BY <1>1
  <2>3. \A j \in 1 .. n - i : i + j \in i + 1 .. n
    BY <1>1
  <2>4. DOMAIN SubSeq(s, i + 1, n) = 1 .. n - i
    BY <2>1
  <2>5. Lru!ToSet(SubSeq(s, i + 1, n)) = {SubSeq(s, i + 1, n)[j] : j \in 1 .. n - i}
    BY <2>4 DEF Lru!ToSet
  <2>6. {SubSeq(s, i + 1, n)[j] : j \in 1 .. n - i} = {s[i + j] : j \in 1 .. n - i}
    BY <2>1
  <2>7. {s[i + j] : j \in 1 .. n - i} = Beyond(i)
    BY <2>2, <2>3
  <2> QED
    BY <1>1, <2>5, <2>6, <2>7
<1>7. Beyond(m) = S \ K
  <2>1. \A i \in m + 1 .. n : s[i] \in S /\ s[i] \notin K
    <3> TAKE i \in m + 1 .. n
    <3>1. i \in 1 .. n /\ \A j \in 1 .. m : j \in 1 .. n /\ j # i
      BY <1>1, <1>3
    <3> QED
      BY <1>2, <1>4, <1>5, <3>1
  <2>2. \A d \in S \ K : \E i \in m + 1 .. n : s[i] = d
    <3> TAKE d \in S \ K
    <3>1. PICK i \in 1 .. n : s[i] = d
      BY <1>1
    <3>2. i \notin 1 .. m
      BY <1>5, <3>1
    <3>3. i \in m + 1 .. n
      BY <1>1, <1>3, <3>2
    <3> QED
      BY <3>1, <3>3
  <2> QED
    BY <2>1, <2>2
<1>8. \A i \in 0 .. n : Lru!Payload(SubSeq(s, i + 1, Len(s))) = SumOver(Size, Beyond(i))
  BY <1>6, ListPayload
<1>9. ASSUME NEW i \in 0 .. m - 1 PROVE SumOver(Size, Beyond(i)) > budget
  <2>1. i + 1 \in 1 .. m /\ i + 1 \in 1 .. n
    BY <1>1, <1>3
  <2>2. s[i + 1] \in K
    BY <1>5, <2>1
  <2>3. Beyond(i) = S \ Under(s[i + 1], S, R)
    <3>1. \A j \in 1 .. n : <<s[j], s[i + 1]>> \in R <=> j < i + 1
      <4> TAKE j \in 1 .. n
      <4>1. CASE j < i + 1
        BY <1>1, <2>1, <4>1
      <4>2. CASE j = i + 1
        BY <1>2, <4>2 DEF Orders
      <4>3. CASE i + 1 < j
        <5>1. s[j] \in S /\ s[i + 1] \in S /\ <<s[i + 1], s[j]>> \in R
          BY <1>1, <1>2, <2>1, <4>3
        <5>2. <<s[j], s[i + 1]>> \notin R
          BY <5>1 DEF Orders
        <5> QED
          BY <1>1, <2>1, <4>3, <5>2
      <4> QED
        BY <1>1, <2>1, <4>1, <4>2, <4>3
    <3>2. i + 1 .. n = {j \in 1 .. n : ~(j < i + 1)}
      BY <1>1, <2>1
    <3>3. \A d \in S : d \in Beyond(i) <=> <<d, s[i + 1]>> \notin R
      <4> TAKE d \in S
      <4>1. PICK j \in 1 .. n : s[j] = d
        BY <1>1
      <4>2. d \in Beyond(i) <=> j \in i + 1 .. n
        BY <1>4, <3>2, <4>1
      <4> QED
        BY <3>1, <3>2, <4>1, <4>2
    <3>4. Beyond(i) \in SUBSET S
      BY <1>2, <3>2
    <3> HIDE DEF Beyond
    <3> QED
      BY <3>3, <3>4 DEF Under
  <2> QED
    BY <2>2, <2>3
<1> DEFINE Cuts(i) == /\ Lru!Payload(SubSeq(s, i + 1, Len(s))) <= budget
                      /\ \A j \in 0 .. i - 1 : Lru!Payload(SubSeq(s, j + 1, Len(s))) > budget
           cut == CHOOSE i \in 0 .. Len(s) : Cuts(i)
<1>10. \A i \in 0 .. n : SumOver(Size, Beyond(i)) \in Nat
  <2> TAKE i \in 0 .. n
  <2>1. PICK V : V = Beyond(i)
    OBVIOUS
  <2>2. V \in SUBSET S
    BY <1>1, <1>2, <2>1
  <2>3. SumOver(Size, V) \in Nat
    BY <2>2, PayloadMono
  <2> QED
    BY <2>1, <2>3
<1>11. SumOver(Size, Beyond(m)) <= budget
  BY <1>7
<1> HIDE DEF Beyond
<1>12. Cuts(m) /\ m \in 0 .. Len(s)
  <2>1. m \in 0 .. n /\ \A j \in 0 .. m - 1 : j \in 0 .. n
    BY <1>1, <1>3
  <2> QED
    BY <1>1, <1>8, <1>9, <1>11, <2>1
<1>13. ASSUME NEW i \in 0 .. n, Cuts(i) PROVE i = m
  <2>1. CASE i < m
    <3>1. i \in 0 .. m - 1
      BY <1>3, <2>1
    <3>2. SumOver(Size, Beyond(i)) > budget
      BY <1>9, <3>1
    <3>3. SumOver(Size, Beyond(i)) <= budget
      BY <1>8, <1>13
    <3> QED
      BY <1>10, <3>2, <3>3
  <2>2. CASE m < i
    <3>1. m \in 0 .. i - 1 /\ m \in 0 .. n
      BY <1>1, <1>3, <2>2
    <3>2. SumOver(Size, Beyond(m)) > budget
      BY <1>8, <1>13, <3>1
    <3> QED
      BY <1>10, <1>11, <3>1, <3>2
  <2> QED
    BY <1>1, <1>3, <2>1, <2>2
<1> HIDE DEF Cuts
<1>14. cut = m
  BY <1>1, <1>12, <1>13
<1>15. Lru!Fitting(s, budget) = SubSeq(s, cut + 1, Len(s))
  BY DEF Lru!Fitting, Cuts
<1>16. Lists(SubSeq(s, m + 1, n), S \ K, R)
  <2>1. PICK a, T : a = m + 1 /\ T = {s[j] : j \in a .. n}
    OBVIOUS
  <2>2. a \in Nat /\ 1 <= a /\ n <= Cardinality(S) /\ a <= n + 1
    BY <1>1, <1>3, <2>1 DEF n
  <2>3. Lists(SubSeq(s, a, n), T, R)
    BY <1>1, <2>1, <2>2, PieceLists
  <2>4. T = S \ K
    BY <1>7, <2>1 DEF Beyond
  <2> QED
    BY <2>1, <2>3, <2>4
<1> QED
  BY <1>1, <1>14, <1>15, <1>16

\* After an eviction the list is what fits of the list before it.
LEMMA EvictFits ==
    ASSUME CacheInv', NEW l, NEW rec, NEW total, NEW n \in Nat, NEW budget \in Nat,
           Holds(l, rec, total, n), Evict(l, rec, total, budget),
           NEW s, Lists(s, DOMAIN l, Older(l))
    PROVE  LruOrder' = Lru!Fitting(s, budget)
<1>0. PICK K : Evicts(K, l, last', budget)
  BY EvictKeeps
<1>1. /\ K \in SUBSET DOMAIN l
      /\ DOMAIN last' = DOMAIN l \ K
      /\ \A k \in DOMAIN l \ K : last'[k] = l[k]
      /\ \A a \in K, b \in DOMAIN l \ K : l[a] < l[b]
      /\ \A k \in K : SumOver(Size, {j \in DOMAIN l : ~(l[j] < l[k])}) > budget
  BY <1>0 DEF Evicts
<1>2. PICK S, R : S = DOMAIN l /\ R = Older(l)
  OBVIOUS
<1>3. /\ S \in SUBSET Keys /\ IsFiniteSet(S) /\ Orders(R, S)
      /\ \A j, k \in S : <<j, k>> \in R <=> l[j] < l[k]
  BY <1>2, CacheFinite, OlderOrders DEF Holds
<1>4. SumOver(Size, S \ K) <= budget
  <2>1. Holds(last', recency', bytes', n) /\ bytes' <= budget
    BY EvictKeeps
  <2>2. SumOver(Size, DOMAIN last') = bytes'
    BY <2>1 DEF Holds
  <2> QED
    BY <1>1, <1>2, <2>1, <2>2
<1>5. \A k \in K : SumOver(Size, S \ Under(k, S, R)) > budget
  <2> TAKE k \in K
  <2>1. k \in S
    BY <1>1, <1>2
  <2>2. S \ Under(k, S, R) = {j \in DOMAIN l : ~(l[j] < l[k])}
    BY <1>2, <1>3, <2>1 DEF Under
  <2> QED
    BY <1>1, <2>2
<1>6. \A a \in K, b \in S \ K : <<a, b>> \in R
  BY <1>1, <1>2, <1>3
<1>7. K \in SUBSET S /\ Lists(s, S, R)
  BY <1>1, <1>2
<1>8. Lists(Lru!Fitting(s, budget), S \ K, R)
  BY <1>3, <1>4, <1>5, <1>6, <1>7, FittingLists
<1>9. Lists(LruOrder', Cached', Older(last)') /\ IsFiniteSet(Cached')
  <2>1. (CacheInv => Lists(LruOrder, Cached, Older(last)) /\ IsFiniteSet(Cached))'
    BY LruOrderLists, PTL
  <2> QED
    BY <2>1
<1>10. PICK T, Q, v : T = S \ K /\ Q = Older(last)' /\ v = LruOrder'
  OBVIOUS
<1>11. Cached' = T
  BY <1>1, <1>2, <1>10 DEF Cached
<1>12. \A a, b \in T : <<a, b>> \in R <=> <<a, b>> \in Q
  <2>1. T \in SUBSET Keys
    BY <1>3, <1>10
  <2>2. \A a, b \in Keys : <<a, b>> \in Q <=> last'[a] < last'[b]
    BY <1>10 DEF Older
  <2>3. \A a \in T : last'[a] = l[a] /\ a \in S
    BY <1>1, <1>2, <1>10
  <2> QED
    BY <1>3, <2>1, <2>2, <2>3
<1>13. Lists(v, T, Q) /\ IsFiniteSet(T)
  BY <1>9, <1>10, <1>11
<1>14. Lists(v, T, R)
  BY <1>12, <1>13, ListsAgree
<1>15. Orders(R, T)
  BY <1>3, <1>10 DEF Orders
<1>16. Lists(Lru!Fitting(s, budget), T, R)
  BY <1>8, <1>10
<1>17. v = Lru!Fitting(s, budget)
  BY <1>13, <1>14, <1>15, <1>16, ListsUnique
<1> QED
  BY <1>10, <1>17

\* The keys with one at the newest clock, in the order of their clocks.
LEMMA NewestLists ==
    ASSUME CacheInv, NEW k \in Keys,
           NEW ll, ll = [z \in DOMAIN last \union {k} |-> IF z = k THEN clock + 1 ELSE last[z]]
    PROVE  Lists(Lru!Renewed(k), DOMAIN ll, Older(ll))
<1>1. PICK S, R, s : S = Cached /\ R = Older(last) /\ s = LruOrder
  OBVIOUS
<1>2. Lists(s, S, R) /\ IsFiniteSet(S)
  BY <1>1, LruOrderLists
<1>3. Holds(last, recency, bytes, clock) /\ clock \in Nat
  BY DEF CacheInv
<1>4. Orders(R, S) /\ \A i, j \in S : <<i, j>> \in R <=> last[i] < last[j]
  BY <1>1, <1>3, OlderOrders DEF Cached
<1>5. PICK Q : Q = Older(ll)
  OBVIOUS
<1>6. S \in SUBSET Keys /\ \A i \in S : last[i] \in Nat /\ last[i] < clock + 1
  BY <1>1, <1>3 DEF Holds, Cached
<1>7. \A i, j \in Keys : <<i, j>> \in Q <=> ll[i] < ll[j]
  BY <1>5 DEF Older
<1>8. DOMAIN ll = S \union {k} /\ ll[k] = clock + 1 /\ \A i \in S \ {k} : ll[i] = last[i]
  BY <1>1 DEF Cached
<1>9. \A i, j \in S \ {k} : <<i, j>> \in R <=> <<i, j>> \in Q
  BY <1>4, <1>6, <1>7, <1>8
<1>10. \A j \in S \ {k} : <<j, k>> \in Q
  BY <1>6, <1>7, <1>8
<1>11. Orders(Q, S \union {k})
  <2>1. \A a \in S \union {k} : <<a, a>> \notin Q
    BY <1>3, <1>6, <1>7, <1>8
  <2>2. \A a, b \in S \union {k} : a # b => <<a, b>> \in Q \/ <<b, a>> \in Q
    BY <1>4, <1>9, <1>10 DEF Orders
  <2>3. \A a \in S \union {k} : ll[a] \in Nat /\ a \in Keys
    BY <1>3, <1>6, <1>8
  <2>4. ASSUME NEW a \in S \union {k}, NEW b \in S \union {k}, NEW c \in S \union {k},
               <<a, b>> \in Q, <<b, c>> \in Q
        PROVE  <<a, c>> \in Q
    <3>1. ll[a] \in Nat /\ ll[b] \in Nat /\ ll[c] \in Nat /\ ll[a] < ll[b] /\ ll[b] < ll[c]
      BY <1>7, <2>3, <2>4
    <3>2. ll[a] < ll[c]
      BY <3>1
    <3> QED
      BY <1>7, <2>3, <3>2
  <2> QED
    BY <2>1, <2>2, <2>4 DEF Orders
<1>12. Lists(Append(Lru!RemoveFirst(s, k), k), S \union {k}, Q)
  BY <1>2, <1>4, <1>9, <1>10, <1>11, RenewedLists
<1> QED
  BY <1>1, <1>5, <1>8, <1>12 DEF Lru!Renewed

\* The least recently used list of the next state is whatever lists its keys.
LEMMA LruOrderIs ==
    ASSUME CacheInv', NEW s, Lists(s, Cached', Older(last)')
    PROVE  LruOrder' = s
<1>1. Lists(LruOrder', Cached', Older(last)') /\ IsFiniteSet(Cached')
  <2>1. (CacheInv => Lists(LruOrder, Cached, Older(last)) /\ IsFiniteSet(Cached))'
    BY LruOrderLists, PTL
  <2> QED
    BY <2>1
<1>2. Orders(Older(last)', Cached')
  <2>1. Holds(last', recency', bytes', clock') /\ clock' \in Nat
    BY DEF CacheInv
  <2>2. Orders(Older(last'), DOMAIN last')
    BY <2>1, OlderOrders
  <2> QED
    BY <2>2 DEF Older, Cached
<1>3. PICK S, R, t : S = Cached' /\ R = Older(last)' /\ t = LruOrder'
  OBVIOUS
<1>4. t = s
  BY <1>1, <1>2, <1>3, ListsUnique
<1> QED
  BY <1>3, <1>4

\* A hit moves the key to the end of the list.
LEMMA GetTouches ==
    ASSUME CacheInv, NEW k \in Keys, Get(k)
    PROVE  Lru!Touch(k)
<1>1. CacheInv'
  BY GetKeeps
<1>2. /\ k \in DOMAIN last /\ last' = [last EXCEPT ![k] = clock + 1] /\ maxBytes' = maxBytes
      /\ last = [z \in DOMAIN last |-> last[z]]
  BY DEF Get, Cached, CacheInv, Holds
<1>3. last' = [z \in DOMAIN last \union {k} |-> IF z = k THEN clock + 1 ELSE last[z]]
  <2>1. DOMAIN last \union {k} = DOMAIN last
    BY <1>2
  <2> QED
    BY <1>2, <2>1
<1>4. Lists(Lru!Renewed(k), DOMAIN last', Older(last'))
  BY <1>3, NewestLists
<1>5. LruOrder' = Lru!Renewed(k)
  <2>1. Lists(Lru!Renewed(k), Cached', Older(last)')
    BY <1>4 DEF Cached, Older
  <2>2. PICK s : s = Lru!Renewed(k)
    OBVIOUS
  <2> QED
    BY <1>1, <2>1, <2>2, LruOrderIs
<1>6. Lru!Contains(LruOrder, k)
  <2>1. Holds(last, recency, bytes, clock) /\ clock \in Nat
    BY DEF CacheInv
  <2>2. PICK S, R, s : S = Cached /\ R = Older(last) /\ s = LruOrder
    OBVIOUS
  <2>3. Lists(s, S, R) /\ IsFiniteSet(S) /\ Orders(R, S)
    BY <2>1, <2>2, LruOrderLists, OlderOrders DEF CacheInv, Cached
  <2>4. Len(s) = Cardinality(S) /\ \E i \in 1 .. Cardinality(S) : s[i] = k
    BY <1>2, <2>2, <2>3, ListsInOrder DEF Cached
  <2> QED
    BY <2>2, <2>4 DEF Lru!Contains
<1> QED
  BY <1>2, <1>5, <1>6 DEF Lru!Touch

\* A fill puts the key at the end of the list and keeps what fits of it.
LEMMA InsertPuts ==
    ASSUME CacheInv, NEW k \in Keys, Insert(k)
    PROVE  Lru!Put(k) \/ UNCHANGED cacheVars
<1>1. CASE maxBytes = 0 \/ Size[k] > maxBytes
  BY <1>1 DEF Insert
<1>2. CASE ~(maxBytes = 0 \/ Size[k] > maxBytes)
  <2>1. PICK ll, rr, tt :
           /\ ll = [z \in DOMAIN last \union {k} |-> IF z = k THEN clock + 1 ELSE last[z]]
           /\ Holds(ll, rr, tt, clock + 1) /\ Evict(ll, rr, tt, maxBytes)
           /\ maxBytes' = maxBytes
    BY <1>2, InsertEvicts
  <2>2. Lists(Lru!Renewed(k), DOMAIN ll, Older(ll))
    BY <2>1, NewestLists
  <2>3. clock + 1 \in Nat /\ maxBytes \in Nat
    BY DEF CacheInv
  <2>4. CacheInv'
    BY InsertKeeps
  <2>5. PICK s, n, b : s = Lru!Renewed(k) /\ n = clock + 1 /\ b = maxBytes
    OBVIOUS
  <2>6. LruOrder' = Lru!Fitting(s, b)
    BY <2>1, <2>2, <2>3, <2>4, <2>5, EvictFits
  <2>7. Size[k] <= maxBytes
    BY <1>2, <2>3, SizeAssumption
  <2> QED
    BY <2>1, <2>5, <2>6, <2>7 DEF Lru!Put
<1> QED
  BY <1>1, <1>2

\* A resize keeps what fits of the list.
LEMMA SetMaxBytesResizes ==
    ASSUME CacheInv, NEW b \in Budgets, SetMaxBytes(b)
    PROVE  Lru!Resize(b)
<1>1. Holds(last, recency, bytes, clock) /\ clock \in Nat /\ b \in Nat
  BY BudgetsAssumption DEF CacheInv
<1>2. CacheInv'
  BY SetMaxBytesKeeps
<1>3. PICK s, S, R : s = LruOrder /\ S = Cached /\ R = Older(last)
  OBVIOUS
<1>4. Lists(s, S, R) /\ IsFiniteSet(S) /\ S \in SUBSET Keys /\ Orders(R, S)
  BY <1>1, <1>3, LruOrderLists, OlderOrders DEF CacheInv, Cached, Holds
<1>5. CASE b = 0
  <2>1. last' = << >> /\ maxBytes' = 0
    BY <1>5 DEF SetMaxBytes
  <2>2. Lists(Lru!Fitting(s, b), S \ S, R)
    <3>1. \A k \in S : SumOver(Size, S \ Under(k, S, R)) > b
      <4> TAKE k \in S
      <4>1. PICK V : V = S \ Under(k, S, R)
        OBVIOUS
      <4>2. V \in SUBSET S /\ k \in V
        BY <1>4, <4>1 DEF Under, Orders
      <4>3. IsFiniteSet(V) /\ \A j \in V : Size[j] \in Nat
        BY <1>4, <4>2, SizeAssumption, FS_Subset
      <4>4. SumOver(Size, V) = Size[k] + SumOver(Size, V \ {k})
        BY <4>2, <4>3, SumOverStep
      <4>5. SumOver(Size, V \ {k}) \in Nat
        <5>1. V \ {k} \in SUBSET V /\ V \in SUBSET Keys
          BY <1>4, <4>2
        <5> QED
          BY <4>3, <5>1, PayloadMono
      <4>6. Size[k] \in Nat /\ Size[k] > 0
        BY <1>4, SizeAssumption
      <4> QED
        BY <1>5, <4>1, <4>4, <4>5, <4>6
    <3>2. S \ S = {} /\ S \in SUBSET S /\ \A a \in S, c \in S \ S : <<a, c>> \in R
      OBVIOUS
    <3>3. SumOver(Size, S \ S) <= b
      <4>1. SumOver(Size, {}) = 0
        BY FS_EmptySet, SumOverStep
      <4> QED
        BY <1>1, <3>2, <4>1
    <3> QED
      BY <1>1, <1>4, <3>1, <3>2, <3>3, FittingLists
  <2>3. PICK t : t = Lru!Fitting(s, b)
    OBVIOUS
  <2>4. Cached' = {} /\ S \ S = {}
    BY <2>1 DEF Cached
  <2>5. Lists(t, Cached', Older(last)')
    BY <2>2, <2>3, <2>4, ListsAgree
  <2>6. LruOrder' = t
    BY <1>2, <2>5, LruOrderIs
  <2> QED
    BY <1>3, <1>5, <2>1, <2>3, <2>6 DEF Lru!Resize
<1>6. CASE b # 0
  <2>1. Evict(last, recency, bytes, b) /\ maxBytes' = b
    BY <1>6 DEF SetMaxBytes
  <2>2. Lists(s, DOMAIN last, Older(last))
    BY <1>3, <1>4 DEF Cached
  <2>3. LruOrder' = Lru!Fitting(s, b)
    BY <1>1, <1>2, <2>1, <2>2, EvictFits
  <2> QED
    BY <1>3, <2>1, <2>3 DEF Lru!Resize
<1> QED
  BY <1>5, <1>6

\* An empty cache is the empty list.
LEMMA CacheInitLists == CacheInit => Lru!Init
<1> SUFFICES ASSUME CacheInit PROVE Lru!Init
  OBVIOUS
<1>1. Lists(LruOrder, Cached, Older(last))
  BY CacheInitHolds, LruOrderLists
<1>2. Cached = {} /\ Cardinality({}) = 0
  BY FS_EmptySet DEF CacheInit, Cached
<1>3. LruOrder \in [1 .. 0 -> {}]
  BY <1>1, <1>2 DEF Lists
<1>4. LruOrder = << >>
  BY <1>3
<1> QED
  BY <1>4 DEF CacheInit, Lru!Init

------------------------------------------------------------------------------
\* The range of a read that holds its permit, which Succeed inserts.
LEMMA HeldRange ==
    ASSUME LayerTypeOK, FlightInv, NEW f \in Reads, Succeed(f)
    PROVE  key[f] \in Keys
<1>1. f \in Unfinished
  BY DEF Succeed, Unfinished
<1> QED
  BY <1>1 DEF FlightInv, TableFinds, LayerTypeOK

\* What a step of the layer does to the cache.
LEMMA CacheSteps ==
    ASSUME LayerTypeOK, FlightInv, [Next]_vars
    PROVE  \/ \E k \in Keys : Get(k) \/ Insert(k)
           \/ \E b \in Budgets : SetMaxBytes(b)
           \/ UNCHANGED cacheVars
<1> USE DEF cacheVars
<1>1. ASSUME NEW c \in Callers, NEW k \in Keys, ReadCached(c, k)
      PROVE  Get(k)
  BY <1>1 DEF ReadCached
<1>2. ASSUME NEW c \in Callers, NEW k \in Keys, NEW f \in Reads, ReadJoin(c, k) \/ ReadStart(c, k, f)
      PROVE  UNCHANGED cacheVars
  BY <1>2 DEF ReadJoin, ReadStart
<1>3. ASSUME NEW f \in Reads, Repoll(f) \/ Fail(f)
      PROVE  UNCHANGED cacheVars
  BY <1>3 DEF Repoll, Fail
<1>4. ASSUME NEW f \in Reads, Succeed(f)
      PROVE  key[f] \in Keys /\ Insert(key[f])
  BY <1>4, HeldRange DEF Succeed
<1>5. ASSUME NEW c \in Callers, Settle(c) \/ Abandon(c)
      PROVE  UNCHANGED cacheVars
  BY <1>5 DEF Settle, Abandon
<1>6. ASSUME NEW l \in Limits, SetFetchWindow(l)
      PROVE  UNCHANGED cacheVars
  BY <1>6 DEF SetFetchWindow
<1>7. ASSUME NEW b \in Budgets, SetRangeCache(b)
      PROVE  SetMaxBytes(b)
  BY <1>7 DEF SetRangeCache
<1>8. CASE UNCHANGED vars
  BY <1>8 DEF vars
<1>9. ASSUME NEW c \in Callers, NEW k \in Keys, ReadJoin(c, k)
      PROVE  UNCHANGED cacheVars
  BY <1>9 DEF ReadJoin
<1> HIDE DEF cacheVars
<1> QED
  BY <1>1, <1>2, <1>3, <1>4, <1>5, <1>6, <1>7, <1>8, <1>9 DEF Next

\* The cache's invariant holds throughout.
LEMMA CacheInvariance == Spec => []CacheInv
<1>1. Init => CacheInv
  BY CacheInitHolds DEF Init
<1>2. LayerTypeOK /\ FlightInv /\ CacheInv /\ [Next]_vars => CacheInv'
  <2> SUFFICES ASSUME LayerTypeOK, FlightInv, CacheInv, [Next]_vars PROVE CacheInv'
    OBVIOUS
  <2>1. CASE UNCHANGED cacheVars
    BY <2>1 DEF cacheVars, CacheInv
  <2> QED
    BY <2>1, CacheSteps, GetKeeps, InsertKeeps, SetMaxBytesKeeps
<1> QED
  BY <1>1, <1>2, LayerTyped, FlightInvariance, PTL DEF Spec

\* The two maps of range_cache.rs mirror each other, its byte counter is the
\* payload they hold and never above the budget, whatever is read, filled and
\* resized: the unsigned subtractions of evict_to_budget cannot wrap.
THEOREM CacheAccountsAlways == Spec => []CacheAccounts
BY CacheInvariance, CacheInvSays, PTL

\* Every variable of the composed layer keeps its type.
THEOREM LayerTypeCorrect == Spec => []TypeOK
<1>1. CacheInv /\ GateTypeOK /\ LayerTypeOK => TypeOK
  BY CacheInvSays DEF TypeOK
<1> QED
  BY <1>1, CacheInvariance, LayerTyped, LayerGateFacts, PTL

\* The cache inside the layer is the strict LRU list its doc promises: every
\* step is a step of LruCache on the cached keys in the order of their clocks.
THEOREM CacheImplementsLru == Spec => ImplementsLru
<1>1. Init => Lru!Init
  BY CacheInitLists DEF Init
<1>2. LayerTypeOK /\ FlightInv /\ CacheInv /\ [Next]_vars => [Lru!Next]_<<LruOrder, maxBytes>>
  <2> SUFFICES ASSUME LayerTypeOK, FlightInv, CacheInv, [Next]_vars
               PROVE  [Lru!Next]_<<LruOrder, maxBytes>>
    OBVIOUS
  <2>1. ASSUME NEW k \in Keys, Get(k) PROVE Lru!Next
    BY <2>1, GetTouches DEF Lru!Next
  <2>2. CASE UNCHANGED cacheVars
    BY <2>2 DEF cacheVars, LruOrder, Cached
  <2>3. ASSUME NEW k \in Keys, Insert(k) PROVE Lru!Next \/ UNCHANGED cacheVars
    BY <2>3, InsertPuts DEF Lru!Next
  <2>4. ASSUME NEW b \in Budgets, SetMaxBytes(b) PROVE Lru!Next
    BY <2>4, SetMaxBytesResizes DEF Lru!Next
  <2> QED
    BY <2>1, <2>2, <2>3, <2>4, CacheSteps
<1> QED
  BY <1>1, <1>2, CacheInvariance, LayerTyped, FlightInvariance, PTL DEF Spec, ImplementsLru, Lru!Spec
===============================================================================
