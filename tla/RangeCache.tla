------------------------------ MODULE RangeCache ------------------------------
(****************************************************************************)
(* The byte-budgeted cache of fetched ranges, rust/src/range_cache.rs: a    *)
(* hash map and an ordered map from access clocks to keys that must mirror  *)
(* each other.  A key is a (source, offset, len) range; its payload has len *)
(* bytes (network_read enforces it), so Size is a function of the key.      *)
(*                                                                          *)
(* A budget of 0 stands for the empty RANGE_CACHE slot of wasm.rs as well:  *)
(* no cache object ever has that budget, and both serve and store nothing.  *)
(****************************************************************************)
EXTENDS Naturals, FiniteSets, FiniteSetsExt, Functions

CONSTANTS
    Keys,         \* the ranges read
    Size,         \* bytes of each range
    Budgets,      \* the budgets setRangeCacheMb may be called with
    MaxClock      \* bound: the clock past which no further hit happens

ASSUME SizeAssumption == Size \in [Keys -> Nat \ {0}]
ASSUME BudgetsAssumption == Budgets \subseteq Nat

VARIABLES
    last,         \* RangeCache.map: cached key -> clock of its last access
    recency,      \* RangeCache.recency: clock -> key
    bytes,        \* RangeCache.bytes
    maxBytes,     \* RangeCache.max_bytes
    clock         \* RangeCache.clock

cacheVars == <<last, recency, bytes, maxBytes, clock>>

Cached == DOMAIN last
Drop(f, S) == Restrict(f, DOMAIN f \ S)
Set(f, x, y) == [z \in DOMAIN f \union {x} |-> IF z = x THEN y ELSE f[z]]

CacheTypeOK ==
    /\ Cached \subseteq Keys /\ last \in [Cached -> 1 .. clock]
    /\ DOMAIN recency \subseteq 1 .. clock /\ recency \in [DOMAIN recency -> Keys]
    /\ bytes \in Nat /\ maxBytes \in Nat /\ clock \in Nat

CacheInit ==
    /\ last = << >> /\ recency = << >>
    /\ bytes = 0 /\ clock = 0
    /\ maxBytes \in Budgets

\* The recency entries evict_to_budget removes: from the oldest up, each one
\* that finds the payload still over the budget.
Victims(l, rec, total, budget) ==
    LET payload(t) == IF rec[t] \in DOMAIN l THEN Size[rec[t]] ELSE 0
    IN {t \in DOMAIN rec :
          total - MapThenSumSet(payload, {u \in DOMAIN rec : u < t}) > budget}

\* evict_to_budget on the state <<l, rec, total>>.
Evict(l, rec, total, budget) ==
    LET gone == Victims(l, rec, total, budget)
        keys == {rec[t] : t \in gone} \intersect DOMAIN l
    IN /\ recency' = Drop(rec, gone)
       /\ last' = Drop(l, keys)
       /\ bytes' = total - MapThenSumSet(LAMBDA k : Size[k], keys)

\* Mutant: a hit leaves the old recency entry behind.
StaleGet(k) ==
    /\ maxBytes > 0 /\ k \in Cached
    /\ clock < MaxClock
    /\ clock' = clock + 1
    /\ last' = [last EXCEPT ![k] = clock + 1]
    /\ recency' = Set(recency, clock + 1, k)
    /\ UNCHANGED <<bytes, maxBytes>>

\* get: a hit moves the entry to the newest clock; a miss changes nothing
\* (the hit and miss counters are read-outs).
Get(k) ==
    /\ maxBytes > 0 /\ k \in Cached
    /\ clock < MaxClock
    /\ clock' = clock + 1
    /\ last' = [last EXCEPT ![k] = clock + 1]
    /\ recency' = Set(Drop(recency, {last[k]}), clock + 1, k)
    /\ UNCHANGED <<bytes, maxBytes>>

\* Mutant: the cache is not asked before the network.
AlwaysMisses(k) == k \in Keys

Misses(k) == maxBytes = 0 \/ k \notin Cached

\* insert: a range larger than the whole budget is not cached; a replaced entry
\* is taken out of the map, the recency list and the byte count first.
Insert(k) ==
    IF maxBytes = 0 \/ Size[k] > maxBytes
    THEN UNCHANGED cacheVars
    ELSE /\ clock' = clock + 1
         /\ LET old == {k} \intersect Cached
            IN Evict(Set(last, k, clock + 1),
                     Set(Drop(recency, {last[o] : o \in old}), clock + 1, k),
                     bytes - MapThenSumSet(LAMBDA o : Size[o], old) + Size[k],
                     maxBytes)
         /\ UNCHANGED maxBytes

\* Mutant: a smaller budget is stored but nothing is evicted for it.
LazySetMaxBytes(b) ==
    IF b = 0
    THEN last' = << >> /\ recency' = << >> /\ bytes' = 0 /\ clock' = 0 /\ maxBytes' = 0
    ELSE maxBytes' = b /\ UNCHANGED <<last, recency, bytes, clock>>

\* set_range_cache_mb: 0 drops the cache object; another size resizes it with
\* set_max_bytes, or installs an empty one where there was none.
SetMaxBytes(b) ==
    IF b = 0
    THEN last' = << >> /\ recency' = << >> /\ bytes' = 0 /\ clock' = 0 /\ maxBytes' = 0
    ELSE /\ maxBytes' = b
         /\ Evict(last, recency, bytes, b)
         /\ UNCHANGED clock

------------------------------------------------------------------------------
\* The two maps mirror each other, the byte counter is the payload they hold,
\* and that payload is within the budget: no entry is forgotten by the eviction
\* order or evicted twice, and the unsigned subtractions cannot wrap.
CacheAccounts ==
    /\ \A k \in Cached : last[k] \in DOMAIN recency /\ recency[last[k]] = k
    /\ \A t \in DOMAIN recency : recency[t] \in Cached /\ last[recency[t]] = t
    /\ bytes = MapThenSumSet(LAMBDA k : Size[k], Cached)
    /\ bytes <= maxBytes

\* The cached keys, least recently used first.
LruOrder ==
    [i \in 1 .. Cardinality(Cached) |->
       CHOOSE k \in Cached : Cardinality({j \in Cached : last[j] <= last[k]}) = i]

Lru == INSTANCE LruCache WITH lru <- LruOrder, budget <- maxBytes

\* The map, the recency list and the byte counter together are the strict LRU
\* cache the module's doc describes: every step evicts exactly the least
\* recently used entries, as many as the budget asks and no more.
ImplementsLru == Lru!Spec
===============================================================================
