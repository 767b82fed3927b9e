------------------------------- MODULE LruCache -------------------------------
(* What the doc of rust/src/range_cache.rs promises: strict least-recently-   *)
(* used eviction until the cached payload is back under the byte budget.      *)
EXTENDS Naturals, Sequences, SequencesExt

CONSTANTS Keys, Size, Budgets

VARIABLES
    lru,      \* the cached keys, least recently used first
    budget    \* 0: caching is disabled

Payload(s) == MapThenSumSet(LAMBDA k : Size[k], ToSet(s))

\* The longest tail of s that fits b: entries go from the old end, no sooner
\* and no later than the budget asks.
Fitting(s, b) ==
    LET cut == CHOOSE n \in 0 .. Len(s) :
                 /\ Payload(SubSeq(s, n + 1, Len(s))) <= b
                 /\ \A m \in 0 .. n - 1 : Payload(SubSeq(s, m + 1, Len(s))) > b
    IN SubSeq(s, cut + 1, Len(s))

Init == lru = << >> /\ budget \in Budgets

\* The list with k as its youngest.
Renewed(k) == Append(RemoveFirst(lru, k), k)

Touch(k) == Contains(lru, k) /\ lru' = Renewed(k) /\ UNCHANGED budget

Put(k) == Size[k] <= budget /\ lru' = Fitting(Renewed(k), budget) /\ UNCHANGED budget

Resize(b) == budget' = b /\ lru' = Fitting(lru, b)

Next == (\E k \in Keys : Touch(k) \/ Put(k)) \/ (\E b \in Budgets : Resize(b))

Spec == Init /\ [][Next]_<<lru, budget>>
===============================================================================
