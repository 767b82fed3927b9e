---------------------------- MODULE MCFetchLayer ----------------------------
(* Two callers, three flights and three ranges, one of them of double size. *)
EXTENDS FetchLayer

CONSTANTS c1, c2, f1, f2, f3, a, b, big

MCKeys == {a, b, big}
MCSize == [k \in MCKeys |-> IF k = big THEN 2 ELSE 1]
=============================================================================
