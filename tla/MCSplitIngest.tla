---------------------------- MODULE MCSplitIngest ----------------------------
(* SplitIngest with two source documents, of which d3 is keyless, over a     *)
(* base of one document (b1); b1 is never delivered again.                   *)
EXTENDS SplitIngest

CONSTANTS d1, d2, d3, b1

MCTwoDocs == {d1, d2, b1}
MCMixedDocs == {d1, d3, b1}

MCKeyless == {d3} \intersect Docs
MCOneBase == <<b1>>
==============================================================================
