---------------------------- MODULE MCBuildSearch ----------------------------
(* Three keys and two categories; byte caps that hold one, two or all of the *)
(* documents, flat, growing with the tier, or larger than their own maximum. *)
EXTENDS BuildSearch

CONSTANTS k, l, m, x, y

MCDocs == {[keys |-> {}, cats |-> {}], [keys |-> {k}, cats |-> {x}],
           [keys |-> {k, l}, cats |-> {x, y}], [keys |-> {m}, cats |-> {}]}

MCConfig(policy, col, cap, max, bloom) ==
    [policy |-> policy, sortcol |-> col, byteCap |-> cap, byteCapMax |-> max, bloom |-> bloom]

MCConfigs ==
    {MCConfig("tiered", FALSE, 97, 194, TRUE), MCConfig("tiered", FALSE, 105, 0, FALSE),
     MCConfig("stable", TRUE, 105, 50, TRUE), MCConfig("stable", FALSE, 60, 240, TRUE)}

MCRequests == [keys: {{k}, {k, l}}, filter: {{}, {{y}}, {{x}, {y}}}, limit: {1, 3}]
==============================================================================
