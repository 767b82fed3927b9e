---------------------------- MODULE MCFacetPanel ----------------------------
(* Sidecars of one or two fields over at most eight documents in keys of two *)
(* documents: postings of no, one and several containers, seekable or not,   *)
(* in a split set of two splits and as one file.                             *)
EXTENDS FacetPanel

MCField(name, cats, seekable) ==
    [name |-> name, cats |-> [i \in DOMAIN cats |->
        [name |-> i, key |-> (i * 2) % 3, docs |-> cats[i], seekable |-> seekable]]]

MCDocs == {{}, {1}, {2, 5, 7}, {0, 3, 4, 6}, 0 .. 7}
MCFields == {<< MCField(1, <<a, b, {0, 2, 4}>>, s), MCField(2, <<c>>, TRUE) >> :
               a \in MCDocs, b \in MCDocs, c \in {{1}, {4, 6}}, s \in BOOLEAN}

MCSplit(lo, fields, present, digest, withPresence) ==
    LET side == WriteFacets(fields)
    IN [lo |-> lo, docs |-> 8, fields |-> fields, side |-> side, present |-> present,
        digest |-> IF digest = 0 \/ ~present THEN NoDigest
                   ELSE IF digest % 2 = 1 THEN FacetDigestV2(side, (digest + 1) \div 2)
                   ELSE FacetDigest(side, digest \div 2),
        presence |-> IF ~withPresence THEN NoPresence
                     ELSE {<<f, c>> \in {1, 2} \X {1, 2, 3} :
                             f \in DOMAIN fields /\ c \in DOMAIN fields[f].cats
                             /\ fields[f].cats[c].docs # {}}]

MCPanels ==
    {<< MCSplit(0, fields, d # 4 \/ fields[2].cats[1].docs = {1}, d, TRUE) >> : fields \in MCFields, d \in 0 .. 4}
    \union {<< MCSplit(0, f1, TRUE, d, TRUE), MCSplit(8, f2, p, 1, p) >> :
              f1 \in {f \in MCFields : Cardinality(f[1].cats[1].docs) = 4 /\ f[2].cats[1].docs = {1}},
              f2 \in {f \in MCFields : Cardinality(f[1].cats[2].docs) = 3 /\ f[2].cats[1].docs = {4, 6}},
              d \in {0, 1, 3}, p \in BOOLEAN}

MCIds == {{0, 1}, {2, 7}, {3, 4, 7}, {1, 7, 8, 15}, 0 .. 15}
MCCall(kind, ids, top, pairs, filters, want) ==
    [kind |-> kind, ids |-> ids, top |-> top, pairs |-> pairs, filters |-> filters, want |-> want]

\* Entries of a filter, as arrays of two or three elements and as objects.
MCEntry(shape, pair, flag) == [shape |-> shape, strings |-> TRUE, pair |-> pair, flag |-> flag]
MCFilters ==
    {{}, {MCEntry("array", <<1, 1>>, "absent"), MCEntry("object", <<1, 3>>, "other")},
     {MCEntry("array", <<1, 2>>, "false"), MCEntry("object", <<2, 1>>, "absent"),
      MCEntry("array", <<1, 3>>, "true")},
     {MCEntry("object", <<1, 2>>, "true"), MCEntry("array", <<2, 9>>, "true")},
     {MCEntry("array", <<1, 1>>, "absent"), MCEntry("object", <<2, 9>>, "false")}}
MCMalformed ==
    {{MCEntry("other", <<1, 1>>, "absent")}, {MCEntry("array", <<1, 1>>, "other")},
     {MCEntry("array", <<1, 1>>, "absent"), [MCEntry("object", <<1, 2>>, "absent") EXCEPT !.strings = FALSE]}}

MCCalls ==
    {MCCall("panel", ids, t, {}, {}, TRUE) : ids \in MCIds, t \in 0 .. 2}
    \union {MCCall("pairs", ids, 0, p, {}, TRUE) :
              ids \in MCIds, p \in {{<<1, 1>>}, {<<1, 3>>, <<2, 1>>}, {<<1, 2>>, <<1, 3>>, <<2, 2>>}}}
    \union {MCCall("ids", ids, 1, {}, fs, want) : ids \in MCIds \ {{0, 1}}, fs \in MCFilters, want \in BOOLEAN}
    \union {MCCall("ids", {2, 7}, 1, {}, fs, TRUE) : fs \in MCMalformed}
=============================================================================
