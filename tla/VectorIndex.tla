----------------------------- MODULE VectorIndex -----------------------------
(****************************************************************************)
(* The similarity index (RRVI) and its re-rank sidecar (RRVR): the trainer  *)
(* and writers of rust/src/vector_build.rs and the reader of                *)
(* rust/src/vector.rs, for the L2 metric.                                   *)
(*                                                                          *)
(* A coordinate is an integer and a mean is rounded down, where the code    *)
(* rounds floats; a coordinate, a directory entry, a document id and a code *)
(* take one cell each.  A rotation is a sequence of rows.                   *)
(****************************************************************************)
EXTENDS PostingBytes

CONSTANTS
    BadVectors,     \* an error of a writer or of a search
    RerankGap       \* COALESCE_GAP

ASSUME VectorAssumption == RerankGap \in Nat

\* Squared distance, and the parts of a vector.
L2(p, q) == Total(<< >> \o [i \in DOMAIN p |-> (p[i] - q[i]) * (p[i] - q[i])])
Minus(p, q) == << >> \o [i \in DOMAIN p |-> p[i] - q[i]]
Plus(p, q) == << >> \o [i \in DOMAIN p |-> p[i] + q[i]]
Part(p, s, dsub) == SubSeq(p, (s - 1) * dsub + 1, s * dsub)
Chunks(cells, width) == << >> \o [i \in 1 .. Len(cells) \div width |-> Part(cells, i, width)]

\* nearest: the first of the nearest centroids.
Nearest(p, centroids) ==
    CHOOSE j \in DOMAIN centroids :
        \A i \in DOMAIN centroids : L2(p, centroids[j]) < L2(p, centroids[i])
                                    \/ (L2(p, centroids[j]) = L2(p, centroids[i]) /\ j <= i)

AssignAll(points, centroids) == << >> \o [i \in DOMAIN points |-> Nearest(points[i], centroids)]
Mean(points) ==
    << >> \o [x \in DOMAIN points[1] |-> Total(<< >> \o [i \in DOMAIN points |-> points[i][x]]) \div Len(points)]

\* The points the generator draws: for cluster c at first, when n = 0, and for
\* an empty one after the n-th iteration.
Draw(points, draws, n, c, k) == points[draws[((n * k + c) % Len(draws)) + 1]]
Seeds(points, k, draws) == << >> \o [c \in 1 .. k |-> Draw(points, draws, 0, c, k)]

\* An iteration of kmeans: every cluster moves to the mean of its points, an
\* empty one to a drawn point.
Moved(points, centroids, draws, n) ==
    LET assign == AssignAll(points, centroids)
        members(c) == SelectSeq(<< >> \o [i \in DOMAIN points |-> i], LAMBDA i : assign[i] = c)
    IN << >> \o [c \in DOMAIN centroids |->
           IF members(c) = << >> THEN Draw(points, draws, n, c, Len(centroids))
           ELSE Mean(<< >> \o [i \in DOMAIN members(c) |-> points[members(c)[i]]])]

\* Mutant: the assignment is the last iteration's, not the centroids'.
StaleKMeans(points, k, iters, draws) ==
    LET before == FoldLeft(LAMBDA cs, n : Moved(points, cs, draws, n), Seeds(points, k, draws),
                           [n \in 1 .. iters - 1 |-> n])
    IN [centroids |-> Moved(points, before, draws, iters), assign |-> AssignAll(points, before)]

\* kmeans: the assignment is computed again from the centroids it returns.
KMeans(points, k, iters, draws) ==
    LET last == FoldLeft(LAMBDA cs, n : Moved(points, cs, draws, n), Seeds(points, k, draws),
                         [n \in 1 .. iters |-> n])
    IN [centroids |-> last, assign |-> AssignAll(points, last)]

\* The scatter into lists, of build_ivfpq and build_ivfpq_from_parts.
Scatter(nlist, assign, items) ==
    << >> \o [c \in 1 .. nlist |->
        LET mine == SelectSeq(<< >> \o [i \in DOMAIN items |-> i], LAMBDA i : assign[i] = c)
        IN << >> \o [i \in DOMAIN mine |-> items[mine[i]]]]

\* The parameters both refuse; a code has from one to eight bits.
BadShape(p) == p.dim = 0 \/ p.m = 0 \/ p.dim % p.m # 0 \/ p.nlist = 0 \/ p.ksub \notin {2 ^ n : n \in 1 .. 8}

\* build_ivfpq: coarse clusters of the vectors, then one codebook for every
\* part of the residuals; the code of a part is its assignment.
Train(vectors, p) ==
    LET points == << >> \o [i \in DOMAIN vectors |-> vectors[i].v]
        nlist  == Min({p.nlist, Len(vectors)})
        iters  == Max({1, p.iters})
        residuals(coarse) ==
            << >> \o [i \in DOMAIN points |-> Minus(points[i], coarse.centroids[coarse.assign[i]])]
        books(res) == << >> \o [s \in 1 .. p.m |->
            KMeans(<< >> \o [i \in DOMAIN res |-> Part(res[i], s, p.dim \div p.m)], p.ksub, iters, p.draws)]
        model(coarse, fine) ==
            [dim |-> p.dim, nlist |-> nlist, m |-> p.m, ksub |-> p.ksub, n |-> Len(vectors), opq |-> << >>,
             centroids |-> coarse.centroids,
             codebooks |-> << >> \o [s \in 1 .. p.m |-> fine[s].centroids],
             lists |-> Scatter(nlist, coarse.assign,
                         << >> \o [i \in DOMAIN vectors |->
                             [id |-> vectors[i].id, code |-> << >> \o [s \in 1 .. p.m |-> fine[s].assign[i]]]])]
        trained(coarse) == model(coarse, books(residuals(coarse)))
    IN IF vectors = << >> \/ BadShape(p) \/ \E i \in DOMAIN vectors : Len(vectors[i].v) # p.dim
       THEN BadVectors
       ELSE trained(KMeans(points, nlist, iters, p.draws))

\* build_ivfpq_from_parts: a trained model from elsewhere, checked and scattered.
FromTrainedParts(t) ==
    IF \/ BadShape(t)
       \/ Len(FlattenSeq(t.centroids)) # t.nlist * t.dim
       \/ Len(FlattenSeq(FlattenSeq(t.codebooks))) # t.ksub * t.dim
       \/ t.opq # << >> /\ Len(FlattenSeq(t.opq)) # t.dim * t.dim
       \/ Len(t.assign) # Len(t.items) \/ ~(Range(t.assign) \subseteq 1 .. t.nlist)
       \/ \E e \in Range(t.items) : Len(e.code) # t.m \/ ~(Range(e.code) \subseteq 1 .. t.ksub)
    THEN BadVectors
    ELSE [dim |-> t.dim, nlist |-> t.nlist, m |-> t.m, ksub |-> t.ksub, n |-> Len(t.items), opq |-> t.opq,
          centroids |-> t.centroids, codebooks |-> t.codebooks,
          lists |-> Scatter(t.nlist, t.assign, t.items)]

\* Ivfpq::write: [header][rotation][centroids][codebooks][directory], then each
\* list's ids and codes.
WriteVectors(t) ==
    LET boot  == FlattenSeq(t.opq) \o FlattenSeq(t.centroids)
                 \o FlattenSeq(<< >> \o [s \in DOMAIN t.codebooks |-> FlattenSeq(t.codebooks[s])])
        body(c) == << >> \o [i \in DOMAIN t.lists[c] |-> t.lists[c][i].id]
                   \o FlattenSeq(<< >> \o [i \in DOMAIN t.lists[c] |-> t.lists[c][i].code])
        start(c) == 1 + Len(boot) + t.nlist + Total(<< >> \o [j \in 1 .. c - 1 |-> Len(t.lists[j]) * (1 + t.m)])
    IN << [dim |-> t.dim, nlist |-> t.nlist, m |-> t.m, ksub |-> t.ksub, n |-> t.n, rotated |-> t.opq # << >>] >>
       \o boot \o [c \in 1 .. t.nlist |-> [off |-> start(c), count |-> Len(t.lists[c])]]
       \o FlattenSeq(<< >> \o [c \in 1 .. t.nlist |-> body(c)])

\* write_rerank: the vectors themselves, by document.
WriteRerank(dim, vectors) ==
    IF \E i \in DOMAIN vectors : Len(vectors[i]) # dim THEN BadVectors
    ELSE << [dim |-> dim, n |-> Len(vectors)] >> \o FlattenSeq(vectors)

------------------------------------------------------------------------------
\* VectorIndex::open: the boot region is cut up by the header's numbers.
OpenVectors(file) ==
    LET h == file[1]
        rot == IF h.rotated THEN h.dim * h.dim ELSE 0
        cen == h.nlist * h.dim
        book == h.ksub * (h.dim \div h.m)
        boot == ReadAt(file, 1, rot + cen + h.m * book + h.nlist)
    IN [file |-> file, dim |-> h.dim, m |-> h.m, ksub |-> h.ksub, n |-> h.n,
        opq |-> Chunks(SubSeq(boot, 1, rot), h.dim),
        centroids |-> Chunks(SubSeq(boot, rot + 1, rot + cen), h.dim),
        codebooks |-> << >> \o [s \in 1 .. h.m |->
            Chunks(SubSeq(boot, rot + cen + (s - 1) * book + 1, rot + cen + s * book), h.dim \div h.m)],
        dir |-> SubSeq(boot, rot + cen + h.m * book + 1, Len(boot))]

Rotate(ix, q) ==
    IF ix.opq = << >> THEN q
    ELSE << >> \o [i \in DOMAIN ix.opq |-> Total(<< >> \o [x \in DOMAIN q |-> ix.opq[i][x] * q[x]])]

\* The k least candidates, by distance and then by id: a bounded heap.
Closest(cands, k) ==
    LET sorted == SortSeq(cands, LAMBDA a, b : a.dist < b.dist \/ (a.dist = b.dist /\ a.id < b.id))
    IN Cut(sorted, k)

NearestClusters(ix, q, nprobe) ==
    Closest(<< >> \o [j \in DOMAIN ix.centroids |-> [id |-> j, dist |-> L2(ix.centroids[j], q)]], nprobe)

\* adc_table: the distance of each part of a residual to every code.
AdcTable(ix, residual) ==
    << >> \o [s \in 1 .. ix.m |->
        << >> \o [k \in 1 .. ix.ksub |-> L2(Part(residual, s, ix.dim \div ix.m), ix.codebooks[s][k])]]

\* A list's block, its ids and then its codes, each scored by the table.
ListHits(ix, q, j) ==
    LET count == ix.dir[j].count
        block == ReadAt(ix.file, ix.dir[j].off, count * (1 + ix.m))
        table == AdcTable(ix, Minus(q, ix.centroids[j]))
    IN << >> \o [i \in 1 .. count |->
           [id |-> block[i],
            dist |-> Total(<< >> \o [s \in 1 .. ix.m |-> table[s][block[count + (i - 1) * ix.m + s]]])]]

\* search.
SearchVectors(ix, query, k, nprobe) ==
    LET q == Rotate(ix, query)
        probed == NearestClusters(ix, q, Min({nprobe, Len(ix.centroids)}))
        active == SelectSeq(probed, LAMBDA c : ix.dir[c.id].count > 0)
    IN IF Len(query) # ix.dim THEN BadVectors
       ELSE IF k = 0 \/ nprobe = 0 THEN << >>
       ELSE Closest(FlattenSeq(<< >> \o [i \in DOMAIN active |-> ListHits(ix, q, active[i].id)]), k)

\* RerankStore::open and get_many: one coalesced wave.
RerankVectors(file, ids) ==
    ReadCoalesced(file, << >> \o [i \in DOMAIN ids |->
                     [off |-> 1 + ids[i] * file[1].dim, len |-> file[1].dim]], RerankGap)

\* Mutant: the true vectors are compared with the rotated query.
RerankRotated(ix, file, query, k, nprobe, r) ==
    LET found == SearchVectors(ix, query, Max({r, k}), nprobe)
        ids == << >> \o [i \in DOMAIN found |-> found[i].id]
        vecs == RerankVectors(file, ids)
    IN IF Len(query) # ix.dim \/ file[1].dim # ix.dim THEN BadVectors
       ELSE IF k = 0 \/ nprobe = 0 THEN << >>
       ELSE Closest(<< >> \o [i \in DOMAIN ids |->
                [id |-> ids[i], dist |-> L2(Rotate(ix, query), vecs[i])]], k)

\* search_rerank: the r best by their codes, scored again by their vectors.
SearchRerank(ix, file, query, k, nprobe, r) ==
    LET found == SearchVectors(ix, query, Max({r, k}), nprobe)
        ids == << >> \o [i \in DOMAIN found |-> found[i].id]
        vecs == RerankVectors(file, ids)
    IN IF Len(query) # ix.dim \/ file[1].dim # ix.dim THEN BadVectors
       ELSE IF k = 0 \/ nprobe = 0 THEN << >>
       ELSE Closest(<< >> \o [i \in DOMAIN ids |-> [id |-> ids[i], dist |-> L2(query, vecs[i])]], k)

\* reciprocal_rank_fusion_weighted: a list votes for its documents with its
\* weight over param + rank, here in units of one over `scale`; ties by document.
Fused(lists, weights, param) ==
    LET scale == FoldLeft(LAMBDA x, n : x * (param + n), 1,
                          << >> \o [n \in 1 .. Max({0} \union {Len(l) : l \in Range(lists)}) |-> n])
        weight(i) == IF weights = << >> THEN 1 ELSE weights[i]
        votes(i, d) == Total(<< >> \o [n \in DOMAIN lists[i] |->
                           IF lists[i][n] = d THEN weight(i) * (scale \div (param + n)) ELSE 0])
        scored(ids) == [d \in ids |-> Total(<< >> \o [i \in DOMAIN lists |-> votes(i, d)])]
        ranked(score) == SortedBy(DOMAIN score, LAMBDA a, b : score[a] > score[b] \/ (score[a] = score[b] /\ a < b))
    IN IF weights # << >> /\ Len(weights) # Len(lists) THEN BadVectors
       ELSE ranked(scored(UNION {Range(l) : l \in Range(lists)}))
==============================================================================
