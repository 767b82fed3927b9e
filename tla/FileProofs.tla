------------------------------ MODULE FileProofs ------------------------------
(****************************************************************************)
(* What is written to the files is what is read from them:                  *)
(*   - coalesced reads bring what plain reads of the ranges would            *)
(*     (CoalescedReadsAreReads);                                             *)
(*   - a record store gives back the records it was written from, whatever   *)
(*     is resident of its index (RecordPagesAreRight).  The argument: packing *)
(*     is undone by the decoder (CompressIs, DecodeIs); the index says where *)
(*     each record lies (RecordsWritten, OpenedHolds); the invariant IInv    *)
(*     adds that a resident prefix agrees with the index and that a page     *)
(*     under way holds its own offsets or none;                              *)
(*   - a filter denies no key it was built over (BloomNoFalseNegatives).     *)
(****************************************************************************)
EXTENDS RecordPages, SplitFiles, NatSetLemmas

------------------------------------------------------------------------------
(* Reading: a part of what was read, spans, and reads that are coalesced.     *)

\* What a read of len cells brings, cell by cell.
Brings(r, file, off, len) ==
    /\ \E S : r \in Seq(S)
    /\ Len(r) = len
    /\ \A i \in 1 .. len : r[i] = file[off + i]

\* A read brings the cells from its offset on.
LEMMA ReadIs ==
    ASSUME NEW file, NEW off \in Nat, NEW len \in Nat
    PROVE  Brings(ReadAt(file, off, len), file, off, len)
<1> DEFINE S == {file[i] : i \in off + 1 .. off + len}
           m == off + 1
           n == off + len
<1>1. m \in Int /\ n \in Int /\ \A i \in m .. n : file[i] \in S
  OBVIOUS
<1>2. n - m + 1 = len /\ (m <= n => n - m + 1 = len) /\ (~(m <= n) => len = 0)
  OBVIOUS
<1>3. \A i \in 1 .. len : m + i - 1 = off + i
  OBVIOUS
<1> HIDE DEF S, m, n
<1>4. /\ SubSeq(file, m, n) \in Seq(S)
      /\ Len(SubSeq(file, m, n)) = IF m <= n THEN n - m + 1 ELSE 0
      /\ \A i \in 1 .. n - m + 1 : SubSeq(file, m, n)[i] = file[m + i - 1]
  BY <1>1, SubSeqProperties
<1>5. SubSeq(file, m, n) = ReadAt(file, off, len)
  BY DEF ReadAt, m, n
<1> QED
  BY <1>2, <1>3, <1>4, <1>5 DEF Brings

\* A read within a read is a read of the file.
SameRead(file, lo, hi, off, len) ==
    ReadAt(ReadAt(file, lo, hi - lo), off - lo, len) = ReadAt(file, off, len)

\* So the part of a span that a range asks for is what the range alone would read.
LEMMA ReadWithin ==
    ASSUME NEW file, NEW lo \in Nat, NEW hi \in Nat, NEW off \in Nat, NEW len \in Nat,
           lo <= off, off + len <= hi
    PROVE  SameRead(file, lo, hi, off, len)
<1>1. hi - lo \in Nat /\ off - lo \in Nat
  OBVIOUS
<1>2. PICK mid, s, t :
          mid = ReadAt(file, lo, hi - lo) /\ s = ReadAt(mid, off - lo, len) /\ t = ReadAt(file, off, len)
  OBVIOUS
<1>3. \A i \in 1 .. hi - lo : mid[i] = file[lo + i]
  BY <1>1, <1>2, ReadIs DEF Brings
<1>4. /\ \E A : s \in Seq(A)
      /\ Len(s) = len
      /\ \A i \in 1 .. len : s[i] = mid[(off - lo) + i]
  <2>1. PICK o \in Nat : o = off - lo
    BY <1>1
  <2>2. Brings(ReadAt(mid, o, len), mid, o, len)
    BY ReadIs
  <2>3. Brings(s, mid, off - lo, len)
    BY <1>2, <2>1, <2>2
  <2> QED
    BY <2>3 DEF Brings
<1>5. /\ \E B : t \in Seq(B)
      /\ Len(t) = len
      /\ \A i \in 1 .. len : t[i] = file[off + i]
  BY <1>2, ReadIs DEF Brings
<1>6. ASSUME NEW i \in 1 .. len PROVE s[i] = t[i]
  <2>1. (off - lo) + i \in 1 .. hi - lo /\ lo + ((off - lo) + i) = off + i
    OBVIOUS
  <2> QED
    BY <1>3, <1>4, <1>5, <2>1
<1>7. PICK A, B : s \in Seq(A) /\ t \in Seq(B)
  BY <1>4, <1>5
<1>8. s \in Seq(A \union B) /\ t \in Seq(A \union B)
  <2>1. A \subseteq A \union B /\ B \subseteq A \union B
    OBVIOUS
  <2> QED
    BY <1>7, <2>1, SeqMonotonic
<1>9. s = t
  BY <1>4, <1>5, <1>6, <1>8, SeqEqual
<1> QED
  BY <1>2, <1>9 DEF SameRead

------------------------------------------------------------------------------
\* A scan in progress: spans, and the span of every extent so far.
Span == [lo : Nat, hi : Nat]
Scans(gap) == [spans : Seq(Span), of : Seq(Nat), gap : {gap}]

\* The scan b has placed one extent more than the scan a has.
Places(a, lo, hi, b) ==
    /\ Len(b.spans) \in Nat \ {0} /\ Len(a.spans) <= Len(b.spans)
    /\ Len(b.of) = Len(a.of) + 1 /\ b.of[Len(b.of)] = Len(b.spans)
    /\ \A p \in 1 .. Len(a.of) : b.of[p] = a.of[p]
    /\ \A s \in 1 .. Len(a.spans) : b.spans[s].lo = a.spans[s].lo /\ a.spans[s].hi <= b.spans[s].hi
    /\ hi <= b.spans[Len(b.spans)].hi
    /\ (a.spans # << >> => a.spans[Len(a.spans)].lo <= lo) => b.spans[Len(b.spans)].lo <= lo

\* The end of a span that grows is no less than either end.
LEMMA LastSpan ==
    ASSUME NEW x \in Nat, NEW y \in Nat
    PROVE  Max({x, y}) \in Nat /\ x <= Max({x, y}) /\ y <= Max({x, y})
<1> DEFINE S == {x, y}
<1>1. S \in SUBSET Nat /\ S # {} /\ x + y + 1 \in Nat /\ \A z \in S : z < x + y + 1
  OBVIOUS
<1>2. x \in S /\ y \in S
  OBVIOUS
<1> HIDE DEF S
<1>3. Max(S) \in S /\ \A z \in S : z <= Max(S)
  BY <1>1, MaxIsGreatest
<1>4. Max(S) \in Nat /\ x <= Max(S) /\ y <= Max(S)
  BY <1>1, <1>2, <1>3
<1> QED
  BY <1>4 DEF S

\* The next extent joins the last span, or begins one.
LEMMA BridgedPlaces ==
    ASSUME NEW gap \in Nat, NEW a \in Scans(gap), NEW lo \in Nat, NEW hi \in Nat,
           NEW b, b = Bridged(a, lo, hi)
    PROVE  b \in Scans(gap) /\ Places(a, lo, hi, b)
<1> DEFINE n == Len(a.spans)
           k == Len(a.of)
<1>1. /\ a.spans \in Seq(Span) /\ a.of \in Seq(Nat) /\ a.gap = gap /\ n \in Nat /\ k \in Nat
      /\ a = [spans |-> a.spans, of |-> a.of, gap |-> gap]
  BY DEF Scans
<1>2. ASSUME NEW spans \in Seq(Span), NEW m \in Nat \ {0}, Len(spans) = m, n <= m,
             \A s \in 1 .. n : spans[s].lo = a.spans[s].lo /\ a.spans[s].hi <= spans[s].hi,
             hi <= spans[m].hi,
             (a.spans # << >> => a.spans[n].lo <= lo) => spans[m].lo <= lo,
             b = [a EXCEPT !.spans = spans, !.of = Append(a.of, Len(spans))]
      PROVE  b \in Scans(gap) /\ Places(a, lo, hi, b)
  <2>1. PICK o : o = Append(a.of, m)
    OBVIOUS
  <2>2. o \in Seq(Nat) /\ Len(o) = k + 1 /\ o[k + 1] = m /\ \A p \in 1 .. k : o[p] = a.of[p]
    BY <1>1, <2>1, AppendProperties
  <2>3. b = [spans |-> spans, of |-> o, gap |-> gap]
    BY <1>1, <1>2, <2>1
  <2>4. b.spans = spans /\ b.of = o
    BY <2>3
  <2>5. b \in Scans(gap)
    BY <2>2, <2>3 DEF Scans
  <2>6. Places(a, lo, hi, b)
    BY <1>2, <2>2, <2>4 DEF Places
  <2> QED
    BY <2>5, <2>6
<1>3. CASE a.spans # << >> /\ lo <= Last(a.spans).hi + a.gap
  <2> DEFINE l == a.spans[n]
             f == SubSeq(a.spans, 1, n - 1)
             new == [lo |-> l.lo, hi |-> Max({l.hi, hi})]
             spans == f \o << new >>
  <2>1. n \in 1 .. n /\ n - 1 \in Nat
    BY <1>1, <1>3, EmptySeq
  <2>2. l \in Span
    BY <1>1, <2>1, ElementOfSeq
  <2>3. l.lo \in Nat /\ l.hi \in Nat
    BY <2>2 DEF Span
  <2>4. new \in Span /\ hi <= new.hi /\ new.lo = l.lo /\ l.hi <= new.hi
    BY <2>3, LastSpan DEF Span
  <2>5. f \in Seq(Span) /\ Len(f) = n - 1 /\ \A s \in 1 .. n - 1 : f[s] = a.spans[s]
    <3>1. \A s \in 1 .. n - 1 : a.spans[s] \in Span
      BY <1>1, ElementOfSeq
    <3>2. 1 \in Int /\ n - 1 \in Int /\ (n - 1) - 1 + 1 = n - 1
          /\ (IF 1 <= n - 1 THEN (n - 1) - 1 + 1 ELSE 0) = n - 1
      BY <2>1
    <3>3. /\ f \in Seq(Span) /\ Len(f) = IF 1 <= n - 1 THEN (n - 1) - 1 + 1 ELSE 0
          /\ \A s \in 1 .. (n - 1) - 1 + 1 : f[s] = a.spans[1 + s - 1]
      BY ONLY <3>1, <3>2, SubSeqProperties
    <3>4. \A s \in 1 .. n - 1 : 1 + s - 1 = s
      OBVIOUS
    <3> HIDE DEF f, n
    <3> QED
      BY <3>2, <3>3, <3>4
  <2> HIDE DEF new, f
  <2>6. << new >> \in Seq(Span) /\ Len(<< new >>) = 1 /\ << new >>[1] = new
    BY <2>4
  <2>7. spans \in Seq(Span) /\ Len(spans) = (n - 1) + 1
        /\ \A i \in 1 .. (n - 1) + 1 : spans[i] = IF i <= n - 1 THEN f[i] ELSE << new >>[i - (n - 1)]
    <3>1. /\ spans \in Seq(Span) /\ Len(spans) = Len(f) + Len(<< new >>)
          /\ \A i \in 1 .. Len(f) + Len(<< new >>) :
                spans[i] = IF i <= Len(f) THEN f[i] ELSE << new >>[i - Len(f)]
      BY ONLY <2>5, <2>6, ConcatProperties
    <3> HIDE DEF spans, n
    <3> QED
      BY <2>5, <2>6, <3>1
  <2> HIDE DEF spans
  <2>8. Len(spans) = n /\ spans[n] = new /\ \A i \in 1 .. n - 1 : spans[i] = a.spans[i]
    <3>1. n \in 1 .. (n - 1) + 1 /\ ~(n <= n - 1) /\ n - (n - 1) = 1 /\ (n - 1) + 1 = n
      BY <2>1
    <3>2. \A i \in 1 .. n - 1 : i \in 1 .. (n - 1) + 1 /\ i <= n - 1
      BY <2>1
    <3> HIDE DEF n
    <3> QED
      BY <2>5, <2>6, <2>7, <3>1, <3>2
  <2>9. ASSUME NEW s \in 1 .. n
        PROVE  spans[s].lo = a.spans[s].lo /\ a.spans[s].hi <= spans[s].hi
    <3>1. a.spans[s] \in Span
      BY <1>1, ElementOfSeq
    <3>2. s = n \/ s \in 1 .. n - 1
      BY <2>1
    <3> QED
      BY <2>4, <2>8, <3>1, <3>2 DEF Span
  <2>10. b = [a EXCEPT !.spans = spans, !.of = Append(a.of, Len(spans))]
    BY <1>3 DEF Bridged, Last, Front, spans, f, new
  <2> QED
    <3>1. n \in Nat \ {0} /\ n <= n
      BY <2>1
    <3> HIDE DEF n
    <3> QED
      BY <1>2, <1>3, <2>4, <2>7, <2>8, <2>9, <2>10, <3>1
<1>4. CASE ~(a.spans # << >> /\ lo <= Last(a.spans).hi + a.gap)
  <2> DEFINE new == [lo |-> lo, hi |-> hi]
             spans == Append(a.spans, new)
  <2>1. new \in Span
    BY DEF Span
  <2>2. spans \in Seq(Span) /\ Len(spans) = n + 1 /\ spans[n + 1] = new
        /\ \A s \in 1 .. n : spans[s] = a.spans[s]
    BY <1>1, <2>1, AppendProperties
  <2>3. b = [a EXCEPT !.spans = spans, !.of = Append(a.of, Len(spans))]
    BY <1>4 DEF Bridged
  <2> HIDE DEF spans
  <2>4. ASSUME NEW s \in 1 .. n
        PROVE  spans[s].lo = a.spans[s].lo /\ a.spans[s].hi <= spans[s].hi
    <3>1. a.spans[s] \in Span
      BY <1>1, ElementOfSeq
    <3>2. spans[s] = a.spans[s]
      BY <2>2
    <3>3. a.spans[s].hi \in Nat
      BY <3>1 DEF Span
    <3> QED
      BY <3>2, <3>3
  <2>5. n + 1 \in Nat \ {0} /\ n <= n + 1
    BY <1>1
  <2>6. new.lo <= lo /\ hi <= new.hi
    OBVIOUS
  <2> HIDE DEF n, new
  <2> QED
    BY <1>2, <2>2, <2>3, <2>4, <2>5, <2>6
<1> QED
  BY <1>3, <1>4

------------------------------------------------------------------------------
\* The extents placed by a scan are each inside their span.
Covered(a, k, from, to) ==
    /\ Len(a.of) = k
    /\ \A p \in 1 .. k :
          /\ a.of[p] \in 1 .. Len(a.spans)
          /\ a.spans[a.of[p]].lo <= from[p] /\ to[p] <= a.spans[a.of[p]].hi
    /\ k > 0 => a.spans # << >> /\ a.spans[Len(a.spans)].lo <= from[k]
    /\ k = 0 => a.spans = << >>

\* The next extent in order keeps every extent placed so far inside its span.
LEMMA CoveredStep ==
    ASSUME NEW gap \in Nat, NEW n \in Nat, NEW k \in 1 .. n,
           NEW from \in [1 .. n -> Nat], NEW to \in [1 .. n -> Nat], k > 1 => from[k - 1] <= from[k],
           NEW a \in Scans(gap), Covered(a, k - 1, from, to), NEW b, b = Bridged(a, from[k], to[k])
    PROVE  b \in Scans(gap) /\ Covered(b, k, from, to)
<1>1. PICK lo \in Nat, hi \in Nat : lo = from[k] /\ hi = to[k]
  OBVIOUS
<1>3. a.spans \in Seq(Span) /\ Len(a.spans) \in Nat /\ Len(a.of) = k - 1
  BY DEF Scans, Covered
<1>4. a.spans # << >> => a.spans[Len(a.spans)].lo <= lo
  <2> SUFFICES ASSUME a.spans # << >> PROVE a.spans[Len(a.spans)].lo <= lo
    OBVIOUS
  <2>1. k - 1 > 0 /\ k - 1 \in 1 .. n
    BY DEF Covered
  <2>2. a.spans[Len(a.spans)].lo <= from[k - 1]
    BY <2>1 DEF Covered
  <2>3. Len(a.spans) \in 1 .. Len(a.spans)
    BY <1>3, EmptySeq
  <2>4. a.spans[Len(a.spans)] \in Span
    BY <1>3, <2>3, ElementOfSeq
  <2>5. PICK x \in Nat, y \in Nat : x = a.spans[Len(a.spans)].lo /\ y = from[k - 1]
    BY <2>1, <2>4 DEF Span
  <2>6. x <= y /\ y <= lo
    BY <1>1, <2>1, <2>2, <2>5
  <2>7. x <= lo
    BY ONLY <2>6, x \in Nat, y \in Nat, lo \in Nat
  <2> QED
    BY <2>5, <2>7
<1>5. b \in Scans(gap) /\ Places(a, lo, hi, b)
  BY <1>1, BridgedPlaces
<1>6. b.spans \in Seq(Span) /\ Len(b.spans) \in Nat \ {0} /\ Len(a.spans) <= Len(b.spans)
  BY <1>5 DEF Scans, Places
<1>7. Len(b.of) = k /\ b.of[k] = Len(b.spans)
  <2>1. Len(b.of) = Len(a.of) + 1 /\ b.of[Len(b.of)] = Len(b.spans)
    BY <1>5 DEF Places
  <2>2. (k - 1) + 1 = k
    OBVIOUS
  <2> QED
    BY ONLY <1>3, <2>1, <2>2
<1>8. ASSUME NEW p \in 1 .. k
      PROVE  /\ b.of[p] \in 1 .. Len(b.spans)
             /\ b.spans[b.of[p]].lo <= from[p] /\ to[p] <= b.spans[b.of[p]].hi
  <2>1. CASE p = k
    <3>1. PICK m \in Nat \ {0} : m = Len(b.spans)
      BY <1>6
    <3>2. b.spans[m].lo <= lo /\ hi <= b.spans[m].hi
      BY <1>4, <1>5, <3>1 DEF Places
    <3>3. m \in 1 .. m /\ b.of[p] = m
      BY <1>7, <2>1, <3>1
    <3> QED
      BY <1>1, <2>1, <3>1, <3>2, <3>3
  <2>2. CASE p # k
    <3>1. p \in 1 .. k - 1
      BY <2>2
    <3>2. PICK s : s = a.of[p]
      OBVIOUS
    <3>3. s \in 1 .. Len(a.spans) /\ a.spans[s].lo <= from[p] /\ to[p] <= a.spans[s].hi
      BY <3>1, <3>2 DEF Covered
    <3>4. b.of[p] = s /\ b.spans[s].lo = a.spans[s].lo /\ a.spans[s].hi <= b.spans[s].hi
      BY <1>3, <1>5, <3>1, <3>2, <3>3 DEF Places
    <3>5. s \in 1 .. Len(b.spans)
      <4>1. PICK x \in Nat, y \in Nat : x = Len(a.spans) /\ y = Len(b.spans)
        BY <1>3, <1>6
      <4>2. s \in 1 .. x /\ x <= y
        BY <1>6, <3>3, <4>1
      <4>3. s \in 1 .. y
        BY ONLY <4>2, x \in Nat, y \in Nat
      <4> QED
        BY <4>1, <4>3
    <3>6. a.spans[s] \in Span /\ b.spans[s] \in Span
      BY <1>3, <1>6, <3>3, <3>5, ElementOfSeq
    <3>7. PICK h \in Nat, g \in Nat, w \in Nat : h = a.spans[s].hi /\ g = b.spans[s].hi /\ w = to[p]
      <4>1. p \in 1 .. n
        OBVIOUS
      <4> QED
        BY <3>6, <4>1 DEF Span
    <3>8. w <= h /\ h <= g
      BY <3>3, <3>4, <3>7
    <3>9. w <= g
      BY ONLY <3>8, w \in Nat, h \in Nat, g \in Nat
    <3> QED
      BY <3>3, <3>4, <3>5, <3>7, <3>9
  <2> QED
    BY <2>1, <2>2
<1>9. b.spans # << >> /\ b.spans[Len(b.spans)].lo <= from[k]
  <2>1. b.spans # << >>
    BY <1>6
  <2> QED
    BY <1>1, <1>4, <1>5, <2>1 DEF Places
<1>10. k # 0
  OBVIOUS
<1> QED
  BY <1>5, <1>7, <1>8, <1>9, <1>10 DEF Covered

\* The scan of CoalescedSpans.
ExtentScan(ranges, gap, order) ==
    FoldLeft(LAMBDA a, i : Bridged(a, ranges[i].off, ranges[i].off + ranges[i].len), Grow(gap), order)

\* A scan of extents in ascending order puts each inside a span.
LEMMA ScanCovers ==
    ASSUME NEW gap \in Nat, NEW n \in Nat, NEW order, DOMAIN order = 1 .. n, NEW ranges,
           NEW from \in [1 .. n -> Nat], NEW to \in [1 .. n -> Nat],
           \A p \in 1 .. n : from[p] = ranges[order[p]].off /\ to[p] = ranges[order[p]].off + ranges[order[p]].len,
           \A p, q \in 1 .. n : p < q => from[p] <= from[q],
           NEW scan, scan = ExtentScan(ranges, gap, order)
    PROVE  scan \in Scans(gap) /\ Covered(scan, n, from, to)
<1> DEFINE V == Scans(gap)
           Lo(k) == ranges[order[k]].off
           Hi(k) == ranges[order[k]].off + ranges[order[k]].len
           Folds(g) == g = [s \in SUBSET (DOMAIN order) |->
                              IF s = {} THEN Grow(gap)
                              ELSE Bridged(g[s \ {Max(s)}], Lo(Max(s)), Hi(Max(s)))]
<1>0. \A k \in 1 .. n : Lo(k) = from[k] /\ Hi(k) = to[k]
  OBVIOUS
<1>1. Grow(gap) \in V /\ Covered(Grow(gap), 0, from, to)
  <2>1. << >> \in Seq(Span) /\ << >> \in Seq(Nat) /\ Len(<< >>) = 0
    BY EmptySeq
  <2>2. Grow(gap).spans = << >> /\ Grow(gap).of = << >>
    BY DEF Grow
  <2>3. Grow(gap) \in V
    BY <2>1 DEF Grow, Scans
  <2>4. ~(0 > 0) /\ 1 .. 0 = {}
    OBVIOUS
  <2> QED
    BY <2>1, <2>2, <2>3, <2>4 DEF Covered
<1>2. ASSUME NEW a \in V, NEW k \in 1 .. n PROVE Bridged(a, Lo(k), Hi(k)) \in V
  <2>1. from[k] \in Nat /\ to[k] \in Nat
    OBVIOUS
  <2> HIDE DEF Lo, Hi
  <2>2. Bridged(a, from[k], to[k]) \in V
    BY <2>1, BridgedPlaces
  <2> QED
    BY <1>0, <2>2
<1> HIDE DEF V, Lo, Hi
<1>3. \E g : Folds(g)
  <2> DEFINE H == [p \in (1 .. n) \X V |-> Bridged(p[2], Lo(p[1]), Hi(p[1]))]
  <2>1. H \in [(1 .. n) \X V -> V]
    BY <1>2
  <2>2. \A k \in 1 .. n, a \in V : H[<<k, a>>] = Bridged(a, Lo(k), Hi(k))
    OBVIOUS
  <2> HIDE DEF H
  <2>3. PICK g : Rounds(g, n, V, Grow(gap), H)
    BY <1>1, <2>1, RoundsExist
  <2>4. ASSUME NEW s \in SUBSET (1 .. n), s # {}
        PROVE  g[s] = Bridged(g[s \ {Max(s)}], Lo(Max(s)), Hi(Max(s)))
    BY <2>2, <2>3, <2>4 DEF Rounds
  <2>5. g[{}] = Grow(gap) /\ g = [s \in SUBSET (1 .. n) |-> g[s]]
    BY <2>3 DEF Rounds
  <2>6. Folds(g)
    BY <2>4, <2>5
  <2> QED
    BY <2>6
<1>4. PICK g : Folds(g) /\ scan = g[DOMAIN order]
  <2>1. scan = (CHOOSE g : Folds(g))[DOMAIN order]
    BY DEF ExtentScan, FoldLeft, MapThenFoldSet, Lo, Hi
  <2>2. Folds(CHOOSE g : Folds(g))
    <3> HIDE DEF Folds
    <3> QED
      BY <1>3
  <2> HIDE DEF Folds
  <2> QED
    BY <2>1, <2>2
<1>5. g[{}] = Grow(gap) /\ \A k \in 1 .. n : g[1 .. k] = Bridged(g[1 .. k - 1], Lo(k), Hi(k))
  <2>1. \A s \in SUBSET (1 .. n) : g[s] = IF s = {} THEN Grow(gap)
                                          ELSE Bridged(g[s \ {Max(s)}], Lo(Max(s)), Hi(Max(s)))
    BY <1>4
  <2>2. \A k \in 1 .. n : 1 .. k \in SUBSET (1 .. n) /\ 1 .. k # {}
                          /\ Max(1 .. k) = k /\ (1 .. k) \ {k} = 1 .. k - 1
    BY InOrder
  <2>3. g[{}] = Grow(gap)
    <3>1. {} \in SUBSET (1 .. n)
      OBVIOUS
    <3> QED
      BY <2>1, <3>1
  <2>4. ASSUME NEW k \in 1 .. n PROVE g[1 .. k] = Bridged(g[1 .. k - 1], Lo(k), Hi(k))
    <3>1. PICK s : s = 1 .. k
      OBVIOUS
    <3>2. s \in SUBSET (1 .. n) /\ s # {} /\ Max(s) = k /\ s \ {k} = 1 .. k - 1
      BY <2>2, <3>1
    <3>3. g[s] = Bridged(g[s \ {Max(s)}], Lo(Max(s)), Hi(Max(s)))
      BY <2>1, <3>2
    <3> QED
      BY <3>1, <3>2, <3>3
  <2> QED
    BY <2>3, <2>4
<1> DEFINE P == {k \in 0 .. n : g[1 .. k] \in V /\ Covered(g[1 .. k], k, from, to)}
<1>6. 0 \in P
  BY <1>1, <1>5, InOrder
<1>7. ASSUME NEW k \in 1 .. n, k - 1 \in P PROVE k \in P
  <2>1. PICK a, b : a = g[1 .. k - 1] /\ b = g[1 .. k]
    OBVIOUS
  <2>2. a \in Scans(gap) /\ Covered(a, k - 1, from, to)
    BY <1>7, <2>1 DEF V
  <2>3. b = Bridged(a, from[k], to[k])
    BY <1>0, <1>5, <2>1
  <2>4. k > 1 => from[k - 1] <= from[k]
    OBVIOUS
  <2>5. b \in Scans(gap) /\ Covered(b, k, from, to)
    BY <2>2, <2>3, <2>4, CoveredStep
  <2> QED
    BY <2>1, <2>5 DEF V
<1>8. n \in P
  <2> HIDE DEF P
  <2>1. 0 .. n \subseteq P
    BY <1>6, <1>7, UptoInduction
  <2> QED
    BY <2>1
<1> QED
  BY <1>4, <1>8 DEF V

\* The ranges that are read, by offset and then by place.
ReadFirst(ranges, S) ==
    {p \in S \X S : \/ ranges[p[1]].off < ranges[p[2]].off
                     \/ (ranges[p[1]].off = ranges[p[2]].off /\ p[1] < p[2])}

\* By offset and then by place is a strict order of the ranges read.
LEMMA RangesOrdered ==
    ASSUME NEW ranges, NEW S \in SUBSET Nat, \A i \in S : ranges[i].off \in Nat
    PROVE  /\ Orders(ReadFirst(ranges, S), S)
           /\ \A x \in S : Under(x, S, ReadFirst(ranges, S)) =
                 {y \in S : ranges[y].off < ranges[x].off \/ (ranges[y].off = ranges[x].off /\ y < x)}
<1> DEFINE R == ReadFirst(ranges, S)
<1>1. \A i, j \in S : <<i, j>> \in R <=> (ranges[i].off < ranges[j].off
                                           \/ (ranges[i].off = ranges[j].off /\ i < j))
  <2> TAKE i, j \in S
  <2>1. <<i, j>> \in S \X S /\ <<i, j>>[1] = i /\ <<i, j>>[2] = j
    OBVIOUS
  <2> QED
    BY <2>1 DEF ReadFirst
<1> HIDE DEF R
<1>2. \A i \in S : i \in Nat /\ ranges[i].off \in Nat
  OBVIOUS
<1>3. \A a \in S : <<a, a>> \notin R
  BY <1>1, <1>2
<1>4. \A a, b \in S : a # b => <<a, b>> \in R \/ <<b, a>> \in R
  BY <1>1, <1>2
<1>5. ASSUME NEW a \in S, NEW b \in S, NEW c \in S, <<a, b>> \in R, <<b, c>> \in R
      PROVE  <<a, c>> \in R
  BY <1>1, <1>2, <1>5
<1>6. Orders(R, S)
  BY <1>3, <1>4, <1>5 DEF Orders
<1>7. ASSUME NEW x \in S
      PROVE  Under(x, S, R) = {y \in S : ranges[y].off < ranges[x].off
                                          \/ (ranges[y].off = ranges[x].off /\ y < x)}
  BY <1>1 DEF Under
<1> QED
  BY <1>6, <1>7 DEF R

\* The order of CoalescedSpans lists the ranges that are read, each once.
ReadOrder(ranges, S) ==
    LET before(i, j) == \/ ranges[i].off < ranges[j].off
                        \/ ranges[i].off = ranges[j].off /\ i < j
    IN SortedBy(S, before)

InReadOrder(order, n, ranges, S) ==
    /\ n \in Nat /\ DOMAIN order = 1 .. n
    /\ \A p \in 1 .. n : order[p] \in S
    /\ \A i \in S : \E p \in 1 .. n : order[p] = i
    /\ \A p, q \in 1 .. n : p < q => ranges[order[p]].off <= ranges[order[q]].off

\* The order of CoalescedSpans lists each range read once, by offset.
LEMMA RangesListed ==
    ASSUME NEW ranges, NEW S \in SUBSET Nat, IsFiniteSet(S), \A i \in S : ranges[i].off \in Nat,
           NEW order, order = ReadOrder(ranges, S)
    PROVE  InReadOrder(order, Cardinality(S), ranges, S)
<1> DEFINE n == Cardinality(S)
           R == ReadFirst(ranges, S)
           Below(x) == {y \in S : ranges[y].off < ranges[x].off \/ (ranges[y].off = ranges[x].off /\ y < x)}
           s == [i \in 1 .. n |-> CHOOSE x \in S : Cardinality(Below(x)) = i - 1]
<1>1. n \in Nat
  BY FS_CardinalityType
<1>2. Orders(R, S) /\ \A x \in S : Under(x, S, R) = Below(x)
  BY RangesOrdered
<1>3. order = << >> \o s
  BY DEF ReadOrder, SortedBy
<1> HIDE DEF R, Below
<1>4. ASSUME NEW i \in 1 .. n PROVE s[i] \in S /\ Cardinality(Below(s[i])) = i - 1
  <2>1. i - 1 \in 0 .. n - 1
    BY <1>1
  <2>2. \E x \in S : Cardinality(Under(x, S, R)) = i - 1
    <3>1. Orders(R, S) /\ IsFiniteSet(S)
      BY <1>2
    <3> QED
      BY ONLY <2>1, <3>1, RanksAreFilled DEF n
  <2>3. \E x \in S : Cardinality(Below(x)) = i - 1
    BY <1>2, <2>2
  <2> QED
    BY <2>3
<1>5. s \in [1 .. n -> S]
  BY <1>4
<1>6. \A i \in 1 .. n : Cardinality(Under(s[i], S, R)) = i - 1
  BY <1>2, <1>4
<1> HIDE DEF s
<1>7. Lists(s, S, R)
  BY <1>2, <1>5, <1>6, RanksListed
<1>8. /\ s \in Seq(S) /\ DOMAIN s = 1 .. n
      /\ \A d \in S : \E i \in 1 .. n : s[i] = d
      /\ \A i, j \in 1 .. n : i < j => <<s[i], s[j]>> \in R
  BY <1>2, <1>7, ListsInOrder
<1>9. order = s
  BY <1>3, <1>8, ConcatEmptySeq
<1>10. ASSUME NEW p \in 1 .. n, NEW q \in 1 .. n, p < q
       PROVE  ranges[order[p]].off <= ranges[order[q]].off
  <2>1. <<s[p], s[q]>> \in R /\ s[p] \in S /\ s[q] \in S
    BY <1>5, <1>8, <1>10
  <2>2. ranges[s[p]].off < ranges[s[q]].off \/ ranges[s[p]].off = ranges[s[q]].off
    BY <2>1 DEF R, ReadFirst
  <2>3. ranges[s[p]].off \in Nat /\ ranges[s[q]].off \in Nat
    BY <2>1
  <2>4. ranges[s[p]].off <= ranges[s[q]].off
    BY ONLY <2>2, <2>3
  <2> QED
    BY <1>9, <2>4
<1> QED
  BY <1>1, <1>5, <1>8, <1>9, <1>10 DEF InReadOrder

\* What the scan of an order says of the ranges.
SpansIn(order, scan) ==
    [spans |-> scan.spans,
     of |-> [i \in Range(order) |-> scan.of[CHOOSE p \in DOMAIN order : order[p] = i]]]

\* CoalescedSpans is the scan of the ranges in that order.
LEMMA SpansAre ==
    ASSUME NEW ranges, NEW gap
    PROVE  CoalescedSpans(ranges, gap) =
             SpansIn(ReadOrder(ranges, {i \in DOMAIN ranges : ranges[i].len > 0}),
                     ExtentScan(ranges, gap, ReadOrder(ranges, {i \in DOMAIN ranges : ranges[i].len > 0})))
  BY Zenon DEF CoalescedSpans, SpansIn, ReadOrder, ExtentScan, SortedBy, FoldLeft, MapThenFoldSet

\* One read for each range.
ReadEach(file, ranges) == [i \in DOMAIN ranges |-> ReadAt(file, ranges[i].off, ranges[i].len)]

\* Reads that are coalesced bring what one read for each range would: whatever
\* the gap, the order of the ranges and their overlaps, each comes back as its
\* own cells, in its own place (read_coalesced).
THEOREM CoalescedReadsAreReads ==
    ASSUME NEW file, NEW gap \in Nat, NEW ranges \in Seq([off : Nat, len : Nat])
    PROVE  ReadCoalesced(file, ranges, gap) = ReadEach(file, ranges)
<1> DEFINE S == {i \in DOMAIN ranges : ranges[i].len > 0}
           n == Cardinality(S)
           order == ReadOrder(ranges, S)
           scan == ExtentScan(ranges, gap, order)
           at == [i \in Range(order) |-> scan.of[CHOOSE p \in DOMAIN order : order[p] = i]]
           slice(i, s) == ReadAt(ReadAt(file, s.lo, s.hi - s.lo), ranges[i].off - s.lo, ranges[i].len)
<1>1. PICK m \in Nat : DOMAIN ranges = 1 .. m /\ Len(ranges) = m
  BY LenProperties
<1>2. \A i \in DOMAIN ranges : ranges[i].off \in Nat /\ ranges[i].len \in Nat
  <2>1. \A i \in 1 .. m : ranges[i] \in [off : Nat, len : Nat]
    BY <1>1, ElementOfSeq
  <2> QED
    BY <1>1, <2>1
<1>3. S \in SUBSET Nat /\ IsFiniteSet(S) /\ \A i \in S : ranges[i].off \in Nat /\ ranges[i].len \in Nat
  <2>1. S \in SUBSET (1 .. m)
    BY <1>1
  <2>2. IsFiniteSet(1 .. m)
    BY FS_Interval
  <2> QED
    BY <1>2, <2>1, <2>2, FS_Subset
<1>4. ReadCoalesced(file, ranges, gap) =
        [i \in DOMAIN ranges |-> IF ranges[i].len = 0 THEN << >> ELSE slice(i, scan.spans[at[i]])]
  <2>1. PICK c : c = CoalescedSpans(ranges, gap)
    OBVIOUS
  <2>2. c = SpansIn(order, scan)
    BY <2>1, SpansAre
  <2> HIDE DEF order, scan
  <2>3. c.spans = scan.spans /\ c.of = at
    BY <2>2 DEF SpansIn
  <2> HIDE DEF at
  <2>4. ReadCoalesced(file, ranges, gap) =
          [i \in DOMAIN ranges |-> IF ranges[i].len = 0 THEN << >> ELSE slice(i, c.spans[c.of[i]])]
    BY <2>1 DEF ReadCoalesced
  <2> QED
    BY <2>3, <2>4
<1> HIDE DEF S, n, order, scan, at
<1>5. InReadOrder(order, n, ranges, S)
  BY <1>3, RangesListed DEF order, n
<1>6. /\ n \in Nat /\ DOMAIN order = 1 .. n
      /\ \A p \in 1 .. n : order[p] \in S
      /\ \A i \in S : \E p \in 1 .. n : order[p] = i
      /\ \A p, q \in 1 .. n : p < q => ranges[order[p]].off <= ranges[order[q]].off
  BY <1>5 DEF InReadOrder
<1> DEFINE from == [p \in 1 .. n |-> ranges[order[p]].off]
           to == [p \in 1 .. n |-> ranges[order[p]].off + ranges[order[p]].len]
<1>10. \A p \in 1 .. n : ranges[order[p]].off \in Nat /\ ranges[order[p]].len \in Nat
  BY <1>3, <1>6
<1>11. /\ from \in [1 .. n -> Nat] /\ to \in [1 .. n -> Nat]
       /\ \A p \in 1 .. n : from[p] = ranges[order[p]].off /\ to[p] = ranges[order[p]].off + ranges[order[p]].len
  <2>1. ASSUME NEW p \in 1 .. n PROVE ranges[order[p]].off + ranges[order[p]].len \in Nat
    <3>1. PICK i \in S : i = order[p]
      BY Zenon, <1>6
    <3>2. ranges[i].off \in Nat /\ ranges[i].len \in Nat
      BY Zenon, <1>3, <3>1
    <3>3. ranges[i].off + ranges[i].len \in Nat
      BY ONLY <3>2
    <3> QED
      BY Zenon, <3>1, <3>3
  <2>2. from \in [1 .. n -> Nat]
    BY <1>10
  <2>3. to \in [1 .. n -> Nat]
    BY <2>1
  <2>4. \A p \in 1 .. n : from[p] = ranges[order[p]].off
    OBVIOUS
  <2>5. \A p \in 1 .. n : to[p] = ranges[order[p]].off + ranges[order[p]].len
    OBVIOUS
  <2> QED
    BY <2>2, <2>3, <2>4, <2>5
<1>12. \A p, q \in 1 .. n : p < q => from[p] <= from[q]
  BY <1>6, <1>11
<1> HIDE DEF from, to
<1>7. scan \in Scans(gap) /\ Covered(scan, n, from, to)
  <2>1. scan = ExtentScan(ranges, gap, order)
    BY DEF scan
  <2> QED
    BY <1>6, <1>11, <1>12, <2>1, ScanCovers
<1>8. ASSUME NEW i \in DOMAIN ranges, ranges[i].len # 0
      PROVE  slice(i, scan.spans[at[i]]) = ReadAt(file, ranges[i].off, ranges[i].len)
  <2>1. i \in S
    BY <1>2, <1>8 DEF S
  <2>2. PICK p \in 1 .. n : order[p] = i /\ at[i] = scan.of[p]
    <3>1. \E p \in DOMAIN order : order[p] = i
      BY <1>6, <2>1
    <3>2. i \in Range(order)
      BY <3>1 DEF Range
    <3>3. PICK p : p = CHOOSE q \in DOMAIN order : order[q] = i
      OBVIOUS
    <3>4. p \in DOMAIN order /\ order[p] = i
      BY <3>1, <3>3
    <3>5. at[i] = scan.of[p]
      BY <3>2, <3>3 DEF at
    <3> QED
      BY <1>6, <3>4, <3>5
  <2>3. PICK x : x = scan.spans[at[i]]
    OBVIOUS
  <2>4. x.lo <= ranges[i].off /\ ranges[i].off + ranges[i].len <= x.hi /\ at[i] \in 1 .. Len(scan.spans)
    <3>1. from[p] = ranges[i].off /\ to[p] = ranges[i].off + ranges[i].len
      BY <1>11, <2>2
    <3>2. x.lo <= from[p] /\ to[p] <= x.hi /\ at[i] \in 1 .. Len(scan.spans)
      BY <1>7, <2>2, <2>3 DEF Covered
    <3> QED
      BY <3>1, <3>2
  <2>5. x \in Span
    <3>1. scan.spans \in Seq(Span)
      BY <1>7 DEF Scans
    <3> QED
      BY <2>3, <2>4, <3>1, ElementOfSeq
  <2>6. x.lo \in Nat /\ x.hi \in Nat
    BY <2>5 DEF Span
  <2>7. slice(i, x) = ReadAt(file, ranges[i].off, ranges[i].len)
    <3>1. PICK lo \in Nat, hi \in Nat, off \in Nat, len \in Nat :
              lo = x.lo /\ hi = x.hi /\ off = ranges[i].off /\ len = ranges[i].len
      BY <1>2, <2>6
    <3>2. lo <= off /\ off + len <= hi
      BY <2>4, <3>1
    <3>3. SameRead(file, lo, hi, off, len)
      BY <3>2, ReadWithin
    <3> QED
      BY <3>1, <3>3 DEF SameRead
  <2> QED
    BY <2>3, <2>7
<1>9. ASSUME NEW i \in DOMAIN ranges, ranges[i].len = 0
      PROVE  ReadAt(file, ranges[i].off, ranges[i].len) = << >>
  <2>1. ranges[i].off + 1 \in Int /\ ranges[i].off + 0 \in Int /\ ranges[i].off + 0 < ranges[i].off + 1
    BY <1>2
  <2>2. SubSeq(file, ranges[i].off + 1, ranges[i].off + 0) = << >>
    BY <2>1, SubSeqEmpty
  <2> QED
    BY <1>9, <2>2 DEF ReadAt
<1> HIDE DEF slice
<1> QED
  BY <1>4, <1>8, <1>9 DEF ReadEach

------------------------------------------------------------------------------
(* Flattening a sequence of sequences, one at a time.                         *)

Flattens(f, seqs, C) ==
    /\ f \in [1 .. Len(seqs) -> Seq(C)] /\ f[1] = seqs[1]
    /\ \A i \in 2 .. Len(seqs) : f[i] = f[i - 1] \o seqs[i]

\* FlattenSeq joins the sequences one after the other.
LEMMA FlattenIs ==
    ASSUME NEW C, NEW seqs \in Seq(Seq(C)), seqs # << >>
    PROVE  \E f : Flattens(f, seqs, C) /\ FlattenSeq(seqs) = f[Len(seqs)]
<1> DEFINE Recurs1(f, n) == f = [i \in 1 .. n |-> IF i = 1 THEN seqs[i] ELSE f[i - 1] \o seqs[i]]
<1>1. PICK n \in Nat \ {0} : Len(seqs) = n /\ DOMAIN seqs = 1 .. n
  BY EmptySeq, LenProperties
<1>2. \A i \in 1 .. n : seqs[i] \in Seq(C)
  BY <1>1, ElementOfSeq
<1> DEFINE H == [p \in (1 .. n) \X Seq(C) |-> p[2] \o seqs[p[1]]]
<1>3. H \in [(1 .. n) \X Seq(C) -> Seq(C)]
  <2>1. ASSUME NEW k \in 1 .. n, NEW v \in Seq(C) PROVE v \o seqs[k] \in Seq(C)
    BY <1>2, ConcatProperties
  <2> QED
    BY <2>1
<1>4. \A k \in 1 .. n, v \in Seq(C) : H[<<k, v>>] = v \o seqs[k]
  OBVIOUS
<1> HIDE DEF H
<1>5. << >> \in Seq(C)
  BY EmptySeq
<1>6. PICK g : Rounds(g, n, Seq(C), << >>, H)
  BY <1>3, <1>5, RoundsExist
<1>7. ASSUME NEW k \in 1 .. n
      PROVE  g[1 .. k - 1] \in Seq(C) /\ g[1 .. k] \in Seq(C) /\ g[1 .. k] = g[1 .. k - 1] \o seqs[k]
  <2>1. 1 .. k \in SUBSET (1 .. n) /\ 1 .. k # {} /\ Max(1 .. k) = k /\ (1 .. k) \ {k} = 1 .. k - 1
    BY InOrder
  <2>2. g[1 .. k - 1] \in Seq(C) /\ g[1 .. k] = H[<<k, g[1 .. k - 1]>>]
    BY <1>6, <2>1 DEF Rounds
  <2>3. g[1 .. k] = g[1 .. k - 1] \o seqs[k]
    BY <1>4, <2>2
  <2> QED
    BY <1>2, <2>2, <2>3, ConcatProperties
<1>8. g[{}] = << >>
  BY <1>6 DEF Rounds
<1> DEFINE f == [i \in 1 .. n |-> g[1 .. i]]
<1>9. f[1] = seqs[1]
  <2>1. 1 \in 1 .. n /\ 1 .. 1 - 1 = {}
    OBVIOUS
  <2>2. g[1 .. 1] = << >> \o seqs[1] /\ seqs[1] \in Seq(C)
    BY <1>2, <1>7, <1>8, <2>1
  <2> QED
    BY <2>1, <2>2, ConcatEmptySeq
<1>10. \A i \in 2 .. n : f[i] = f[i - 1] \o seqs[i]
  <2> TAKE i \in 2 .. n
  <2>1. i \in 1 .. n /\ i - 1 \in 1 .. n
    OBVIOUS
  <2> QED
    BY <1>7, <2>1
<1>11. f \in [1 .. n -> Seq(C)]
  BY <1>7
<1> HIDE DEF f
<1>12. Recurs1(f, n)
  <2>1. \A i \in 1 .. n : i = 1 \/ i \in 2 .. n
    OBVIOUS
  <2>2. \A i \in 1 .. n : f[i] = IF i = 1 THEN seqs[i] ELSE f[i - 1] \o seqs[i]
    BY <1>9, <1>10, <2>1
  <2>3. f = [i \in 1 .. n |-> f[i]]
    BY <1>11
  <2> QED
    BY <2>2, <2>3
<1>13. PICK h : Recurs1(h, n) /\ FlattenSeq(seqs) = h[n]
  <2>1. FlattenSeq(seqs) = (CHOOSE h : Recurs1(h, n))[n]
    BY <1>1 DEF FlattenSeq
  <2>2. Recurs1(CHOOSE h : Recurs1(h, n), n)
    <3> HIDE DEF Recurs1
    <3> QED
      BY <1>12
  <2> HIDE DEF Recurs1
  <2> QED
    BY <2>1, <2>2
<1>14. \A i \in 1 .. n : h[i] = IF i = 1 THEN seqs[i] ELSE h[i - 1] \o seqs[i]
  BY <1>13
<1> DEFINE P == {k \in 0 .. n : k # 0 => h[k] \in Seq(C)}
<1>15. 0 \in P
  OBVIOUS
<1>16. ASSUME NEW k \in 1 .. n, k - 1 \in P PROVE k \in P
  <2>1. CASE k = 1
    BY <1>2, <1>14, <2>1
  <2>2. CASE k # 1
    <3>0. k - 1 # 0 /\ (k - 1 # 0 => h[k - 1] \in Seq(C))
      BY <1>16, <2>2
    <3>1. h[k - 1] \in Seq(C) /\ h[k] = h[k - 1] \o seqs[k] /\ seqs[k] \in Seq(C)
      BY <1>2, <1>14, <2>2, <3>0
    <3>2. h[k] \in Seq(C)
      BY <3>1, ConcatProperties
    <3> QED
      BY <3>2
  <2> QED
    BY <2>1, <2>2
<1>17. \A k \in 1 .. n : h[k] \in Seq(C)
  <2>1. n \in Nat
    OBVIOUS
  <2> HIDE DEF P
  <2>2. 0 .. n \subseteq P
    BY <1>15, <1>16, <2>1, UptoInduction
  <2> QED
    BY <2>2 DEF P
<1>18. Flattens(h, seqs, C)
  <2>1. h = [i \in 1 .. n |-> h[i]]
    BY <1>13
  <2>2. h \in [1 .. n -> Seq(C)]
    BY <1>17, <2>1
  <2>3. h[1] = seqs[1]
    <3>1. 1 \in 1 .. n
      OBVIOUS
    <3> QED
      BY <1>14, <3>1
  <2>4. \A i \in 2 .. n : h[i] = h[i - 1] \o seqs[i]
    <3> TAKE i \in 2 .. n
    <3>1. i \in 1 .. n /\ i # 1
      OBVIOUS
    <3> QED
      BY <1>14, <3>1
  <2> QED
    BY <1>1, <2>2, <2>3, <2>4 DEF Flattens
<1> QED
  BY <1>1, <1>13, <1>18

\* One sequence more flattens to what it adds.
LEMMA FlattenAppends ==
    ASSUME NEW C, NEW seqs \in Seq(Seq(C)), NEW e \in Seq(C)
    PROVE  /\ FlattenSeq(seqs) \in Seq(C) /\ FlattenSeq(<< >>) = << >>
           /\ FlattenSeq(Append(seqs, e)) = FlattenSeq(seqs) \o e
<1>1. FlattenSeq(<< >>) = << >>
  <2>1. Len(<< >>) = 0
    BY EmptySeq
  <2> QED
    BY <2>1 DEF FlattenSeq
<1>2. PICK n \in Nat : Len(seqs) = n
  BY LenProperties
<1>3. PICK t : t = Append(seqs, e)
  OBVIOUS
<1>4. /\ t \in Seq(Seq(C)) /\ t # << >> /\ Len(t) = n + 1
      /\ \A i \in 1 .. n : t[i] = seqs[i]
      /\ t[n + 1] = e
  BY <1>2, <1>3, AppendProperties
<1>5. PICK h : Flattens(h, t, C) /\ FlattenSeq(t) = h[n + 1]
  BY <1>4, FlattenIs
<1>6. CASE seqs = << >>
  <2>1. n = 0
    BY <1>2, <1>6, EmptySeq
  <2>2. FlattenSeq(t) = e
    BY <1>4, <1>5, <2>1 DEF Flattens
  <2>3. << >> \in Seq(C)
    BY EmptySeq
  <2> QED
    BY <1>1, <1>3, <1>6, <2>2, <2>3, ConcatEmptySeq
<1>7. CASE seqs # << >>
  <2>1. PICK f : Flattens(f, seqs, C) /\ FlattenSeq(seqs) = f[n]
    BY <1>2, <1>7, FlattenIs
  <2>2. n # 0
    BY <1>2, <1>7, EmptySeq
  <2> DEFINE P == {k \in 0 .. n : k # 0 => h[k] = f[k]}
  <2>3. 0 \in P
    OBVIOUS
  <2>4. ASSUME NEW k \in 1 .. n, k - 1 \in P PROVE k \in P
    <3>1. CASE k = 1
      BY <1>4, <1>5, <2>1, <3>1 DEF Flattens
    <3>2. CASE k # 1
      <4>1. k \in 2 .. n /\ k \in 2 .. n + 1 /\ k - 1 # 0
        BY <3>2
      <4>2. h[k - 1] = f[k - 1]
        BY <2>4, <4>1
      <4>3. h[k] = h[k - 1] \o t[k]
        BY <1>4, <1>5, <4>1 DEF Flattens
      <4>4. f[k] = f[k - 1] \o seqs[k]
        BY <1>2, <2>1, <4>1 DEF Flattens
      <4>5. h[k] = f[k]
        BY <1>4, <4>2, <4>3, <4>4
      <4> QED
        BY <4>5
    <3> QED
      BY <3>1, <3>2
  <2>5. n \in P
    <3> HIDE DEF P
    <3>1. 0 .. n \subseteq P
      BY <2>3, <2>4, UptoInduction
    <3> QED
      BY <3>1
  <2>6. h[n] = f[n] /\ f[n] \in Seq(C)
    BY <1>2, <2>1, <2>2, <2>5 DEF Flattens
  <2>7. h[n + 1] = h[n] \o t[n + 1]
    <3>1. n + 1 \in 2 .. n + 1 /\ (n + 1) - 1 = n
      BY <2>2
    <3> QED
      BY <1>4, <1>5, <3>1 DEF Flattens
  <2> QED
    BY <1>1, <1>3, <1>4, <1>5, <2>1, <2>6, <2>7
<1> QED
  BY <1>6, <1>7

------------------------------------------------------------------------------
(* Packing a record: one entry for each run of equal cells.                   *)

Entries(C, dict) == [cell : C, times : Nat, dict : {dict}]

\* The cells an entry stands for, and those of every entry of a frame.
RunOf(e) == << >> \o [j \in 1 .. e.times |-> e.cell]
RunsOf(frame) == << >> \o [i \in DOMAIN frame |-> RunOf(frame[i])]

\* A listing over 1 .. n is a sequence, also behind an empty one.
LEMMA ListingIs ==
    ASSUME NEW S, NEW n \in Nat, NEW f \in [1 .. n -> S]
    PROVE  << >> \o f = f /\ f \in Seq(S) /\ Len(f) = n
<1>1. f \in Seq(S)
  BY SeqDef
<1>2. Len(f) = n
  BY <1>1, LenProperties
<1> QED
  BY <1>1, <1>2, ConcatEmptySeq

\* An entry stands for `times` equal cells.
LEMMA RunIs ==
    ASSUME NEW C, NEW dict, NEW e \in Entries(C, dict)
    PROVE  /\ RunOf(e) \in Seq(C) /\ Len(RunOf(e)) = e.times
           /\ \A j \in 1 .. e.times : RunOf(e)[j] = e.cell
<1>1. e.times \in Nat /\ e.cell \in C
  BY DEF Entries
<1> DEFINE f == [j \in 1 .. e.times |-> e.cell]
<1>2. f \in [1 .. e.times -> C] /\ \A j \in 1 .. e.times : f[j] = e.cell
  BY <1>1
<1>3. RunOf(e) = << >> \o f
  BY DEF RunOf
<1> HIDE DEF f
<1>4. << >> \o f = f /\ f \in Seq(C) /\ Len(f) = e.times
  BY <1>1, <1>2, ListingIs
<1> QED
  BY <1>2, <1>3, <1>4

\* No entry, no cell.
LEMMA RunsOfNone == Inflate(<< >>) = << >>
<1>1. << >> \in Seq({}) /\ Len(<< >>) = 0 /\ DOMAIN << >> = 1 .. 0
  BY EmptySeq, LenProperties
<1> DEFINE f == [i \in 1 .. 0 |-> RunOf(<< >>[i])]
<1>2. f \in [1 .. 0 -> Seq({})]
  OBVIOUS
<1>3. Inflate(<< >>) = FlattenSeq(<< >> \o f)
  BY <1>1 DEF Inflate, RunOf
<1> HIDE DEF f
<1>4. << >> \o f = f /\ f \in Seq(Seq({})) /\ Len(f) = 0
  BY <1>2, ListingIs
<1>5. f = << >>
  BY <1>4, EmptySeq
<1>6. << >> \in Seq(Seq({})) /\ << >> \in Seq({})
  BY EmptySeq
<1>7. FlattenSeq(<< >>) = << >>
  BY <1>6, FlattenAppends
<1> QED
  BY <1>3, <1>4, <1>5, <1>7

\* One entry more adds its run.
LEMMA InflateAppends ==
    ASSUME NEW C, NEW dict, NEW fr \in Seq(Entries(C, dict)), NEW e \in Entries(C, dict)
    PROVE  Inflate(fr) \in Seq(C) /\ Inflate(Append(fr, e)) = Inflate(fr) \o RunOf(e)
<1>1. ASSUME NEW t \in Seq(Entries(C, dict))
      PROVE  /\ Inflate(t) = FlattenSeq(RunsOf(t)) /\ RunsOf(t) \in Seq(Seq(C))
             /\ Len(RunsOf(t)) = Len(t) /\ \A i \in 1 .. Len(t) : RunsOf(t)[i] = RunOf(t[i])
  <2>1. PICK n \in Nat : Len(t) = n /\ DOMAIN t = 1 .. n
    BY LenProperties
  <2>2. \A i \in 1 .. n : RunOf(t[i]) \in Seq(C)
    BY <2>1, ElementOfSeq, RunIs
  <2> DEFINE f == [i \in 1 .. n |-> RunOf(t[i])]
  <2>3. f \in [1 .. n -> Seq(C)] /\ \A i \in 1 .. n : f[i] = RunOf(t[i])
    BY <2>2
  <2>4. RunsOf(t) = << >> \o f
    BY <2>1 DEF RunsOf
  <2> HIDE DEF f
  <2>5. << >> \o f = f /\ f \in Seq(Seq(C)) /\ Len(f) = n
    BY <2>3, ListingIs
  <2>6. Inflate(t) = FlattenSeq(RunsOf(t))
    BY DEF Inflate, RunsOf, RunOf
  <2> QED
    BY <2>1, <2>3, <2>4, <2>5, <2>6
<1>2. PICK t : t = Append(fr, e)
  OBVIOUS
<1>3. PICK n \in Nat : Len(fr) = n
  BY LenProperties
<1>4. t \in Seq(Entries(C, dict)) /\ Len(t) = n + 1 /\ t[n + 1] = e /\ \A i \in 1 .. n : t[i] = fr[i]
  BY <1>2, <1>3, AppendProperties
<1>5. PICK a, b : a = RunsOf(fr) /\ b = RunsOf(t)
  OBVIOUS
<1>6. a \in Seq(Seq(C)) /\ Len(a) = n /\ (\A i \in 1 .. n : a[i] = RunOf(fr[i])) /\ Inflate(fr) = FlattenSeq(a)
  BY <1>1, <1>3, <1>5
<1>7. b \in Seq(Seq(C)) /\ Len(b) = n + 1 /\ (\A i \in 1 .. n + 1 : b[i] = RunOf(t[i])) /\ Inflate(t) = FlattenSeq(b)
  BY <1>1, <1>4, <1>5
<1>8. PICK r : r = RunOf(e)
  OBVIOUS
<1>9. r \in Seq(C)
  BY <1>8, RunIs
<1>10. PICK p : p = Append(a, r)
  OBVIOUS
<1>11. p \in Seq(Seq(C)) /\ Len(p) = n + 1 /\ p[n + 1] = r /\ \A i \in 1 .. n : p[i] = a[i]
  BY <1>6, <1>9, <1>10, AppendProperties
<1>12. \A i \in 1 .. n + 1 : b[i] = p[i]
  <2>1. \A i \in 1 .. n : b[i] = p[i]
    BY <1>4, <1>6, <1>7, <1>11
  <2>2. b[n + 1] = p[n + 1]
    BY <1>4, <1>7, <1>8, <1>11
  <2>3. \A i \in 1 .. n + 1 : i \in 1 .. n \/ i = n + 1
    OBVIOUS
  <2> QED
    BY <2>1, <2>2, <2>3
<1>13. b = p
  BY <1>7, <1>11, <1>12, SeqEqual
<1>14. FlattenSeq(a) \in Seq(C) /\ FlattenSeq(<< >>) = << >> /\ FlattenSeq(p) = FlattenSeq(a) \o r
  BY <1>6, <1>9, <1>10, FlattenAppends
<1> QED
  BY <1>2, <1>6, <1>7, <1>8, <1>13, <1>14

\* The step of Compress: one more of the last cell, or a new entry.
PackStep(out, c, dict) ==
    IF out # << >> /\ Last(out).cell = c
    THEN Front(out) \o << [Last(out) EXCEPT !.times = @ + 1] >>
    ELSE Append(out, [cell |-> c, times |-> 1, dict |-> dict])

\* What it packs inflates to one cell more.
Packs(out, c, b, C, dict) ==
    /\ b \in Seq(Entries(C, dict)) /\ b # << >>
    /\ Inflate(out) \in Seq(C) /\ Inflate(b) = Append(Inflate(out), c)

\* The step of Compress adds the cell to what its frame inflates to.
LEMMA PackStepInflates ==
    ASSUME NEW C, NEW dict, NEW out \in Seq(Entries(C, dict)), NEW c \in C,
           NEW b, b = PackStep(out, c, dict)
    PROVE  Packs(out, c, b, C, dict)
<1>1. PICK n \in Nat : Len(out) = n /\ (out # << >> => n # 0)
  BY LenProperties, EmptySeq
<1>2. CASE out # << >> /\ Last(out).cell = c
  <2>1. n \in 1 .. n /\ n - 1 \in Nat /\ n # 0
    BY <1>1, <1>2
  <2>2. PICK e : e = out[n]
    OBVIOUS
  <2>3. e \in Entries(C, dict) /\ e.cell = c
    BY <1>1, <1>2, <2>1, <2>2, ElementOfSeq DEF Last
  <2>4. PICK f : f = Front(out)
    OBVIOUS
  <2>5. f \in Seq(Entries(C, dict)) /\ Len(f) = n - 1 /\ \A i \in 1 .. n - 1 : f[i] = out[i]
    <3>1. \A i \in 1 .. n - 1 : out[i] \in Entries(C, dict)
      BY <1>1, ElementOfSeq
    <3>2. /\ SubSeq(out, 1, n - 1) \in Seq(Entries(C, dict))
          /\ Len(SubSeq(out, 1, n - 1)) = IF 1 <= n - 1 THEN (n - 1) - 1 + 1 ELSE 0
          /\ \A i \in 1 .. (n - 1) - 1 + 1 : SubSeq(out, 1, n - 1)[i] = out[1 + i - 1]
      BY <2>1, <3>1, SubSeqProperties
    <3>3. f = SubSeq(out, 1, n - 1)
      BY <1>1, <2>4 DEF Front
    <3>4. (IF 1 <= n - 1 THEN (n - 1) - 1 + 1 ELSE 0) = n - 1 /\ (n - 1) - 1 + 1 = n - 1
          /\ \A i \in 1 .. n - 1 : 1 + i - 1 = i
      BY <2>1
    <3> QED
      BY <3>2, <3>3, <3>4
  <2>6. out = Append(f, e)
    <3>1. PICK p : p = Append(f, e)
      OBVIOUS
    <3>2. p \in Seq(Entries(C, dict)) /\ Len(p) = n /\ p[n] = e /\ \A i \in 1 .. n - 1 : p[i] = f[i]
      <4>1. (n - 1) + 1 = n
        OBVIOUS
      <4> QED
        BY <2>3, <2>5, <3>1, <4>1, AppendProperties
    <3>3. \A i \in 1 .. n : i = n \/ i \in 1 .. n - 1
      OBVIOUS
    <3>4. \A i \in 1 .. n : out[i] = p[i]
      BY <2>2, <2>5, <3>2, <3>3
    <3>5. out = p
      BY <1>1, <3>2, <3>4, SeqEqual
    <3> QED
      BY <3>1, <3>5
  <2>7. PICK w : w = [e EXCEPT !.times = @ + 1]
    OBVIOUS
  <2>8. w \in Entries(C, dict) /\ w.times = e.times + 1 /\ w.cell = c
    BY <2>3, <2>7 DEF Entries
  <2>9. b = f \o << w >>
    BY <1>1, <1>2, <2>2, <2>4, <2>7 DEF PackStep, Last
  <2>10. b = Append(f, w)
    BY <2>5, <2>8, <2>9, AppendIsConcat
  <2>11. b \in Seq(Entries(C, dict)) /\ b # << >>
    BY <2>5, <2>8, <2>10, AppendProperties
  <2>12. PICK r, s : r = RunOf(e) /\ s = RunOf(w)
    OBVIOUS
  <2>13. PICK m \in Nat : m = e.times
    BY <2>3 DEF Entries
  <2>14. /\ r \in Seq(C) /\ Len(r) = m /\ \A j \in 1 .. m : r[j] = c
         /\ s \in Seq(C) /\ Len(s) = m + 1 /\ \A j \in 1 .. m + 1 : s[j] = c
    BY <2>3, <2>8, <2>12, <2>13, RunIs
  <2>15. s = Append(r, c)
    <3>1. PICK p : p = Append(r, c)
      OBVIOUS
    <3>2. p \in Seq(C) /\ Len(p) = m + 1 /\ p[m + 1] = c /\ \A j \in 1 .. m : p[j] = r[j]
      BY <2>14, <3>1, AppendProperties
    <3>3. \A j \in 1 .. m + 1 : j = m + 1 \/ j \in 1 .. m
      OBVIOUS
    <3>4. \A j \in 1 .. m + 1 : s[j] = p[j]
      BY <2>14, <3>2, <3>3
    <3> QED
      BY <2>14, <3>1, <3>2, <3>4, SeqEqual
  <2>16. PICK v : v = Inflate(f)
    OBVIOUS
  <2>17. v \in Seq(C) /\ Inflate(out) = v \o r /\ Inflate(b) = v \o s
    <3>1. Inflate(f) \in Seq(C) /\ Inflate(Append(f, e)) = Inflate(f) \o RunOf(e)
      BY <2>3, <2>5, InflateAppends
    <3>2. Inflate(Append(f, w)) = Inflate(f) \o RunOf(w)
      BY <2>5, <2>8, InflateAppends
    <3> QED
      BY <2>6, <2>10, <2>12, <2>16, <3>1, <3>2
  <2>18. v \o r \in Seq(C)
    BY <2>14, <2>17, ConcatProperties
  <2>19. v \o s = Append(v \o r, c)
    <3>1. PICK k : k = << c >>
      OBVIOUS
    <3>2. v \in Seq(C) /\ r \in Seq(C) /\ k \in Seq(C)
      BY <2>14, <2>17, <3>1
    <3>3. s = r \o k
      BY <2>14, <2>15, <3>1, AppendIsConcat
    <3>4. Append(v \o r, c) = (v \o r) \o k
      BY <2>18, <3>1, AppendIsConcat
    <3>5. (v \o r) \o k = v \o (r \o k)
      BY ONLY <3>2, ConcatAssociative
    <3> QED
      BY ONLY <3>3, <3>4, <3>5
  <2> QED
    BY <2>11, <2>17, <2>18, <2>19 DEF Packs
<1>3. CASE ~(out # << >> /\ Last(out).cell = c)
  <2>1. PICK e : e = [cell |-> c, times |-> 1, dict |-> dict]
    OBVIOUS
  <2>2. e \in Entries(C, dict) /\ e.times = 1 /\ e.cell = c
    BY <2>1 DEF Entries
  <2>3. b = Append(out, e)
    BY <1>3, <2>1 DEF PackStep
  <2>4. b \in Seq(Entries(C, dict)) /\ b # << >>
    BY <2>2, <2>3, AppendProperties
  <2>5. PICK v, r : v = Inflate(out) /\ r = RunOf(e)
    OBVIOUS
  <2>6. v \in Seq(C) /\ Inflate(b) = v \o r
    <3>1. Inflate(out) \in Seq(C) /\ Inflate(Append(out, e)) = Inflate(out) \o RunOf(e)
      BY <2>2, InflateAppends
    <3> QED
      BY <2>3, <2>5, <3>1
  <2>7. r \in Seq(C) /\ Len(r) = 1 /\ \A j \in 1 .. 1 : r[j] = c
    BY <2>2, <2>5, RunIs
  <2>8. r = << c >>
    <3>1. << c >> \in Seq(C) /\ Len(<< c >>) = 1 /\ \A j \in 1 .. 1 : r[j] = << c >>[j]
      BY <2>7
    <3> QED
      BY <2>7, <3>1, SeqEqual
  <2>9. v \o << c >> = Append(v, c)
    BY <2>6, AppendIsConcat
  <2> QED
    BY <2>4, <2>5, <2>6, <2>8, <2>9 DEF Packs
<1> QED
  BY <1>2, <1>3

\* The frame of a record inflates to the record, and every entry of it names
\* the dictionary.
LEMMA CompressIs ==
    ASSUME NEW C, NEW dict, NEW rec \in Seq(C), NEW packed, packed = Compress(rec, dict)
    PROVE  /\ packed \in Seq(Entries(C, dict)) /\ Inflate(packed) = rec
           /\ rec # << >> => packed # << >>
<1> DEFINE V == Seq(Entries(C, dict))
           Folds(g) == g = [s \in SUBSET (DOMAIN rec) |->
                              IF s = {} THEN << >>
                              ELSE PackStep(g[s \ {Max(s)}], rec[Max(s)], dict)]
<1>1. PICK n \in Nat : Len(rec) = n /\ DOMAIN rec = 1 .. n
  BY LenProperties
<1>2. \A k \in 1 .. n : rec[k] \in C
  BY <1>1, ElementOfSeq
<1>3. << >> \in V
  BY EmptySeq
<1>4. ASSUME NEW a \in V, NEW k \in 1 .. n PROVE PackStep(a, rec[k], dict) \in V
  <2>1. rec[k] \in C /\ a \in Seq(Entries(C, dict))
    BY <1>2 DEF V
  <2>2. Packs(a, rec[k], PackStep(a, rec[k], dict), C, dict)
    BY <2>1, PackStepInflates
  <2> QED
    BY <2>2 DEF Packs, V
<1> HIDE DEF V
<1>5. \E g : Folds(g)
  <2> DEFINE H == [p \in (1 .. n) \X V |-> PackStep(p[2], rec[p[1]], dict)]
  <2>1. H \in [(1 .. n) \X V -> V]
    BY <1>4
  <2>2. \A k \in 1 .. n, a \in V : H[<<k, a>>] = PackStep(a, rec[k], dict)
    OBVIOUS
  <2> HIDE DEF H
  <2>3. PICK g : Rounds(g, n, V, << >>, H)
    BY <1>3, <2>1, RoundsExist
  <2>4. ASSUME NEW s \in SUBSET (1 .. n), s # {}
        PROVE  g[s] = PackStep(g[s \ {Max(s)}], rec[Max(s)], dict)
    BY <2>2, <2>3, <2>4 DEF Rounds
  <2>5. g[{}] = << >> /\ g = [s \in SUBSET (1 .. n) |-> g[s]]
    BY <2>3 DEF Rounds
  <2>6. Folds(g)
    BY <1>1, <2>4, <2>5
  <2> QED
    BY <2>6
<1>6. PICK g : Folds(g) /\ packed = g[DOMAIN rec]
  <2>1. packed = (CHOOSE g : Folds(g))[DOMAIN rec]
    BY Zenon DEF Compress, FoldLeft, MapThenFoldSet, PackStep
  <2>2. Folds(CHOOSE g : Folds(g))
    <3> HIDE DEF Folds
    <3> QED
      BY <1>5
  <2> HIDE DEF Folds
  <2> QED
    BY <2>1, <2>2
<1>7. g[{}] = << >> /\ \A k \in 1 .. n : g[1 .. k] = PackStep(g[1 .. k - 1], rec[k], dict)
  <2>1. \A s \in SUBSET (1 .. n) : g[s] = IF s = {} THEN << >>
                                          ELSE PackStep(g[s \ {Max(s)}], rec[Max(s)], dict)
    BY <1>1, <1>6
  <2>2. \A k \in 1 .. n : 1 .. k \in SUBSET (1 .. n) /\ 1 .. k # {}
                          /\ Max(1 .. k) = k /\ (1 .. k) \ {k} = 1 .. k - 1
    BY InOrder
  <2>3. {} \in SUBSET (1 .. n)
    OBVIOUS
  <2> QED
    BY <2>1, <2>2, <2>3
<1> DEFINE Right(a, k) == /\ a \in V /\ (k # 0 => a # << >>)
                          /\ Inflate(a) \in Seq(C) /\ Len(Inflate(a)) = k
                          /\ \A i \in 1 .. k : Inflate(a)[i] = rec[i]
           P == {k \in 0 .. n : Right(g[1 .. k], k)}
<1>8. 0 \in P
  <2>1. g[1 .. 0] = << >> /\ 1 .. 0 = {}
    BY <1>7, InOrder
  <2>2. Inflate(<< >>) = << >> /\ << >> \in Seq(C) /\ Len(<< >>) = 0
    BY EmptySeq, RunsOfNone
  <2>3. Right(<< >>, 0)
    <3>1. \A i \in 1 .. 0 : FALSE
      OBVIOUS
    <3> QED
      BY <1>3, <2>2, <3>1
  <2> HIDE DEF Right
  <2>4. Right(g[1 .. 0], 0)
    BY <2>1, <2>3
  <2> QED
    BY <2>4
<1>9. ASSUME NEW k \in 1 .. n, k - 1 \in P PROVE k \in P
  <2>1. PICK a, b : a = g[1 .. k - 1] /\ b = g[1 .. k]
    OBVIOUS
  <2>0. Right(a, k - 1)
    BY <1>9, <2>1
  <2>2. PICK v : v = Inflate(a)
    OBVIOUS
  <2>3. a \in V /\ v \in Seq(C) /\ Len(v) = k - 1 /\ \A i \in 1 .. k - 1 : v[i] = rec[i]
    BY <2>0, <2>2
  <2>4. rec[k] \in C /\ b = PackStep(a, rec[k], dict)
    BY <1>2, <1>7, <2>1
  <2>5. b \in V /\ b # << >> /\ Inflate(b) = Append(v, rec[k])
    <3>1. b \in Seq(Entries(C, dict)) /\ b # << >> /\ Inflate(b) = Append(Inflate(a), rec[k])
      <4>1. a \in Seq(Entries(C, dict))
        BY <2>3 DEF V
      <4>2. PICK c \in C : c = rec[k]
        BY <2>4
      <4>3. b = PackStep(a, c, dict)
        BY <2>4, <4>2
      <4>4. Packs(a, c, b, C, dict)
        BY <4>1, <4>3, PackStepInflates
      <4> QED
        BY <4>2, <4>4 DEF Packs
    <3> QED
      BY <2>2, <3>1 DEF V
  <2>6. PICK w : w = Append(v, rec[k])
    OBVIOUS
  <2>7. w \in Seq(C) /\ Len(w) = (k - 1) + 1 /\ w[(k - 1) + 1] = rec[k] /\ \A i \in 1 .. k - 1 : w[i] = v[i]
    BY <2>3, <2>4, <2>6, AppendProperties
  <2>8. (k - 1) + 1 = k /\ \A i \in 1 .. k : i = k \/ i \in 1 .. k - 1
    OBVIOUS
  <2>9. Len(w) = k /\ \A i \in 1 .. k : w[i] = rec[i]
    BY <2>3, <2>7, <2>8
  <2>10. k \in 0 .. n
    OBVIOUS
  <2>11. Right(b, k)
    BY <2>5, <2>6, <2>7, <2>9
  <2> HIDE DEF Right
  <2> QED
    BY <2>1, <2>10, <2>11
<1>10. n \in P
  <2> HIDE DEF P
  <2>1. 0 .. n \subseteq P
    BY <1>8, <1>9, UptoInduction
  <2> QED
    BY <2>1
<1>11. Right(packed, n)
  <2>1. packed = g[1 .. n]
    BY <1>1, <1>6
  <2> HIDE DEF Right
  <2> QED
    BY <1>10, <2>1
<1>12. packed \in V /\ Inflate(packed) \in Seq(C) /\ Len(Inflate(packed)) = n
       /\ (\A i \in 1 .. n : Inflate(packed)[i] = rec[i]) /\ (n # 0 => packed # << >>)
  BY <1>11
<1>13. Inflate(packed) = rec
  BY <1>1, <1>12, SeqEqual
<1>14. rec # << >> => n # 0
  BY <1>1, EmptySeq
<1> QED
  BY <1>12, <1>13, <1>14 DEF V

------------------------------------------------------------------------------
(* Writing the records: an index of where each ends.                          *)

\* A record's bytes, and what they are made of.
BytesOf(rec, dict) == IF dict = NoDict THEN rec ELSE Frame(rec, dict)
Laid(C, dict) == C \union {Raw, Zstd} \union Entries(C, dict)

\* The bytes of a record are cells, tags and entries.
LEMMA BytesAre ==
    ASSUME NEW C, NEW dict, NEW rec \in Seq(C)
    PROVE  BytesOf(rec, dict) \in Seq(Laid(C, dict))
<1> DEFINE D == Laid(C, dict)
<1>1. C \subseteq D /\ {Raw, Zstd} \subseteq D /\ Entries(C, dict) \subseteq D
  BY DEF Laid
<1> HIDE DEF D
<1>2. PICK packed : packed = Compress(rec, dict)
  OBVIOUS
<1>3. packed \in Seq(Entries(C, dict))
  BY <1>2, CompressIs
<1>4. rec \in Seq(D) /\ packed \in Seq(D)
  BY <1>1, <1>3, SeqMonotonic
<1>5. << Raw >> \in Seq(D) /\ << Zstd >> \in Seq(D) /\ << >> \in Seq(D)
  BY <1>1, EmptySeq
<1>6. << Raw >> \o rec \in Seq(D) /\ << Zstd >> \o packed \in Seq(D)
  BY <1>4, <1>5, ConcatProperties
<1>7. Frame(rec, dict) \in Seq(D)
  BY <1>2, <1>5, <1>6 DEF Frame
<1> QED
  BY <1>4, <1>7 DEF BytesOf, D

\* The index header of write_records and write_records_zstd.
Header(n, dict) == [version |-> IF dict = NoDict THEN 1 ELSE 2, count |-> n]

Writers(C, dict, n) ==
    [bin : Seq(Laid(C, dict)), off : Nat, dict : {dict}, idx : Seq(Nat \union {Header(n, dict)})]

\* The bytes of a record lie from here on.
Lies(bin, off, bytes) == \A x \in 1 .. Len(bytes) : bin[off + x] = bytes[x]

\* The first k records are written.
Written(w, k, recs, dict) ==
    /\ Len(w.bin) = w.off /\ Len(w.idx) = k + 2
    /\ w.idx[1] = Header(Len(recs), dict) /\ w.idx[k + 2] = w.off
    /\ \A j \in 1 .. k :
          /\ w.idx[j + 1] \in Nat /\ w.idx[j + 1] + Len(BytesOf(recs[j], dict)) <= w.off
          /\ w.idx[j + 2] = w.idx[j + 1] + Len(BytesOf(recs[j], dict))
          /\ Lies(w.bin, w.idx[j + 1], BytesOf(recs[j], dict))

\* WriteRecord keeps a writer one.
LEMMA WriterStays ==
    ASSUME NEW C, NEW dict, NEW n, NEW w \in Writers(C, dict, n), NEW rec \in Seq(C)
    PROVE  WriteRecord(w, rec) \in Writers(C, dict, n)
<1> DEFINE D == Laid(C, dict)
           I == Nat \union {Header(n, dict)}
<1>1. PICK bytes : bytes = BytesOf(rec, dict)
  OBVIOUS
<1>2. bytes \in Seq(D)
  BY <1>1, BytesAre
<1>3. PICK m \in Nat : m = Len(bytes)
  BY <1>2, LenProperties
<1>4. /\ w.bin \in Seq(D) /\ w.off \in Nat /\ w.idx \in Seq(I) /\ w.dict = dict
      /\ w = [bin |-> w.bin, off |-> w.off, dict |-> dict, idx |-> w.idx]
  BY DEF Writers
<1>5. PICK bin2, idx2 : bin2 = w.bin \o bytes /\ idx2 = Append(w.idx, w.off + m)
  OBVIOUS
<1>6. WriteRecord(w, rec) = [bin |-> bin2, off |-> w.off + m, dict |-> dict, idx |-> idx2]
  <2>1. bytes = IF w.dict = NoDict THEN rec ELSE Frame(rec, w.dict)
    BY <1>1, <1>4 DEF BytesOf
  <2>2. WriteRecord(w, rec)
          = [w EXCEPT !.bin = @ \o bytes, !.off = @ + Len(bytes), !.idx = Append(@, w.off + Len(bytes))]
    BY Zenon, <2>1 DEF WriteRecord
  <2> QED
    BY <1>3, <1>4, <1>5, <2>2
<1>7. w.off + m \in Nat /\ w.off + m \in I
  BY <1>4
<1> HIDE DEF D, I
<1>8. bin2 \in Seq(D) /\ idx2 \in Seq(I)
  <2>1. w.bin \o bytes \in Seq(D)
    BY <1>2, <1>4, ConcatProperties
  <2>2. Append(w.idx, w.off + m) \in Seq(I)
    BY <1>4, <1>7, AppendProperties
  <2> QED
    BY <1>5, <2>1, <2>2
<1> QED
  BY <1>6, <1>7, <1>8 DEF Writers, D, I

\* WriteRecord writes one record more.
LEMMA WriteStep ==
    ASSUME NEW C, NEW dict, NEW recs \in Seq(Seq(C)), NEW k \in 1 .. Len(recs),
           NEW w \in Writers(C, dict, Len(recs)), Written(w, k - 1, recs, dict),
           NEW b, b = WriteRecord(w, recs[k])
    PROVE  b \in Writers(C, dict, Len(recs)) /\ Written(b, k, recs, dict)
<1> DEFINE D == Laid(C, dict)
           I == Nat \union {Header(Len(recs), dict)}
<1>1. PICK n \in Nat : n = Len(recs)
  BY LenProperties
<1>2. PICK bytes : bytes = BytesOf(recs[k], dict)
  OBVIOUS
<1>3. bytes \in Seq(D)
  <2>1. recs[k] \in Seq(C)
    BY ElementOfSeq
  <2> QED
    BY <1>2, <2>1, BytesAre
<1>4. PICK m \in Nat : m = Len(bytes)
  BY <1>3, LenProperties
<1>5. PICK bin, off, idx : bin = w.bin /\ off = w.off /\ idx = w.idx
  OBVIOUS
<1>0. off \in Nat
  BY <1>5 DEF Writers
<1>6. bin \in Seq(D) /\ idx \in Seq(I) /\ w.dict = dict
      /\ w = [bin |-> bin, off |-> off, dict |-> dict, idx |-> idx]
  BY <1>5 DEF Writers
<1>7. /\ Len(bin) = off /\ Len(idx) = k + 1 /\ idx[1] = Header(Len(recs), dict) /\ idx[k + 1] = off
      /\ \A j \in 1 .. k - 1 :
            /\ idx[j + 1] \in Nat /\ idx[j + 1] + Len(BytesOf(recs[j], dict)) <= off
            /\ idx[j + 2] = idx[j + 1] + Len(BytesOf(recs[j], dict))
            /\ Lies(bin, idx[j + 1], BytesOf(recs[j], dict))
  <2>1. (k - 1) + 2 = k + 1
    BY <1>1
  <2> QED
    BY <1>5, <2>1 DEF Written
<1>8. PICK bin2, idx2 : bin2 = bin \o bytes /\ idx2 = Append(idx, off + m)
  OBVIOUS
<1>9. b = [bin |-> bin2, off |-> off + m, dict |-> dict, idx |-> idx2]
  <2>1. bytes = IF w.dict = NoDict THEN recs[k] ELSE Frame(recs[k], w.dict)
    BY <1>2, <1>6 DEF BytesOf
  <2>2. b = [w EXCEPT !.bin = @ \o bytes, !.off = @ + Len(bytes), !.idx = Append(@, w.off + Len(bytes))]
    BY Zenon, <2>1 DEF WriteRecord
  <2> QED
    BY <1>4, <1>5, <1>6, <1>8, <2>2
<1> HIDE DEF D, I
<1>10. bin2 \in Seq(D) /\ Len(bin2) = off + m
       /\ \A x \in 1 .. off + m : bin2[x] = IF x <= off THEN bin[x] ELSE bytes[x - off]
  <2>1. /\ bin \o bytes \in Seq(D) /\ Len(bin \o bytes) = Len(bin) + Len(bytes)
        /\ \A x \in 1 .. Len(bin) + Len(bytes) :
              (bin \o bytes)[x] = IF x <= Len(bin) THEN bin[x] ELSE bytes[x - Len(bin)]
    BY <1>3, <1>6, ConcatProperties
  <2> QED
    BY <1>4, <1>7, <1>8, <2>1
<1>11. idx2 \in Seq(I) /\ Len(idx2) = k + 2 /\ idx2[k + 2] = off + m /\ \A i \in 1 .. k + 1 : idx2[i] = idx[i]
  <2>1. off + m \in I
    BY <1>0 DEF I
  <2>2. (k + 1) + 1 = k + 2
    BY <1>1
  <2> QED
    BY <1>6, <1>7, <1>8, <2>1, <2>2, AppendProperties
<1>12. b \in Writers(C, dict, Len(recs))
  BY <1>0, <1>6, <1>9, <1>10, <1>11 DEF Writers, D, I
<1>13. ASSUME NEW j \in 1 .. k
       PROVE  /\ idx2[j + 1] \in Nat /\ idx2[j + 1] + Len(BytesOf(recs[j], dict)) <= off + m
              /\ idx2[j + 2] = idx2[j + 1] + Len(BytesOf(recs[j], dict))
              /\ Lies(bin2, idx2[j + 1], BytesOf(recs[j], dict))
  <2>1. CASE j = k
    <3>1. k + 1 \in 1 .. k + 1
      BY <1>1
    <3>2. idx2[j + 1] = off /\ idx2[j + 2] = off + m
      BY <1>7, <1>11, <2>1, <3>1
    <3>3. Lies(bin2, off, bytes)
      <4>1. ASSUME NEW x \in 1 .. m PROVE bin2[off + x] = bytes[x]
        <5>1. off + x \in 1 .. off + m /\ ~(off + x <= off) /\ (off + x) - off = x
          BY ONLY <1>0, m \in Nat, x \in 1 .. m
        <5> QED
          BY <1>10, <5>1
      <4> QED
        BY <1>4, <4>1 DEF Lies
    <3> QED
      BY <1>0, <1>2, <1>4, <2>1, <3>2, <3>3
  <2>2. CASE j # k
    <3>1. j \in 1 .. k - 1 /\ j + 1 \in 1 .. k + 1 /\ j + 2 \in 1 .. k + 1
      BY <1>1, <2>2
    <3>2. PICK old, o : old = BytesOf(recs[j], dict) /\ o = idx[j + 1]
      OBVIOUS
    <3>3. old \in Seq(D)
      <4>1. j \in 1 .. Len(recs)
        BY <1>1, <3>1
      <4>2. recs[j] \in Seq(C)
        BY <4>1, ElementOfSeq
      <4> QED
        BY <3>2, <4>2, BytesAre DEF D
    <3>4. PICK l \in Nat : l = Len(old)
      BY <3>3, LenProperties
    <3>5. o \in Nat /\ o + l <= off /\ idx[j + 2] = o + l /\ Lies(bin, o, old)
      BY <1>7, <3>1, <3>2, <3>4
    <3>6. idx2[j + 1] = o /\ idx2[j + 2] = o + l
      BY <1>11, <3>1, <3>2, <3>5
    <3>7. Lies(bin2, o, old)
      <4>1. ASSUME NEW x \in 1 .. l PROVE bin2[o + x] = old[x]
        <5>1. o + x \in 1 .. off + m /\ o + x <= off
          BY ONLY <1>0, <3>5, l \in Nat, m \in Nat, x \in 1 .. l
        <5>2. bin[o + x] = old[x]
          BY <3>4, <3>5 DEF Lies
        <5> QED
          BY <1>10, <5>1, <5>2
      <4> QED
        BY <3>4, <4>1 DEF Lies
    <3>8. o + l <= off + m
      BY ONLY <1>0, <3>5, l \in Nat, m \in Nat
    <3> QED
      BY <3>2, <3>4, <3>5, <3>6, <3>7, <3>8
  <2> QED
    BY <2>1, <2>2
<1>14. idx2[1] = Header(Len(recs), dict)
  <2>1. 1 \in 1 .. k + 1
    BY <1>1
  <2> QED
    BY <1>7, <1>11, <2>1
<1>15. b.bin = bin2 /\ b.off = off + m /\ b.idx = idx2
  BY <1>9
<1>16. Written(b, k, recs, dict)
  BY <1>10, <1>11, <1>13, <1>14, <1>15 DEF Written
<1> QED
  BY <1>12, <1>16

\* Written one by one, they are all there.
LEMMA RecordsWritten ==
    ASSUME NEW C, NEW dict, NEW recs \in Seq(Seq(C)), NEW w, w = WriteRecords(recs, dict)
    PROVE  w \in Writers(C, dict, Len(recs)) /\ Written(w, Len(recs), recs, dict)
<1> DEFINE V == Writers(C, dict, Len(recs))
           Base == [bin |-> << >>, off |-> 0, dict |-> dict,
                    idx |-> << [version |-> IF dict = NoDict THEN 1 ELSE 2, count |-> Len(recs)], 0 >>]
           Folds(g) == g = [s \in SUBSET (DOMAIN recs) |->
                              IF s = {} THEN Base ELSE WriteRecord(g[s \ {Max(s)}], recs[Max(s)])]
           Right(a, k) == a \in V /\ Written(a, k, recs, dict)
<1>1. PICK n \in Nat : Len(recs) = n /\ DOMAIN recs = 1 .. n
  BY LenProperties
<1>2. PICK base : base = Base
  OBVIOUS
<1>3. Right(base, 0)
  <2>1. base = [bin |-> << >>, off |-> 0, dict |-> dict, idx |-> << Header(Len(recs), dict), 0 >>]
    BY <1>2 DEF Header
  <2>2. base.bin = << >> /\ base.off = 0 /\ base.idx = << Header(Len(recs), dict), 0 >>
    BY <2>1
  <2>3. << >> \in Seq(Laid(C, dict)) /\ Len(<< >>) = 0
    BY EmptySeq
  <2>4. base \in V
    BY <2>1, <2>3 DEF Writers
  <2>5. Written(base, 0, recs, dict)
    <3>1. Len(base.bin) = base.off /\ Len(base.idx) = 0 + 2
      BY <2>2, <2>3
    <3>2. base.idx[1] = Header(Len(recs), dict) /\ base.idx[0 + 2] = base.off
      BY <2>2
    <3>3. \A j \in 1 .. 0 : FALSE
      OBVIOUS
    <3> QED
      BY <3>1, <3>2, <3>3 DEF Written
  <2> QED
    BY <2>4, <2>5
<1> HIDE DEF V
<1>4. ASSUME NEW k \in 1 .. n, NEW a, Right(a, k - 1) PROVE Right(WriteRecord(a, recs[k]), k)
  <2>1. k \in 1 .. Len(recs)
    BY <1>1
  <2>2. PICK b : b = WriteRecord(a, recs[k])
    OBVIOUS
  <2>3. a \in Writers(C, dict, Len(recs)) /\ Written(a, k - 1, recs, dict)
    BY <1>4 DEF V
  <2>4. b \in Writers(C, dict, Len(recs)) /\ Written(b, k, recs, dict)
    BY <2>1, <2>2, <2>3, WriteStep
  <2> QED
    BY <2>2, <2>4 DEF V
<1>5. ASSUME NEW a \in V, NEW k \in 1 .. n PROVE WriteRecord(a, recs[k]) \in V
  <2>1. recs[k] \in Seq(C)
    BY <1>1, ElementOfSeq
  <2> QED
    BY <2>1, WriterStays DEF V
<1> HIDE DEF Base, Right
<1>6. \E g : Folds(g)
  <2> DEFINE H == [p \in (1 .. n) \X V |-> WriteRecord(p[2], recs[p[1]])]
  <2>1. H \in [(1 .. n) \X V -> V]
    BY <1>5
  <2>2. \A k \in 1 .. n, a \in V : H[<<k, a>>] = WriteRecord(a, recs[k])
    OBVIOUS
  <2> HIDE DEF H
  <2>3. Base \in V
    BY <1>2, <1>3 DEF Right
  <2>4. PICK g : Rounds(g, n, V, Base, H)
    BY <2>1, <2>3, RoundsExist
  <2>5. ASSUME NEW s \in SUBSET (1 .. n), s # {}
        PROVE  g[s] = WriteRecord(g[s \ {Max(s)}], recs[Max(s)])
    BY <2>2, <2>4, <2>5 DEF Rounds
  <2>6. g[{}] = Base /\ g = [s \in SUBSET (1 .. n) |-> g[s]]
    BY <2>4 DEF Rounds
  <2>7. Folds(g)
    BY <1>1, <2>5, <2>6
  <2> QED
    BY <2>7
<1>7. PICK g : Folds(g) /\ w = g[DOMAIN recs]
  <2>1. w = (CHOOSE g : Folds(g))[DOMAIN recs]
    BY Zenon DEF WriteRecords, FoldLeft, MapThenFoldSet, Base
  <2>2. Folds(CHOOSE g : Folds(g))
    <3> HIDE DEF Folds
    <3> QED
      BY <1>6
  <2> HIDE DEF Folds
  <2> QED
    BY <2>1, <2>2
<1>8. g[{}] = Base /\ \A k \in 1 .. n : g[1 .. k] = WriteRecord(g[1 .. k - 1], recs[k])
  <2>1. \A s \in SUBSET (1 .. n) : g[s] = IF s = {} THEN Base
                                          ELSE WriteRecord(g[s \ {Max(s)}], recs[Max(s)])
    BY <1>1, <1>7
  <2>2. \A k \in 1 .. n : 1 .. k \in SUBSET (1 .. n) /\ 1 .. k # {}
                          /\ Max(1 .. k) = k /\ (1 .. k) \ {k} = 1 .. k - 1
    BY InOrder
  <2>3. {} \in SUBSET (1 .. n)
    OBVIOUS
  <2> QED
    BY <2>1, <2>2, <2>3
<1> DEFINE P == {k \in 0 .. n : Right(g[1 .. k], k)}
<1>9. 0 \in P
  <2>1. g[1 .. 0] = base
    BY <1>2, <1>8, InOrder
  <2> QED
    BY <1>3, <2>1
<1>10. ASSUME NEW k \in 1 .. n, k - 1 \in P PROVE k \in P
  <2>1. Right(g[1 .. k - 1], k - 1)
    BY <1>10
  <2>2. Right(WriteRecord(g[1 .. k - 1], recs[k]), k)
    BY <1>4, <2>1
  <2>3. k \in 0 .. n
    OBVIOUS
  <2> QED
    BY <1>8, <2>2, <2>3
<1>11. n \in P
  <2> HIDE DEF P
  <2>1. 0 .. n \subseteq P
    BY <1>9, <1>10, UptoInduction
  <2> QED
    BY <2>1
<1>12. w = g[1 .. n]
  BY <1>1, <1>7
<1>13. Right(w, n)
  BY <1>11, <1>12
<1> QED
  BY <1>1, <1>13 DEF Right, V

------------------------------------------------------------------------------
(* Reading a store back.                                                      *)

\* Raw bytes and the tail of a tagged record.
LEMMA Untagged ==
    ASSUME NEW S, NEW tag, NEW rest \in Seq(S), NEW bytes, bytes = << tag >> \o rest
    PROVE  /\ bytes # << >> /\ bytes[1] = tag /\ Tail(bytes) = rest /\ Len(bytes) = Len(rest) + 1
           /\ \A i \in 1 .. Len(rest) : bytes[i + 1] = rest[i]
<1> DEFINE T == S \union {tag}
<1>1. S \subseteq T /\ << tag >> \in Seq(T) /\ Len(<< tag >>) = 1
  OBVIOUS
<1> HIDE DEF T
<1>2. rest \in Seq(T)
  BY <1>1, SeqMonotonic
<1>3. PICK n \in Nat : Len(rest) = n
  BY LenProperties
<1>4. /\ << tag >> \o rest \in Seq(T) /\ Len(<< tag >> \o rest) = Len(<< tag >>) + Len(rest)
      /\ \A i \in 1 .. Len(<< tag >>) + Len(rest) :
            (<< tag >> \o rest)[i] = IF i <= Len(<< tag >>) THEN << tag >>[i] ELSE rest[i - Len(<< tag >>)]
  BY <1>1, <1>2, ConcatProperties
<1>5. bytes \in Seq(T) /\ Len(bytes) = n + 1
      /\ \A i \in 1 .. n + 1 : bytes[i] = IF i <= 1 THEN << tag >>[i] ELSE rest[i - 1]
  <2>1. 1 + n = n + 1
    OBVIOUS
  <2> QED
    BY <1>1, <1>3, <1>4, <2>1
<1>6. bytes # << >>
  BY <1>5, EmptySeq
<1>7. bytes[1] = tag
  <2>1. 1 \in 1 .. n + 1 /\ 1 <= 1
    OBVIOUS
  <2> QED
    BY <1>5, <2>1
<1>8. \A i \in 1 .. n : bytes[i + 1] = rest[i]
  <2> TAKE i \in 1 .. n
  <2>1. i + 1 \in 1 .. n + 1 /\ ~(i + 1 <= 1) /\ (i + 1) - 1 = i
    OBVIOUS
  <2> QED
    BY <1>5, <2>1
<1>9. Tail(bytes) = rest
  <2>1. PICK t : t = Tail(bytes)
    OBVIOUS
  <2>2. t \in Seq(T) /\ Len(t) = Len(bytes) - 1 /\ \A i \in 1 .. Len(t) : t[i] = bytes[i + 1]
    BY <1>5, <1>6, <2>1, HeadTailProperties
  <2>3. Len(t) = n /\ \A i \in 1 .. n : t[i] = rest[i]
    BY <1>5, <1>8, <2>2
  <2> QED
    BY <1>2, <1>3, <2>1, <2>2, <2>3, SeqEqual
<1> QED
  BY <1>3, <1>5, <1>6, <1>7, <1>8, <1>9

\* A record that cannot be read back, and what a good id reads as.
Spoiled(rec, dict, with) ==
    /\ dict # NoDict /\ Len(Compress(rec, dict)) < Len(rec)
    /\ with # dict \/ Len(rec) > MaxRecord
Reads(rec, dict, with) == IF Spoiled(rec, dict, with) THEN BadRecord ELSE rec

\* decode undoes frame_zstd, or fails where it cannot.
LEMMA DecodeIs ==
    ASSUME NEW C, NEW dict, NEW with, NEW rec \in Seq(C), NEW rs,
           rs.version = IF dict = NoDict THEN 1 ELSE 2, rs.dict = with
    PROVE  DecodeRecord(rs, BytesOf(rec, dict)) = Reads(rec, dict, with)
<1>1. PICK bytes : bytes = BytesOf(rec, dict)
  OBVIOUS
<1>2. PICK packed : packed = Compress(rec, dict)
  OBVIOUS
<1>3. packed \in Seq(Entries(C, dict)) /\ Inflate(packed) = rec /\ (rec # << >> => packed # << >>)
  BY <1>2, CompressIs
<1>4. CASE dict = NoDict
  BY <1>1, <1>4 DEF BytesOf, DecodeRecord, Reads, Spoiled
<1>5. CASE dict # NoDict /\ rec = << >>
  <2>1. bytes = << >> /\ ~(Len(packed) < Len(rec))
    <3>1. Len(rec) = 0 /\ Len(packed) \in Nat
      BY <1>3, <1>5, EmptySeq, LenProperties
    <3> QED
      BY <1>1, <1>5, <3>1 DEF BytesOf, Frame
  <2> QED
    BY <1>1, <1>2, <1>5, <2>1 DEF DecodeRecord, Reads, Spoiled
<1>6. CASE dict # NoDict /\ rec # << >> /\ ~(Len(packed) < Len(rec))
  <2>1. bytes = << Raw >> \o rec
    BY <1>1, <1>2, <1>6 DEF BytesOf, Frame
  <2>2. bytes # << >> /\ bytes[1] = Raw /\ Tail(bytes) = rec
    BY <2>1, Untagged
  <2>3. rs.version = 2
    BY <1>6
  <2>4. DecodeRecord(rs, bytes) = rec
    BY <2>2, <2>3 DEF DecodeRecord
  <2> QED
    BY <1>1, <1>2, <1>6, <2>4 DEF Reads, Spoiled
<1>7. CASE dict # NoDict /\ rec # << >> /\ Len(packed) < Len(rec)
  <2>1. bytes = << Zstd >> \o packed
    BY <1>1, <1>2, <1>7 DEF BytesOf, Frame
  <2>2. PICK n \in Nat \ {0} : Len(packed) = n
    BY <1>3, <1>7, EmptySeq
  <2>3. /\ bytes # << >> /\ bytes[1] = Zstd /\ Tail(bytes) = packed /\ Len(bytes) = n + 1
        /\ \A i \in 1 .. n : bytes[i + 1] = packed[i]
    BY <1>3, <2>1, <2>2, Untagged
  <2>4. bytes[1] # Raw
    BY <2>3 DEF Raw, Zstd
  <2>5. \A i \in 2 .. n + 1 : bytes[i].dict = dict
    <3> TAKE i \in 2 .. n + 1
    <3>1. i - 1 \in 1 .. n /\ (i - 1) + 1 = i
      OBVIOUS
    <3>2. bytes[i] = packed[i - 1]
      BY <2>3, <3>1
    <3>3. packed[i - 1] \in Entries(C, dict)
      BY <1>3, <2>2, <3>1, ElementOfSeq
    <3> QED
      BY <3>2, <3>3 DEF Entries
  <2>6. 2 \in 2 .. Len(bytes)
    BY <2>2, <2>3
  <2>7. (rs.dict = NoDict \/ \E i \in 2 .. Len(bytes) : bytes[i].dict # rs.dict) <=> with # dict
    BY <1>7, <2>3, <2>5, <2>6
  <2>8. rs.version # 1
    BY <1>7
  <2>9. DecodeRecord(rs, bytes) =
          IF with # dict THEN BadRecord ELSE IF Len(rec) > MaxRecord THEN BadRecord ELSE rec
    BY <1>3, <2>3, <2>4, <2>7, <2>8 DEF DecodeRecord
  <2>10. Spoiled(rec, dict, with) <=> (with # dict \/ Len(rec) > MaxRecord)
    BY <1>2, <1>7 DEF Spoiled
  <2> QED
    BY <1>1, <2>9, <2>10 DEF Reads
<1> QED
  BY <1>4, <1>5, <1>6, <1>7

\* What an open store holds.
Holds(rs, recs, dict, with) ==
    /\ rs.count = Len(recs) /\ rs.version = (IF dict = NoDict THEN 1 ELSE 2)
    /\ rs.dict = with /\ rs.gap \in Nat
    /\ rs.idx[1] = Header(Len(recs), dict) /\ Len(rs.idx) = Len(recs) + 2
    /\ \A id \in 0 .. Len(recs) - 1 :
          /\ rs.idx[id + 2] \in Nat /\ rs.idx[id + 3] \in Nat
          /\ rs.idx[id + 3] - rs.idx[id + 2] \in Nat
          /\ ReadAt(rs.bin, rs.idx[id + 2], rs.idx[id + 3] - rs.idx[id + 2])
               = BytesOf(recs[id + 1], dict)

\* A store opened from what was written holds the records.
LEMMA OpenedHolds ==
    ASSUME NEW C, NEW dict, NEW with, NEW recs \in Seq(Seq(C)), NEW gap \in Nat,
           NEW rs, rs = OpenRecords(WriteRecords(recs, dict), with, gap)
    PROVE  Holds(rs, recs, dict, with)
<1>1. PICK w : w = WriteRecords(recs, dict)
  OBVIOUS
<1>2. w \in Writers(C, dict, Len(recs)) /\ Written(w, Len(recs), recs, dict)
  BY <1>1, RecordsWritten
<1>3. PICK n \in Nat : n = Len(recs)
  BY LenProperties
<1>4. w.idx[1] = Header(n, dict) /\ Len(w.idx) = n + 2
  BY <1>2, <1>3 DEF Written
<1>5. /\ rs.idx = w.idx /\ rs.bin = w.bin /\ rs.dict = with /\ rs.gap = gap
      /\ rs.version = w.idx[1].version /\ rs.count = w.idx[1].count
  BY <1>1 DEF OpenRecords
<1>6. rs.version = (IF dict = NoDict THEN 1 ELSE 2) /\ rs.count = n
  BY <1>4, <1>5 DEF Header
<1>7. ASSUME NEW id \in 0 .. n - 1
      PROVE  /\ w.idx[id + 2] \in Nat /\ w.idx[id + 3] \in Nat /\ w.idx[id + 3] - w.idx[id + 2] \in Nat
             /\ ReadAt(w.bin, w.idx[id + 2], w.idx[id + 3] - w.idx[id + 2]) = BytesOf(recs[id + 1], dict)
  <2>1. PICK j \in 1 .. n : j = id + 1 /\ j + 1 = id + 2 /\ j + 2 = id + 3
    <3>1. id + 1 \in 1 .. n /\ (id + 1) + 1 = id + 2 /\ (id + 1) + 2 = id + 3
      OBVIOUS
    <3> QED
      BY <3>1
  <2>2. PICK bytes, off, end : bytes = BytesOf(recs[j], dict) /\ off = w.idx[j + 1] /\ end = w.idx[j + 2]
    OBVIOUS
  <2>3. off \in Nat /\ end = off + Len(bytes) /\ Lies(w.bin, off, bytes)
    BY <1>2, <1>3, <2>2 DEF Written
  <2>4. bytes \in Seq(Laid(C, dict))
    <3>1. recs[j] \in Seq(C)
      BY <1>3, ElementOfSeq
    <3> QED
      BY <2>2, <3>1, BytesAre
  <2>5. PICK m \in Nat : m = Len(bytes)
    BY <2>4, LenProperties
  <2>6. end \in Nat /\ end - off = m
    BY <2>3, <2>5
  <2>7. PICK r : r = ReadAt(w.bin, off, m)
    OBVIOUS
  <2>8. (\E S : r \in Seq(S)) /\ Len(r) = m /\ \A i \in 1 .. m : r[i] = w.bin[off + i]
    BY <2>3, <2>7, ReadIs DEF Brings
  <2>9. \A i \in 1 .. m : r[i] = bytes[i]
    BY <2>3, <2>5, <2>8 DEF Lies
  <2>10. PICK S : r \in Seq(S)
    BY <2>8
  <2>11. r \in Seq(S \union Laid(C, dict)) /\ bytes \in Seq(S \union Laid(C, dict))
    <3>1. S \subseteq S \union Laid(C, dict) /\ Laid(C, dict) \subseteq S \union Laid(C, dict)
      OBVIOUS
    <3> QED
      BY <2>4, <2>10, <3>1, SeqMonotonic
  <2>12. r = bytes
    BY <2>5, <2>8, <2>9, <2>11, SeqEqual
  <2> QED
    BY <2>1, <2>2, <2>3, <2>6, <2>7, <2>12
<1> QED
  BY <1>3, <1>4, <1>5, <1>6, <1>7 DEF Holds

\* The offsets of an id, and a resident prefix of them.
OffsetsOf(rs, id) == << rs.idx[id + 2], rs.idx[id + 3] >>
TableRight(tab, rs) ==
    \A id \in 0 .. tab.upto - 1 :
        /\ id < rs.count
        /\ tab.bytes[id + 2] = rs.idx[id + 2] /\ tab.bytes[id + 3] = rs.idx[id + 3]

\* A resident pair is the id's own.
LEMMA ResidentIs ==
    ASSUME NEW rs, NEW tab, tab.upto \in Nat, TableRight(tab, rs), NEW id \in Nat
    PROVE  ResidentPair(tab, id) \in {<< >>, OffsetsOf(rs, id)}
<1>1. CASE id >= tab.upto
  BY <1>1 DEF ResidentPair
<1>2. CASE ~(id >= tab.upto)
  <2>1. id \in 0 .. tab.upto - 1
    BY <1>2
  <2> QED
    BY <1>2, <2>1 DEF ResidentPair, TableRight, OffsetsOf
<1> QED
  BY <1>1, <1>2

\* A prefix of the index, read or handed over, is a right table.
LEMMA PrefixRight ==
    ASSUME NEW rs, NEW bytes, NEW n \in Nat, rs.count \in Nat, NEW upto \in 0 .. rs.count,
           upto + 2 <= n, \A i \in 1 .. n : bytes[i] = rs.idx[i]
    PROVE  TableRight([upto |-> upto, bytes |-> bytes], rs)
<1> DEFINE tab == [upto |-> upto, bytes |-> bytes]
<1>1. tab.upto = upto /\ tab.bytes = bytes
  OBVIOUS
<1> HIDE DEF tab
<1>2. ASSUME NEW id \in 0 .. upto - 1
      PROVE  id < rs.count /\ bytes[id + 2] = rs.idx[id + 2] /\ bytes[id + 3] = rs.idx[id + 3]
  <2>1. id + 2 \in 1 .. n /\ id + 3 \in 1 .. n /\ id < rs.count
    BY <1>2
  <2> QED
    BY <2>1
<1>3. TableRight(tab, rs)
  BY <1>1, <1>2 DEF TableRight
<1> QED
  BY <1>3 DEF tab

\* get: the id's own record, or the error of one that cannot be read.
Fetched(recs, dict, with, id) ==
    IF id >= Len(recs) THEN NoRecord ELSE Reads(recs[id + 1], dict, with)

\* Two cells of the index.
LEMMA PairRead ==
    ASSUME NEW file, NEW id \in Nat
    PROVE  ReadAt(file, id + 1, 2) = << file[id + 2], file[id + 3] >>
<1>1. PICK r : r = ReadAt(file, id + 1, 2)
  OBVIOUS
<1>2. (\E S : r \in Seq(S)) /\ Len(r) = 2 /\ \A i \in 1 .. 2 : r[i] = file[(id + 1) + i]
  <2>1. id + 1 \in Nat /\ 2 \in Nat
    OBVIOUS
  <2> QED
    BY <1>1, <2>1, ReadIs DEF Brings
<1>3. (id + 1) + 1 = id + 2 /\ (id + 1) + 2 = id + 3 /\ 1 \in 1 .. 2 /\ 2 \in 1 .. 2
  OBVIOUS
<1>4. r[1] = file[id + 2] /\ r[2] = file[id + 3]
  BY <1>2, <1>3
<1>5. PICK S : r \in Seq(S)
  BY <1>2
<1>6. r = << r[1], r[2] >>
  BY <1>2, <1>5
<1> QED
  BY <1>1, <1>4, <1>6

\* A single id's read brings its own record (RecordStore::get).
LEMMA GetIs ==
    ASSUME NEW C, NEW dict, NEW with, NEW recs \in Seq(Seq(C)), NEW rs, Holds(rs, recs, dict, with),
           NEW tab, tab.upto \in Nat, TableRight(tab, rs), NEW id \in Nat
    PROVE  GetRecord(rs, tab, id) = Fetched(recs, dict, with, id)
<1>1. PICK n \in Nat : n = Len(recs) /\ rs.count = n
  BY LenProperties DEF Holds
<1>2. CASE id >= n
  BY <1>1, <1>2 DEF GetRecord, Fetched
<1>3. CASE ~(id >= n)
  <2>1. id \in 0 .. n - 1 /\ id + 1 \in 1 .. n
    BY <1>3
  <2>2. PICK off, end : off = rs.idx[id + 2] /\ end = rs.idx[id + 3]
    OBVIOUS
  <2>3. off \in Nat /\ end \in Nat /\ end - off \in Nat
        /\ ReadAt(rs.bin, off, end - off) = BytesOf(recs[id + 1], dict)
    BY <1>1, <2>1, <2>2 DEF Holds
  <2>4. ReadAt(rs.idx, id + 1, 2) = << off, end >>
    BY <2>2, PairRead
  <2>5. ResidentPair(tab, id) # << >> => ResidentPair(tab, id) = << off, end >>
    BY <2>2, ResidentIs DEF OffsetsOf
  <2>6. GetRecord(rs, tab, id) = DecodeRecord(rs, ReadAt(rs.bin, off, end - off))
    <3>1. PICK pair : pair = IF ResidentPair(tab, id) # << >> THEN ResidentPair(tab, id)
                             ELSE ReadAt(rs.idx, id + 1, 2)
      OBVIOUS
    <3>2. pair[1] = off /\ pair[2] = end
      BY <2>4, <2>5, <3>1
    <3>3. ~(id >= rs.count) /\ ~(end < off)
      BY <1>1, <1>3, <2>3
    <3> QED
      BY <3>1, <3>2, <3>3 DEF GetRecord
  <2>7. recs[id + 1] \in Seq(C)
    BY <1>1, <2>1, ElementOfSeq
  <2>8. rs.version = (IF dict = NoDict THEN 1 ELSE 2) /\ rs.dict = with
    BY DEF Holds
  <2>9. DecodeRecord(rs, BytesOf(recs[id + 1], dict)) = Reads(recs[id + 1], dict, with)
    BY <2>7, <2>8, DecodeIs
  <2> QED
    BY <1>1, <1>3, <2>3, <2>6, <2>9 DEF Fetched
<1> QED
  BY <1>2, <1>3

\* Wave 1 of a page: for an id of the store its own offsets or nothing, by what
\* the table held.
PairsRight(pairs, ids, rs) ==
    \A i \in DOMAIN ids : ids[i] < rs.count => pairs[i] \in {<< >>, OffsetsOf(rs, ids[i])}

\* What wave 1 brings is the ids' own offsets.
LEMMA PairWaveRight ==
    ASSUME NEW rs, rs.gap \in Nat, NEW tab, NEW ids \in Seq(Nat)
    PROVE  PairsRight(PairWave(rs, tab, ids), ids, rs)
<1>1. PICK n \in Nat : Len(ids) = n /\ DOMAIN ids = 1 .. n /\ \A i \in 1 .. n : ids[i] \in Nat
  BY LenProperties, ElementOfSeq
<1> DEFINE Asked(i) == ids[i] < rs.count /\ ResidentPair(tab, ids[i]) = << >>
           f == [i \in 1 .. n |-> IF Asked(i) THEN [off |-> ids[i] + 1, len |-> 2] ELSE [off |-> 0, len |-> 0]]
<1> HIDE DEF Asked
<1>2. f \in [1 .. n -> [off : Nat, len : Nat]]
  <2>1. ASSUME NEW i \in 1 .. n
        PROVE  (IF Asked(i) THEN [off |-> ids[i] + 1, len |-> 2] ELSE [off |-> 0, len |-> 0]) \in [off : Nat, len : Nat]
    <3>1. ids[i] + 1 \in Nat
      BY <1>1
    <3> QED
      BY <3>1
  <2> QED
    BY <2>1
<1>3. /\ \A i \in 1 .. n : Asked(i) => f[i].off = ids[i] + 1 /\ f[i].len = 2
      /\ \A i \in 1 .. n : ~Asked(i) => f[i].off = 0 /\ f[i].len = 0
  OBVIOUS
<1>4. PairWave(rs, tab, ids) = ReadCoalesced(rs.idx, << >> \o f, rs.gap)
  BY <1>1 DEF PairWave, Asked
<1> HIDE DEF f
<1>5. << >> \o f = f /\ f \in Seq([off : Nat, len : Nat])
  BY <1>2, ListingIs
<1>6. PairWave(rs, tab, ids) = [i \in DOMAIN f |-> ReadAt(rs.idx, f[i].off, f[i].len)]
  <2>1. PICK gap \in Nat, file \in {rs.idx} : file = rs.idx /\ gap = rs.gap
    OBVIOUS
  <2>2. ReadCoalesced(file, f, gap) = ReadEach(file, f)
    BY <1>5, CoalescedReadsAreReads
  <2> QED
    BY <1>4, <1>5, <2>1, <2>2 DEF ReadEach
<1>7. ASSUME NEW i \in 1 .. n
      PROVE  PairWave(rs, tab, ids)[i] \in {<< >>, OffsetsOf(rs, ids[i])}
  <2>1. DOMAIN f = 1 .. n
    BY <1>2
  <2>2. PairWave(rs, tab, ids)[i] = ReadAt(rs.idx, f[i].off, f[i].len)
    BY <1>6, <2>1
  <2>3. CASE Asked(i)
    <3>1. ReadAt(rs.idx, ids[i] + 1, 2) = OffsetsOf(rs, ids[i])
      BY <1>1, PairRead DEF OffsetsOf
    <3> QED
      BY <1>3, <2>2, <2>3, <3>1
  <2>4. CASE ~Asked(i)
    <3>1. ReadAt(rs.idx, 0, 0) = << >>
      <4>1. SubSeq(rs.idx, 0 + 1, 0 + 0) = << >>
        BY SubSeqEmpty
      <4> QED
        BY <4>1 DEF ReadAt
    <3> QED
      BY <1>3, <2>2, <2>4, <3>1
  <2> QED
    BY <2>3, <2>4
<1> QED
  BY <1>1, <1>7 DEF PairsRight

\* The pairs of wave 2, when none is missing, are the ids' own.
LEMMA PairsNowRight ==
    ASSUME NEW rs, NEW tab, tab.upto \in Nat, TableRight(tab, rs), NEW ids \in Seq(Nat), NEW pairs,
           PairsRight(pairs, ids, rs), NEW now, now = PairsNow(rs, tab, ids, pairs),
           ~Panics(rs, ids, now), rs.count \in Nat
    PROVE  \A i \in DOMAIN ids : now[i] = IF ids[i] >= rs.count THEN << 0, 0 >> ELSE OffsetsOf(rs, ids[i])
<1>1. PICK n \in Nat : Len(ids) = n /\ DOMAIN ids = 1 .. n /\ \A i \in 1 .. n : ids[i] \in Nat
  BY LenProperties, ElementOfSeq
<1> DEFINE one(i) == IF ids[i] >= rs.count THEN << 0, 0 >>
                     ELSE IF ResidentPair(tab, ids[i]) # << >> THEN ResidentPair(tab, ids[i]) ELSE pairs[i]
           f == [i \in 1 .. n |-> one(i)]
           S == {one(i) : i \in 1 .. n}
<1>2. now = << >> \o f
  BY <1>1 DEF PairsNow
<1>3. f \in [1 .. n -> S]
  OBVIOUS
<1>4. \A i \in 1 .. n : f[i] = one(i)
  OBVIOUS
<1> HIDE DEF f, S
<1>5. now = f
  BY <1>2, <1>3, ListingIs
<1> TAKE i \in DOMAIN ids
<1>6. i \in 1 .. n /\ now[i] = one(i) /\ ids[i] \in Nat
  BY <1>1, <1>4, <1>5
<1>7. CASE ids[i] >= rs.count
  BY <1>6, <1>7
<1>8. CASE ~(ids[i] >= rs.count)
  <2>1. ids[i] < rs.count
    BY <1>6, <1>8
  <2>2. now[i] # << >>
    BY <2>1 DEF Panics
  <2>3. ResidentPair(tab, ids[i]) \in {<< >>, OffsetsOf(rs, ids[i])}
    BY <1>6, ResidentIs
  <2>4. pairs[i] \in {<< >>, OffsetsOf(rs, ids[i])}
    BY <2>1 DEF PairsRight
  <2> QED
    BY <1>6, <1>8, <2>2, <2>3, <2>4
<1> QED
  BY <1>7, <1>8

\* The records of a page.
PageOf(recs, dict, with, ids) ==
    << >> \o [i \in DOMAIN ids |-> Fetched(recs, dict, with, ids[i])]

WaveIs(out, recs, dict, with, ids) ==
    out = IF \E i \in DOMAIN ids : Fetched(recs, dict, with, ids[i]) = BadRecord THEN BadRecord
          ELSE PageOf(recs, dict, with, ids)

\* Wave 2 of a page: each id's own record, unless one cannot be read.
LEMMA RecordWaveIs ==
    ASSUME NEW C, NEW dict, NEW with, NEW recs \in Seq(Seq(C)), NEW rs, Holds(rs, recs, dict, with),
           NEW ids \in Seq(Nat), NEW now,
           \A i \in DOMAIN ids : now[i] = IF ids[i] >= rs.count THEN << 0, 0 >> ELSE OffsetsOf(rs, ids[i])
    PROVE  WaveIs(RecordWave(rs, ids, now), recs, dict, with, ids)
<1>1. PICK n \in Nat : Len(ids) = n /\ DOMAIN ids = 1 .. n /\ \A i \in 1 .. n : ids[i] \in Nat
  BY LenProperties, ElementOfSeq
<1>2. PICK N \in Nat : N = Len(recs) /\ rs.count = N
  BY LenProperties DEF Holds
<1>3. ASSUME NEW i \in 1 .. n
      PROVE  /\ now[i][1] \in Nat /\ now[i][2] \in Nat /\ now[i][2] - now[i][1] \in Nat
             /\ ids[i] < N => ReadAt(rs.bin, now[i][1], now[i][2] - now[i][1]) = BytesOf(recs[ids[i] + 1], dict)
  <2>1. PICK id \in Nat : id = ids[i]
    BY <1>1
  <2>2. CASE id >= N
    <3>1. now[i] = << 0, 0 >> /\ ~(id < N)
      BY <1>1, <1>2, <2>1, <2>2
    <3> QED
      BY <2>1, <3>1
  <2>3. CASE ~(id >= N)
    <3>1. id \in 0 .. N - 1
      BY <2>3
    <3>2. now[i] = << rs.idx[id + 2], rs.idx[id + 3] >>
      BY <1>1, <1>2, <2>1, <2>3 DEF OffsetsOf
    <3>3. now[i][1] = rs.idx[id + 2] /\ now[i][2] = rs.idx[id + 3]
      BY <3>2
    <3>4. /\ rs.idx[id + 2] \in Nat /\ rs.idx[id + 3] \in Nat
          /\ rs.idx[id + 3] - rs.idx[id + 2] \in Nat
          /\ ReadAt(rs.bin, rs.idx[id + 2], rs.idx[id + 3] - rs.idx[id + 2]) = BytesOf(recs[id + 1], dict)
      BY <1>2, <3>1 DEF Holds
    <3> QED
      BY <2>1, <3>3, <3>4
  <2> QED
    BY <2>2, <2>3
<1> DEFINE f == [i \in 1 .. n |-> [off |-> now[i][1], len |-> now[i][2] - now[i][1]]]
<1>4. f \in [1 .. n -> [off : Nat, len : Nat]]
  BY <1>3
<1>5. \A i \in 1 .. n : f[i].off = now[i][1] /\ f[i].len = now[i][2] - now[i][1]
  OBVIOUS
<1>6. PICK blobs : blobs = ReadCoalesced(rs.bin, << >> \o f, rs.gap)
  OBVIOUS
<1> DEFINE one(i) == IF ids[i] >= rs.count THEN NoRecord ELSE DecodeRecord(rs, blobs[i])
           out == << >> \o [i \in 1 .. n |-> one(i)]
<1>7. RecordWave(rs, ids, now) =
        IF \E i \in DOMAIN ids : now[i][2] < now[i][1] THEN BadStore
        ELSE IF \E i \in DOMAIN out : out[i] = BadRecord THEN BadRecord ELSE out
  BY <1>1, <1>6, Zenon DEF RecordWave
<1> HIDE DEF f
<1>8. << >> \o f = f /\ f \in Seq([off : Nat, len : Nat]) /\ DOMAIN f = 1 .. n
  BY <1>4, ListingIs
<1>9. \A i \in 1 .. n : blobs[i] = ReadAt(rs.bin, now[i][1], now[i][2] - now[i][1])
  <2>1. rs.gap \in Nat
    BY DEF Holds
  <2>2. PICK gap \in Nat, file \in {rs.bin} : gap = rs.gap
    BY <2>1
  <2>3. ReadCoalesced(file, f, gap) = [i \in DOMAIN f |-> ReadAt(file, f[i].off, f[i].len)]
    <3>1. ReadCoalesced(file, f, gap) = ReadEach(file, f)
      BY <1>8, CoalescedReadsAreReads
    <3> QED
      BY <3>1 DEF ReadEach
  <2>4. blobs = [i \in 1 .. n |-> ReadAt(rs.bin, f[i].off, f[i].len)]
    BY <1>6, <1>8, <2>2, <2>3
  <2> QED
    BY <1>5, <2>4
<1>10. ASSUME NEW i \in 1 .. n PROVE one(i) = Fetched(recs, dict, with, ids[i])
  <2>1. PICK id \in Nat : id = ids[i]
    BY <1>1
  <2>2. CASE id >= N
    BY <1>2, <2>1, <2>2 DEF Fetched
  <2>3. CASE ~(id >= N)
    <3>1. id < N /\ id + 1 \in 1 .. N
      BY <2>3
    <3>2. blobs[i] = BytesOf(recs[id + 1], dict)
      BY <1>3, <1>9, <2>1, <3>1
    <3>3. recs[id + 1] \in Seq(C)
      BY <1>2, <3>1, ElementOfSeq
    <3>4. rs.version = (IF dict = NoDict THEN 1 ELSE 2) /\ rs.dict = with
      BY DEF Holds
    <3>5. DecodeRecord(rs, BytesOf(recs[id + 1], dict)) = Reads(recs[id + 1], dict, with)
      BY <3>3, <3>4, DecodeIs
    <3> QED
      BY <1>2, <2>1, <2>3, <3>2, <3>5 DEF Fetched
  <2> QED
    BY <2>2, <2>3
<1>11. out = PageOf(recs, dict, with, ids)
  <2>1. [i \in 1 .. n |-> one(i)] = [i \in 1 .. n |-> Fetched(recs, dict, with, ids[i])]
    <3> HIDE DEF one
    <3> QED
      BY <1>10
  <2> HIDE DEF one
  <2> QED
    BY <1>1, <2>1 DEF PageOf
<1>12. DOMAIN out = 1 .. n /\ \A i \in 1 .. n : out[i] = one(i)
  <2> DEFINE g == [i \in 1 .. n |-> one(i)]
             S == {one(i) : i \in 1 .. n}
  <2>1. g \in [1 .. n -> S] /\ \A i \in 1 .. n : g[i] = one(i)
    OBVIOUS
  <2>2. out = << >> \o g
    OBVIOUS
  <2> HIDE DEF g, S, out, one
  <2>3. out = g
    BY <2>1, <2>2, ListingIs
  <2> QED
    BY <2>1, <2>3
<1> HIDE DEF out, one
<1>13. ~\E i \in DOMAIN ids : now[i][2] < now[i][1]
  <2> SUFFICES ASSUME NEW i \in 1 .. n PROVE ~(now[i][2] < now[i][1])
    BY <1>1
  <2> QED
    BY <1>3
<1>14. (\E i \in DOMAIN out : out[i] = BadRecord)
         <=> (\E i \in DOMAIN ids : Fetched(recs, dict, with, ids[i]) = BadRecord)
  BY <1>1, <1>10, <1>12
<1> QED
  BY <1>7, <1>11, <1>13, <1>14 DEF WaveIs

------------------------------------------------------------------------------
(* RecordPages: what every state keeps.                                       *)

\* The first n cells of a sequence.
Leads(c, s) == \E m \in Nat : m <= Len(s) /\ Len(c) = m /\ \A i \in 1 .. m : c[i] = s[i]

\* Cut takes them.
LEMMA CutIs ==
    ASSUME NEW S, NEW s \in Seq(S), NEW n \in Nat
    PROVE  Leads(Cut(s, n), s)
<1>1. PICK l \in Nat : l = Len(s)
  BY LenProperties
<1>2. PICK m : m = Min({n, l})
  OBVIOUS
<1>3. m \in {n, l} /\ m <= l
  <2>1. {n, l} \in SUBSET Nat /\ {n, l} # {} /\ l \in {n, l}
    OBVIOUS
  <2> QED
    BY <1>2, <2>1, MinIsLeast
<1>4. m \in Nat /\ 1 \in Int /\ \A i \in 1 .. m : i \in 1 .. Len(s)
  BY <1>1, <1>3
<1>5. \A i \in 1 .. m : s[i] \in S
  BY <1>4, ElementOfSeq
<1>6. /\ Len(SubSeq(s, 1, m)) = IF 1 <= m THEN m - 1 + 1 ELSE 0
      /\ \A i \in 1 .. m - 1 + 1 : SubSeq(s, 1, m)[i] = s[1 + i - 1]
  BY <1>4, <1>5, SubSeqProperties
<1>7. (IF 1 <= m THEN m - 1 + 1 ELSE 0) = m /\ m - 1 + 1 = m /\ \A i \in 1 .. m : 1 + i - 1 = i
  BY <1>4
<1>8. Cut(s, n) = SubSeq(s, 1, m)
  BY <1>1, <1>2 DEF Cut
<1> QED
  BY <1>1, <1>3, <1>4, <1>6, <1>7, <1>8 DEF Leads

\* The lesser of two numbers.
LEMMA LesserIs ==
    ASSUME NEW x \in Nat, NEW y \in Nat
    PROVE  Min({x, y}) \in Nat /\ Min({x, y}) <= x /\ Min({x, y}) <= y
<1>1. {x, y} \in SUBSET Nat /\ {x, y} # {} /\ x \in {x, y} /\ y \in {x, y}
  OBVIOUS
<1>2. PICK m : m = Min({x, y})
  OBVIOUS
<1>3. m \in {x, y} /\ m <= x /\ m <= y
  BY <1>1, <1>2, MinIsLeast
<1> QED
  BY <1>2, <1>3

\* A record of a store that its reader cannot have.
Spoilt(b, id) == id < Len(b.recs) /\ Spoiled(b.recs[id + 1], b.dict, b.with)

\* What an id's read brings is its own record unless it cannot be read.
LEMMA FetchedIs ==
    ASSUME NEW b \in Built, NEW id \in Nat
    PROVE  /\ Fetched(b.recs, b.dict, b.with, id) = IF Spoilt(b, id) THEN BadRecord ELSE OwnRecord(b, id)
           /\ OwnRecord(b, id) \notin {BadRecord, BadStore}
<1>1. PICK n \in Nat : n = Len(b.recs)
  BY PagesAssumption, LenProperties
<1>2. Fetched(b.recs, b.dict, b.with, id) = IF Spoilt(b, id) THEN BadRecord ELSE OwnRecord(b, id)
  <2>1. CASE id >= n
    <3>1. ~(id < n)
      BY <2>1
    <3> QED
      BY <1>1, <2>1, <3>1 DEF Fetched, Spoilt, OwnRecord
  <2>2. CASE ~(id >= n)
    <3>1. id < n
      BY <2>2
    <3> QED
      BY <1>1, <2>2, <3>1 DEF Fetched, Reads, Spoilt, OwnRecord
  <2> QED
    BY <2>1, <2>2
<1>3. OwnRecord(b, id) \notin {BadRecord, BadStore}
  <2>1. CASE id \in 0 .. n
    BY <1>1, <2>1, PagesAssumption
  <2>2. CASE id \notin 0 .. n
    <3>1. ~(id < n) /\ n \in 0 .. n /\ ~(n < n)
      BY <2>2
    <3>2. OwnRecord(b, id) = OwnRecord(b, n)
      BY <1>1, <3>1 DEF OwnRecord
    <3> QED
      BY <1>1, <3>1, <3>2, PagesAssumption
  <2> QED
    BY <2>1, <2>2
<1> QED
  BY <1>2, <1>3

\* A page with no record that cannot be read.
LEMMA PageIsOwn ==
    ASSUME NEW b \in Built, NEW ids \in Seq(Nat), \A i \in DOMAIN ids : ~Spoilt(b, ids[i])
    PROVE  PageOf(b.recs, b.dict, b.with, ids) = OwnPage(b, ids)
<1>1. PICK n \in Nat : DOMAIN ids = 1 .. n /\ \A i \in 1 .. n : ids[i] \in Nat
  BY LenProperties, ElementOfSeq
<1>2. \A i \in 1 .. n : Fetched(b.recs, b.dict, b.with, ids[i]) = OwnRecord(b, ids[i])
  BY <1>1, FetchedIs
<1>3. [i \in 1 .. n |-> Fetched(b.recs, b.dict, b.with, ids[i])] = [i \in 1 .. n |-> OwnRecord(b, ids[i])]
  BY <1>2
<1> QED
  BY <1>1, <1>3 DEF PageOf, OwnPage

\* The page a caller has: its pairs right, and its answer.
PageShape(p) == p = [pc |-> p.pc, ids |-> p.ids, pairs |-> p.pairs, out |-> p.out]
PageRight(p, b) ==
    /\ p.pc = "done" => p.out = OwnPage(b, p.ids) /\ \A i \in DOMAIN p.ids : ~Spoilt(b, p.ids[i])
    /\ p.pc = "failed" => \E i \in DOMAIN p.ids : Spoilt(b, p.ids[i])
PageKept(p, b, s) ==
    /\ PageShape(p) /\ PageRight(p, b)
    /\ p.pc = "pairs" => p.ids \in Pages /\ PairsRight(p.pairs, p.ids, s)

StoreKept ==
    /\ built \in Built
    /\ \E gap \in Gaps : store = OpenRecords(WriteRecords(built.recs, built.dict), built.with, gap)
TableKept == table.upto \in Nat /\ TableRight(table, store)
PagesKept == /\ page = [c \in Callers |-> page[c]]
             /\ \A c \in Callers : PageKept(page[c], built, store)
IInv == StoreKept /\ TableKept /\ PagesKept

\* The open store holds the records.
LEMMA StoreHolds ==
    ASSUME StoreKept
    PROVE  /\ Holds(store, built.recs, built.dict, built.with)
           /\ \E C : built.recs \in Seq(Seq(C))
           /\ store.count \in Nat /\ store.gap \in Nat /\ store.count = Len(built.recs)
<1>1. PICK C : built.recs \in Seq(Seq(C))
  BY PagesAssumption DEF StoreKept
<1>2. PICK gap \in Nat : store = OpenRecords(WriteRecords(built.recs, built.dict), built.with, gap)
  BY PagesAssumption DEF StoreKept
<1>3. Holds(store, built.recs, built.dict, built.with)
  BY <1>1, <1>2, OpenedHolds
<1>4. store.count = Len(built.recs) /\ store.gap \in Nat
  BY <1>3 DEF Holds
<1>5. Len(built.recs) \in Nat
  BY <1>1, LenProperties
<1> QED
  BY <1>1, <1>3, <1>4, <1>5

\* A prefix read from the index.
LEMMA PrefixedRight ==
    ASSUME NEW s, s.count \in Nat, NEW first \in Nat, NEW t, t = Prefixed(s, first)
    PROVE  t.upto \in Nat /\ TableRight(t, s)
<1>1. PICK upto \in Nat : upto = Min({first, s.count}) /\ upto <= s.count
  BY LesserIs
<1>2. PICK bytes : bytes = ReadAt(s.idx, 0, upto + 2)
  OBVIOUS
<1>3. \A i \in 1 .. upto + 2 : bytes[i] = s.idx[i]
  <2>1. 0 \in Nat /\ upto + 2 \in Nat /\ \A i \in 1 .. upto + 2 : 0 + i = i
    OBVIOUS
  <2>2. \A i \in 1 .. upto + 2 : bytes[i] = s.idx[0 + i]
    <3>1. PICK k \in Nat, zero \in Nat : k = upto + 2 /\ zero = 0
      BY <2>1
    <3>2. Brings(ReadAt(s.idx, zero, k), s.idx, zero, k)
      BY ReadIs
    <3>3. Brings(bytes, s.idx, 0, upto + 2)
      BY <1>2, <3>1, <3>2
    <3> QED
      BY <3>3 DEF Brings
  <2> QED
    BY <2>1, <2>2
<1>4. t = [upto |-> upto, bytes |-> bytes]
  BY <1>1, <1>2 DEF Prefixed
<1>5. upto \in 0 .. s.count /\ upto + 2 \in Nat /\ upto + 2 <= upto + 2
  BY <1>1
<1>6. TableRight(t, s)
  BY <1>3, <1>4, <1>5, PrefixRight
<1> QED
  BY <1>4, <1>6

\* Leading bytes of an index: of this store's they are a right table, of one
\* with another header they are refused.
LEMMA HandedOverRight ==
    ASSUME NEW s, s.count \in Nat, NEW C, NEW dict, NEW recs \in Seq(Seq(C)),
           NEW idx, idx = WriteRecords(recs, dict).idx, idx = s.idx \/ idx[1] # s.idx[1],
           NEW n \in Nat, NEW t, t = Resident(s, Cut(idx, n)), t # BadStore
    PROVE  t.upto \in Nat /\ TableRight(t, s)
<1>1. \E S : idx \in Seq(S)
  <2>1. PICK w : w = WriteRecords(recs, dict)
    OBVIOUS
  <2>2. w \in Writers(C, dict, Len(recs))
    BY <2>1, RecordsWritten
  <2> QED
    BY <2>1, <2>2 DEF Writers
<1>2. PICK S : idx \in Seq(S)
  BY <1>1
<1>3. PICK bytes : bytes = Cut(idx, n)
  OBVIOUS
<1>4. PICK m \in Nat : Len(bytes) = m /\ \A i \in 1 .. m : bytes[i] = idx[i]
  <2>1. Leads(bytes, idx)
    BY <1>2, <1>3, CutIs
  <2> QED
    BY <2>1 DEF Leads
<1>5. ~(m < 2) /\ bytes[1] = s.idx[1] /\ t = [upto |-> Min({m - 2, s.count}), bytes |-> bytes]
  BY <1>3, <1>4 DEF Resident
<1>6. idx = s.idx
  <2>1. 1 \in 1 .. m
    BY <1>5
  <2> QED
    BY <1>4, <1>5, <2>1
<1>7. PICK upto \in Nat : upto = Min({m - 2, s.count}) /\ upto <= m - 2 /\ upto <= s.count
  <2>1. m - 2 \in Nat
    BY <1>5
  <2> QED
    BY <2>1, LesserIs
<1>8. upto \in 0 .. s.count /\ upto + 2 <= m
  BY <1>5, <1>7
<1>9. t = [upto |-> upto, bytes |-> bytes]
  BY <1>5, <1>7
<1>10. \A i \in 1 .. m : bytes[i] = s.idx[i]
  BY <1>4, <1>6
<1>11. TableRight([upto |-> upto, bytes |-> bytes], s)
  BY ONLY <1>8, <1>10, m \in Nat, s.count \in Nat, PrefixRight
<1> QED
  BY <1>9, <1>11

\* set_coalesce_gap changes neither file.
LEMMA GapKept ==
    ASSUME NEW b, NEW w, NEW gap, NEW other, NEW s, s = OpenRecords(w, b, other)
    PROVE  /\ [s EXCEPT !.gap = gap] = OpenRecords(w, b, gap)
           /\ [s EXCEPT !.gap = gap].idx = s.idx /\ [s EXCEPT !.gap = gap].count = s.count
  BY DEF OpenRecords

\* The invariant holds of a store just opened: nothing is resident.
LEMMA InitKept ==
    ASSUME Init
    PROVE  IInv
<1>1. built \in Built /\ table = NoTable /\ page = [c \in Callers |-> Idle]
  BY DEF Init
<1>2. StoreKept
  BY DEF Init, StoreKept
<1>3. TableKept
  <2>1. table.upto = 0
    BY <1>1 DEF NoTable
  <2>2. \A id \in 0 .. 0 - 1 : FALSE
    OBVIOUS
  <2> QED
    BY <2>1, <2>2 DEF TableKept, TableRight
<1>4. PagesKept
  <2>1. PageKept(Idle, built, store)
    BY DEF PageKept, PageShape, PageRight, Idle
  <2> QED
    BY <1>1, <2>1 DEF PagesKept
<1> QED
  BY <1>2, <1>3, <1>4 DEF IInv

\* A table installed.
LEMMA InstallKept ==
    ASSUME IInv, NEW t, t.upto \in Nat, TableRight(t, store), Install(t)
    PROVE  IInv'
<1>1. table' = t /\ built' = built /\ store' = store /\ page' = page
  BY DEF Install
<1>2. StoreKept'
  BY <1>1 DEF IInv, StoreKept
<1>3. TableKept'
  BY <1>1 DEF TableKept
<1>4. PagesKept'
  BY <1>1 DEF IInv, PagesKept
<1> QED
  BY <1>2, <1>3, <1>4 DEF IInv

\* A preloaded prefix is read from the index itself.
LEMMA PreloadKept ==
    ASSUME IInv, Preload
    PROVE  IInv'
<1>1. PICK first \in Firsts \union {store.count} : Install(Prefixed(store, first))
  BY DEF Preload
<1>2. store.count \in Nat
  BY StoreHolds DEF IInv
<1>3. first \in Nat
  BY <1>1, <1>2, PagesAssumption
<1>4. PICK t : t = Prefixed(store, first)
  OBVIOUS
<1>5. t.upto \in Nat /\ TableRight(t, store)
  BY <1>2, <1>3, <1>4, PrefixedRight
<1> QED
  BY <1>1, <1>4, <1>5, InstallKept

\* A prefix handed over has this store's header, so it is this index's.
LEMMA HandOverKept ==
    ASSUME IInv, HandOver
    PROVE  IInv'
<1>1. store.count \in Nat
  BY StoreHolds DEF IInv
<1>2. PICK b \in Built, n \in 0 .. store.count + 2 :
          LET idx == WriteRecords(b.recs, b.dict).idx
              t == Resident(store, Cut(idx, n))
          IN (b = built \/ idx[1] # store.idx[1]) /\ t # BadStore /\ Install(t)
  BY DEF HandOver
<1>3. PICK idx : idx = WriteRecords(b.recs, b.dict).idx
  OBVIOUS
<1>4. PICK t : t = Resident(store, Cut(idx, n))
  OBVIOUS
<1>5. (b = built \/ idx[1] # store.idx[1]) /\ t # BadStore /\ Install(t)
  BY <1>2, <1>3, <1>4
<1>6. b = built => idx = store.idx
  BY <1>3 DEF IInv, StoreKept, OpenRecords
<1>7. PICK C : b.recs \in Seq(Seq(C))
  BY PagesAssumption
<1>8. n \in Nat
  BY <1>1
<1>9. t.upto \in Nat /\ TableRight(t, store)
  <2>1. PICK recs, dict : recs = b.recs /\ dict = b.dict
    OBVIOUS
  <2>2. recs \in Seq(Seq(C)) /\ idx = WriteRecords(recs, dict).idx /\ (idx = store.idx \/ idx[1] # store.idx[1])
    BY <1>3, <1>5, <1>6, <1>7, <2>1
  <2> QED
    BY <1>1, <1>4, <1>5, <1>8, <2>2, HandedOverRight
<1> QED
  BY <1>5, <1>9, InstallKept

\* The coalescing gap bears on no offset.
LEMMA SetGapKept ==
    ASSUME IInv, SetGap
    PROVE  IInv'
<1>1. PICK gap \in Gaps : store' = [store EXCEPT !.gap = gap]
  BY DEF SetGap
<1>2. built' = built /\ table' = table /\ page' = page
  BY DEF SetGap
<1>3. PICK old \in Gaps : store = OpenRecords(WriteRecords(built.recs, built.dict), built.with, old)
  BY DEF IInv, StoreKept
<1>4. /\ store' = OpenRecords(WriteRecords(built.recs, built.dict), built.with, gap)
      /\ store'.idx = store.idx /\ store'.count = store.count
  BY <1>1, <1>3, GapKept
<1>5. StoreKept'
  BY <1>2, <1>4 DEF IInv, StoreKept
<1>6. TableKept'
  BY <1>2, <1>4 DEF IInv, TableKept, TableRight
<1>7. PagesKept'
  <2>1. ASSUME NEW c \in Callers PROVE PageKept(page[c], built, store')
    BY <1>4, <2>1 DEF IInv, PagesKept, PageKept, PairsRight, OffsetsOf
  <2>2. page = [c \in Callers |-> page[c]]
    BY DEF IInv, PagesKept
  <2> QED
    BY <1>2, <2>1, <2>2 DEF PagesKept
<1> QED
  BY <1>5, <1>6, <1>7 DEF IInv

\* One caller's page changes, to one that is kept.
LEMMA PageChangeKept ==
    ASSUME IInv, NEW c \in Callers, NEW p, PageKept(p, built, store),
           page' = [page EXCEPT ![c] = p], UNCHANGED <<built, store, table>>
    PROVE  IInv'
<1>1. built' = built /\ store' = store /\ table' = table
  OBVIOUS
<1>2. StoreKept'
  BY <1>1 DEF IInv, StoreKept
<1>3. TableKept'
  BY <1>1 DEF IInv, TableKept
<1>4. PagesKept'
  <2>1. page = [d \in Callers |-> page[d]]
    BY DEF IInv, PagesKept
  <2>2. page' = [d \in Callers |-> page'[d]] /\ \A d \in Callers : page'[d] = IF d = c THEN p ELSE page[d]
    BY <2>1
  <2>3. \A d \in Callers : PageKept(page'[d], built, store)
    BY <2>2 DEF IInv, PagesKept
  <2> QED
    BY <1>1, <2>2, <2>3 DEF PagesKept
<1> QED
  BY <1>2, <1>3, <1>4 DEF IInv

\* A single record comes back as its own, or fails because it cannot be read.
LEMMA AskOneKept ==
    ASSUME IInv, NEW c \in Callers, AskOne(c)
    PROVE  IInv'
<1>1. store.count \in Nat /\ built \in Built /\ Holds(store, built.recs, built.dict, built.with)
  BY StoreHolds DEF IInv, StoreKept
<1>2. PICK id \in 0 .. store.count :
          page' = [page EXCEPT ![c] = [pc |-> IF GetRecord(store, table, id) \in {BadRecord, BadStore}
                                              THEN "failed" ELSE "done",
                                       ids |-> << id >>, pairs |-> << >>, out |-> << GetRecord(store, table, id) >>]]
  BY DEF AskOne
<1>3. UNCHANGED <<built, store, table>>
  BY DEF AskOne
<1>4. id \in Nat
  BY <1>1
<1>5. PICK rec : rec = GetRecord(store, table, id)
  OBVIOUS
<1>6. rec = Fetched(built.recs, built.dict, built.with, id)
  <2>1. table.upto \in Nat /\ TableRight(table, store)
    BY DEF IInv, TableKept
  <2>2. PICK C : built.recs \in Seq(Seq(C))
    BY StoreHolds DEF IInv
  <2>3. PICK recs, dict, with : recs = built.recs /\ dict = built.dict /\ with = built.with
    OBVIOUS
  <2>4. recs \in Seq(Seq(C)) /\ Holds(store, recs, dict, with)
    BY <1>1, <2>2, <2>3
  <2>5. GetRecord(store, table, id) = Fetched(recs, dict, with, id)
    BY <1>4, <2>1, <2>4, GetIs
  <2> QED
    BY <1>5, <2>3, <2>5
<1>7. /\ rec = IF Spoilt(built, id) THEN BadRecord ELSE OwnRecord(built, id)
      /\ OwnRecord(built, id) \notin {BadRecord, BadStore}
  BY <1>1, <1>4, <1>6, FetchedIs
<1> DEFINE p == [pc |-> IF rec \in {BadRecord, BadStore} THEN "failed" ELSE "done",
                 ids |-> << id >>, pairs |-> << >>, out |-> << rec >>]
<1>8. /\ p.ids = << id >> /\ p.pairs = << >> /\ p.out = << rec >>
      /\ p.pc = IF rec \in {BadRecord, BadStore} THEN "failed" ELSE "done"
  OBVIOUS
<1>9. PageShape(p)
  BY <1>8 DEF PageShape
<1>10. page' = [page EXCEPT ![c] = p]
  BY <1>2, <1>5
<1> HIDE DEF p
<1>11. DOMAIN << id >> = 1 .. 1 /\ << id >>[1] = id /\ 1 \in 1 .. 1
  OBVIOUS
<1>12. PageRight(p, built)
  <2>1. CASE Spoilt(built, id)
    <3>1. p.pc = "failed"
      BY <1>7, <1>8, <2>1
    <3>2. \E i \in DOMAIN p.ids : Spoilt(built, p.ids[i])
      BY <1>8, <1>11, <2>1
    <3> QED
      BY <3>1, <3>2 DEF PageRight
  <2>2. CASE ~Spoilt(built, id)
    <3>1. rec = OwnRecord(built, id) /\ p.pc = "done"
      BY <1>7, <1>8, <2>2
    <3>2. OwnPage(built, << id >>) = << rec >>
      <4> DEFINE f == [i \in 1 .. 1 |-> OwnRecord(built, << id >>[i])]
      <4>1. f \in [1 .. 1 -> {rec}] /\ f = << rec >>
        BY <3>1
      <4>2. OwnPage(built, << id >>) = << >> \o f
        BY <1>11 DEF OwnPage
      <4> HIDE DEF f
      <4>3. << >> \o f = f
        BY <4>1, ListingIs
      <4> QED
        BY <4>1, <4>2, <4>3
    <3>3. \A i \in DOMAIN p.ids : ~Spoilt(built, p.ids[i])
      BY <1>8, <1>11, <2>2
    <3> QED
      BY <1>8, <3>1, <3>2, <3>3 DEF PageRight
  <2> QED
    BY <2>1, <2>2
<1>13. PageKept(p, built, store)
  BY <1>8, <1>9, <1>12 DEF PageKept
<1> QED
  BY <1>3, <1>10, <1>13, PageChangeKept

\* A page asked for has the pairs the first wave read.
LEMMA AskPageKept ==
    ASSUME IInv, NEW c \in Callers, AskPage(c)
    PROVE  IInv'
<1>1. PICK ids \in Pages :
          page' = [page EXCEPT ![c] = [pc |-> "pairs", ids |-> ids, out |-> << >>,
                                       pairs |-> PairWave(store, table, ids)]]
  BY DEF AskPage
<1>2. UNCHANGED <<built, store, table>>
  BY DEF AskPage
<1>3. PICK pairs : pairs = PairWave(store, table, ids)
  OBVIOUS
<1>4. PairsRight(pairs, ids, store)
  <2>1. store.gap \in Nat /\ ids \in Seq(Nat)
    BY StoreHolds, PagesAssumption DEF IInv
  <2> QED
    BY <1>3, <2>1, PairWaveRight
<1> DEFINE p == [pc |-> "pairs", ids |-> ids, out |-> << >>, pairs |-> pairs]
<1>5. p.pc = "pairs" /\ p.ids = ids /\ p.pairs = pairs /\ p.out = << >>
  OBVIOUS
<1>6. PageShape(p)
  BY DEF PageShape
<1>7. page' = [page EXCEPT ![c] = p]
  BY <1>1, <1>3
<1> HIDE DEF p
<1>8. PageKept(p, built, store)
  BY <1>4, <1>5, <1>6 DEF PageKept, PageRight
<1> QED
  BY <1>2, <1>7, <1>8, PageChangeKept

\* A page hydrated is right whatever the table has become.
LEMMA HydrateKept ==
    ASSUME IInv, NEW c \in Callers, Hydrate(c)
    PROVE  IInv'
<1>1. /\ store.count \in Nat /\ built \in Built /\ Holds(store, built.recs, built.dict, built.with)
      /\ \E C : built.recs \in Seq(Seq(C))
  BY StoreHolds DEF IInv, StoreKept
<1>2. PICK old, ids, pairs : old = page[c] /\ ids = page[c].ids /\ pairs = page[c].pairs
  OBVIOUS
<1>3. /\ old.pc = "pairs" /\ ids \in Pages /\ PairsRight(pairs, ids, store)
      /\ old = [pc |-> "pairs", ids |-> ids, pairs |-> pairs, out |-> old.out]
  BY <1>2 DEF Hydrate, IInv, PagesKept, PageKept, PageShape
<1>4. ids \in Seq(Nat)
  BY <1>3, PagesAssumption
<1>5. PICK now : now = PairsNow(store, table, ids, pairs)
  OBVIOUS
<1>6. PICK out : out = RecordWave(store, ids, now)
  OBVIOUS
<1> DEFINE p == IF Panics(store, ids, now) THEN [old EXCEPT !.pc = "panicked"]
                ELSE IF out \in {BadRecord, BadStore} THEN [old EXCEPT !.pc = "failed"]
                ELSE [old EXCEPT !.pc = "done", !.out = out]
<1>7. page' = [page EXCEPT ![c] = p]
  <2>1. page[c] = old /\ page[c].ids = ids /\ page[c].pairs = pairs
    BY <1>2
  <2>2. page = [d \in Callers |-> page[d]]
    BY DEF IInv, PagesKept
  <2> QED
    BY <1>5, <1>6, <2>1, <2>2 DEF Hydrate
<1>8. UNCHANGED <<built, store, table>>
  BY DEF Hydrate
<1>9. CASE Panics(store, ids, now)
  <2>1. p = [pc |-> "panicked", ids |-> ids, pairs |-> pairs, out |-> old.out]
    BY <1>3, <1>9
  <2> HIDE DEF p
  <2>2. PageKept(p, built, store)
    BY <2>1 DEF PageKept, PageShape, PageRight
  <2> QED
    BY <1>7, <1>8, <2>2, PageChangeKept
<1>10. CASE ~Panics(store, ids, now)
  <2>1. \A i \in DOMAIN ids : now[i] = IF ids[i] >= store.count THEN << 0, 0 >> ELSE OffsetsOf(store, ids[i])
    <3>1. table.upto \in Nat /\ TableRight(table, store)
      BY DEF IInv, TableKept
    <3> QED
      BY <1>1, <1>3, <1>4, <1>5, <1>10, <3>1, PairsNowRight
  <2>2. out = IF \E i \in DOMAIN ids : Fetched(built.recs, built.dict, built.with, ids[i]) = BadRecord
              THEN BadRecord ELSE PageOf(built.recs, built.dict, built.with, ids)
    <3>1. PICK C : built.recs \in Seq(Seq(C))
      BY <1>1
    <3>2. PICK recs, dict, with : recs = built.recs /\ dict = built.dict /\ with = built.with
      OBVIOUS
    <3>3. recs \in Seq(Seq(C)) /\ Holds(store, recs, dict, with)
      BY <1>1, <3>1, <3>2
    <3>4. WaveIs(RecordWave(store, ids, now), recs, dict, with, ids)
      BY <1>4, <2>1, <3>3, RecordWaveIs
    <3> QED
      BY <1>6, <3>2, <3>4 DEF WaveIs
  <2>3. \A i \in DOMAIN ids : Fetched(built.recs, built.dict, built.with, ids[i]) = BadRecord
                                <=> Spoilt(built, ids[i])
    <3> TAKE i \in DOMAIN ids
    <3>1. ids[i] \in Nat
      BY <1>4, LenProperties, ElementOfSeq
    <3> QED
      BY <1>1, <3>1, FetchedIs
  <2>4. CASE \E i \in DOMAIN ids : Spoilt(built, ids[i])
    <3>1. out = BadRecord
      BY <2>2, <2>3, <2>4
    <3>2. p = [pc |-> "failed", ids |-> ids, pairs |-> pairs, out |-> old.out]
      BY <1>3, <1>10, <3>1
    <3> HIDE DEF p
    <3>3. PageKept(p, built, store)
      BY <2>4, <3>2 DEF PageKept, PageShape, PageRight
    <3> QED
      BY <1>7, <1>8, <3>3, PageChangeKept
  <2>5. CASE ~\E i \in DOMAIN ids : Spoilt(built, ids[i])
    <3>1. out = OwnPage(built, ids)
      <4>1. out = PageOf(built.recs, built.dict, built.with, ids)
        BY <2>2, <2>3, <2>5
      <4> QED
        BY <1>1, <1>4, <2>5, <4>1, PageIsOwn
    <3>2. out \notin {BadRecord, BadStore}
      BY <1>1, <1>3, <3>1, PagesAssumption
    <3>3. p = [pc |-> "done", ids |-> ids, pairs |-> pairs, out |-> out]
      <4>1. [old EXCEPT !.pc = "done", !.out = out] = [pc |-> "done", ids |-> ids, pairs |-> pairs, out |-> out]
        <5>1. PICK was : was = old.out
          OBVIOUS
        <5>2. old = [pc |-> "pairs", ids |-> ids, pairs |-> pairs, out |-> was]
          BY <1>3, <5>1
        <5>3. PICK q : q = [[pc |-> "pairs", ids |-> ids, pairs |-> pairs, out |-> was]
                              EXCEPT !.pc = "done", !.out = out]
          OBVIOUS
        <5>4. q = [pc |-> "done", ids |-> ids, pairs |-> pairs, out |-> out]
          BY ONLY <5>3
        <5>5. q = [old EXCEPT !.pc = "done", !.out = out]
          BY Zenon, <5>2, <5>3
        <5> QED
          BY <5>4, <5>5
      <4>2. p = [old EXCEPT !.pc = "done", !.out = out]
        BY <1>10, <3>2
      <4> QED
        BY <4>1, <4>2
    <3> HIDE DEF p
    <3>4. PageKept(p, built, store)
      BY <2>5, <3>1, <3>3 DEF PageKept, PageShape, PageRight
    <3> QED
      BY <1>7, <1>8, <3>4, PageChangeKept
  <2> QED
    BY <2>4, <2>5
<1> QED
  BY <1>9, <1>10

\* A failed wave and a return leave the caller idle.
LEMMA IdleKept ==
    ASSUME IInv, NEW c \in Callers, ReadFails(c) \/ Return(c)
    PROVE  IInv'
<1>1. page' = [page EXCEPT ![c] = Idle] /\ UNCHANGED <<built, store, table>>
  BY DEF ReadFails, Return
<1>2. PageKept(Idle, built, store)
  BY DEF PageKept, PageShape, PageRight, Idle
<1> QED
  BY <1>1, <1>2, PageChangeKept

\* The invariant is inductive.
LEMMA StepKept ==
    ASSUME IInv, [Next]_vars
    PROVE  IInv'
<1>1. CASE Preload
  BY <1>1, PreloadKept
<1>2. CASE HandOver
  BY <1>2, HandOverKept
<1>3. CASE SetGap
  BY <1>3, SetGapKept
<1>4. ASSUME NEW c \in Callers,
             AskOne(c) \/ AskPage(c) \/ Hydrate(c) \/ ReadFails(c) \/ Return(c)
      PROVE  IInv'
  BY <1>4, AskOneKept, AskPageKept, HydrateKept, IdleKept
<1>5. CASE UNCHANGED vars
  <2>1. built' = built /\ store' = store /\ table' = table /\ page' = page
    BY <1>5 DEF vars
  <2> QED
    BY <2>1 DEF IInv, StoreKept, TableKept, PagesKept
<1> QED
  BY <1>1, <1>2, <1>3, <1>4, <1>5 DEF Next

\* It says that every page is right.
LEMMA KeptIsRight == IInv => PagesAreRight
<1> SUFFICES ASSUME IInv, NEW c \in Callers
             PROVE  /\ page[c].pc = "done" =>
                         /\ page[c].out = OwnPage(built, page[c].ids)
                         /\ \A i \in DOMAIN page[c].ids : ~Unreadable(page[c].ids[i])
                    /\ page[c].pc = "failed" => \E i \in DOMAIN page[c].ids : Unreadable(page[c].ids[i])
  BY DEF PagesAreRight
<1>1. \A id : Unreadable(id) <=> Spoilt(built, id)
  BY DEF Unreadable, Spoilt, Spoiled
<1>2. PageRight(page[c], built)
  BY DEF IInv, PagesKept, PageKept
<1> QED
  BY <1>1, <1>2 DEF PageRight

\* Over any store, plain or packed, and any coalescing gap, a page that comes
\* back holds each id's own record in the order asked, whatever prefixes of the
\* index were preloaded or handed over between its two waves; it fails only
\* over a record that cannot be read (get, get_many, preload_idx_prefix,
\* set_resident_idx).
THEOREM RecordPagesAreRight == Spec => []PagesAreRight
<1>1. Init => IInv
  BY InitKept
<1>2. IInv /\ [Next]_vars => IInv'
  BY StepKept
<1> QED
  BY <1>1, <1>2, KeptIsRight, PTL DEF Spec

------------------------------------------------------------------------------
\* A filter has at least one bit, whatever the number of keys.
LEMMA BloomHasBits ==
    ASSUME NEW n \in Nat, NEW bits \in Nat
    PROVE  BloomSize(n, bits) \in Nat \ {0}
<1> DEFINE want == (IF n = 0 THEN 1 ELSE n) * bits
           m == IF want < BloomFloor THEN BloomFloor ELSE want
           q == (m + ByteBits - 1) \div ByteBits
<1>1. ByteBits \in Nat \ {0} /\ BloomFloor \in Nat \ {0} /\ BloomCeil \in Nat \ {0}
  BY FilterAssumption
<1>2. want \in Nat
  <2> DEFINE least == IF n = 0 THEN 1 ELSE n
  <2>1. least \in Nat
    OBVIOUS
  <2> HIDE DEF least
  <2>2. least * bits \in Nat
    BY <2>1
  <2> QED
    BY <2>2 DEF least
<1> HIDE DEF want
<1>3. m \in Nat \ {0}
  BY <1>1, <1>2
<1> HIDE DEF m
<1>4. q \in Nat \ {0}
  BY <1>1, <1>3
<1> HIDE DEF q
<1>5. ByteBits * q \in Nat \ {0}
  BY <1>1, <1>4
<1>6. BloomSize(n, bits) = IF ByteBits * q > BloomCeil THEN BloomCeil ELSE ByteBits * q
  BY DEF BloomSize, RoundUp, want, m, q
<1> QED
  BY <1>1, <1>5, <1>6

\* Where a key is looked for is within the filter.
LEMMA PositionInFilter ==
    ASSUME HashesAssumption, NEW key, NEW i \in Nat, NEW nbits \in Nat \ {0}
    PROVE  BloomPosition(key, i, nbits) \in 0 .. nbits - 1
<1>1. Hash1(key) \in Nat /\ Hash2(key) \in Nat /\ HashWord \in Nat \ {0}
  BY FilterAssumption DEF HashesAssumption
<1>2. i * Hash2(key) \in Nat
  BY <1>1
<1>3. (Hash1(key) + i * Hash2(key)) % HashWord \in Nat
  BY <1>1, <1>2
<1> QED
  BY <1>3 DEF BloomPosition

\* A filter never denies a key that it was built over, whatever the hashes, the
\* number of keys and the bits for each: a split that a filter prunes has no
\* document with all the keys of a query (bloom_build, bloom_contains).
THEOREM BloomNoFalseNegatives ==
    ASSUME HashesAssumption,
           NEW keys, IsFiniteSet(keys), NEW bits \in Nat, NEW key \in keys
    PROVE  BloomContains(BloomBuild(keys, bits), key)
<1> DEFINE nbits == BloomSize(Cardinality(keys), bits)
           k == BloomK(bits)
           h == [k |-> k, nbits |-> nbits]
           marked == {BloomPosition(x, i, nbits) : x \in keys, i \in 0 .. k - 1}
           m == nbits \div ByteBits
           byte(y) == {p % ByteBits : p \in {q \in marked : q \div ByteBits = y - 1}}
           bytes == [y \in 1 .. m |-> byte(y)]
           bloom == << h >> \o bytes
           at(i) == BloomPosition(key, i, nbits)
<1>1. nbits \in Nat \ {0}
  BY BloomHasBits, FS_CardinalityType
<1>2. ByteBits \in Nat \ {0}
  BY FilterAssumption
<1>3. bloom = BloomBuild(keys, bits)
  BY DEF BloomBuild
<1> HIDE DEF nbits, k
<1>4. m \in Nat
  BY <1>1, <1>2
<1>5. /\ Len(bloom) = m + 1
      /\ bloom[1] = h
      /\ \A j \in 1 .. m : bloom[j + 1] = byte(j)
  <2> DEFINE S == {h} \union {byte(y) : y \in 1 .. m}
  <2> HIDE DEF m, byte, h
  <2>1. << h >> \in Seq(S) /\ Len(<< h >>) = 1 /\ << h >>[1] = h
    OBVIOUS
  <2>2. bytes \in Seq(S) /\ Len(bytes) = m
    BY <1>4
  <2> QED
    BY <1>4, <2>1, <2>2, ConcatProperties
<1> HIDE DEF bytes, bloom
<1>6. ASSUME NEW i \in 0 .. k - 1, at(i) \div ByteBits < m
      PROVE  at(i) % ByteBits \in bloom[at(i) \div ByteBits + 2]
  <2>1. i \in Nat /\ at(i) \in marked
    OBVIOUS
  <2>2. at(i) \in Nat
    BY <1>1, <2>1, PositionInFilter
  <2> HIDE DEF at, marked
  <2> DEFINE j == at(i) \div ByteBits + 1
  <2>3. j \in 1 .. m
    BY <1>2, <1>4, <1>6, <2>2
  <2>4. at(i) \div ByteBits = j - 1
    BY <1>2, <2>2
  <2>5. at(i) % ByteBits \in byte(j)
    BY <2>1, <2>4
  <2>6. bloom[j + 1] = byte(j)
    BY <1>5, <2>3
  <2>7. j + 1 = at(i) \div ByteBits + 2
    BY <1>2, <2>2
  <2> QED
    BY <2>5, <2>6, <2>7
<1>7. ASSUME NEW i \in 0 .. k - 1
      PROVE  at(i) \div ByteBits >= Len(bloom) - 1 \/ at(i) % ByteBits \in bloom[at(i) \div ByteBits + 2]
  <2>1. at(i) \in Nat
    BY <1>1, PositionInFilter
  <2>2. at(i) \div ByteBits \in Int
    BY <1>2, <2>1
  <2> HIDE DEF at
  <2> QED
    BY <1>4, <1>5, <1>6, <2>2
<1>8. bloom[1].k = k /\ bloom[1].nbits = nbits
  BY <1>5
<1> QED
  BY <1>3, <1>7, <1>8 DEF BloomContains
==============================================================================
