---------------------------- MODULE SplitSearchProofs ----------------------------
(****************************************************************************)
(* Proofs about answering a query over a split set: pruning, the tiered     *)
(* descent and the merge with deltas all return the head of the full        *)
(* answer, and the header-only count bounds the exact one, for every split  *)
(* set whose summaries never deny what its splits hold.                     *)
(****************************************************************************)
EXTENDS SplitSearch, NatSetLemmas

------------------------------------------------------------------------------
(* The first elements of a sequence.                                         *)

\* FirstOf keeps the first n elements, or all of them.
LEMMA FirstOfIs ==
    ASSUME NEW T, NEW s \in Seq(T), NEW n \in Nat
    PROVE  /\ FirstOf(s, n) \in Seq(T)
           /\ Len(FirstOf(s, n)) = IF n <= Len(s) THEN n ELSE Len(s)
           /\ \A i \in 1 .. Len(s) : i <= n => FirstOf(s, n)[i] = s[i]
<1> DEFINE m == IF n <= Len(s) THEN n ELSE Len(s)
<1>1. Len(s) \in Nat /\ m \in Nat /\ m <= Len(s)
  OBVIOUS
<1>2. Min({n, Len(s)}) = m
  <2>1. {n, Len(s)} \in SUBSET Nat /\ {n, Len(s)} # {}
    BY <1>1
  <2>2. Min({n, Len(s)}) \in {n, Len(s)} /\ \A x \in {n, Len(s)} : Min({n, Len(s)}) <= x
    BY <2>1, MinIsLeast
  <2> QED
    BY <1>1, <2>2
<1> HIDE DEF m
<1>3. FirstOf(s, n) = SubSeq(s, 1, m)
  BY <1>2 DEF FirstOf
<1>4. /\ SubSeq(s, 1, m) \in Seq(T) /\ Len(SubSeq(s, 1, m)) = m
      /\ \A i \in 1 .. m : SubSeq(s, 1, m)[i] = s[i]
  BY <1>1
<1>5. \A i \in 1 .. Len(s) : i <= n => i \in 1 .. m
  BY <1>1 DEF m
<1> QED
  BY <1>3, <1>4, <1>5 DEF m

\* Sequences with the same elements are the same.
LEMMA SameSeq ==
    ASSUME NEW T, NEW s \in Seq(T), NEW t \in Seq(T), Len(s) = Len(t),
           \A i \in 1 .. Len(s) : s[i] = t[i]
    PROVE  s = t
OBVIOUS

\* The first n of a sequence and of its first n are the same.
LEMMA FirstOfTwice ==
    ASSUME NEW T, NEW s \in Seq(T), NEW n \in Nat
    PROVE  FirstOf(FirstOf(s, n), n) = FirstOf(s, n)
<1> DEFINE f == FirstOf(s, n)
<1>1. f \in Seq(T) /\ Len(f) = IF n <= Len(s) THEN n ELSE Len(s)
  BY FirstOfIs
<1> HIDE DEF f
<1>2. /\ FirstOf(f, n) \in Seq(T) /\ Len(FirstOf(f, n)) = IF n <= Len(f) THEN n ELSE Len(f)
      /\ \A i \in 1 .. Len(f) : i <= n => FirstOf(f, n)[i] = f[i]
  BY <1>1, FirstOfIs
<1>3. Len(f) <= n /\ Len(f) \in Nat
  BY <1>1
<1>4. FirstOf(f, n) = f
  BY <1>1, <1>2, <1>3, SameSeq
<1> QED
  BY <1>4 DEF f

\* Sequences whose first n elements are the same.
Alike(s, t, n) == FirstOf(s, n) = FirstOf(t, n)

\* What it takes for two sequences to be alike.
LEMMA AlikeIs ==
    ASSUME NEW T, NEW s \in Seq(T), NEW t \in Seq(T), NEW n \in Nat
    PROVE  Alike(s, t, n) <=> /\ Len(s) = Len(t) \/ (Len(s) >= n /\ Len(t) >= n)
                              /\ \A i \in 1 .. n : i <= Len(s) => s[i] = t[i]
<1> DEFINE f == FirstOf(s, n)
           g == FirstOf(t, n)
<1>1. /\ f \in Seq(T) /\ Len(f) = IF n <= Len(s) THEN n ELSE Len(s)
      /\ \A i \in 1 .. Len(s) : i <= n => f[i] = s[i]
  BY FirstOfIs
<1>2. /\ g \in Seq(T) /\ Len(g) = IF n <= Len(t) THEN n ELSE Len(t)
      /\ \A i \in 1 .. Len(t) : i <= n => g[i] = t[i]
  BY FirstOfIs
<1> HIDE DEF f, g
<1>3. Len(s) \in Nat /\ Len(t) \in Nat
  OBVIOUS
<1>4. ASSUME f = g
      PROVE  /\ Len(s) = Len(t) \/ (Len(s) >= n /\ Len(t) >= n)
             /\ \A i \in 1 .. n : i <= Len(s) => s[i] = t[i]
  <2>1. Len(f) = Len(g)
    BY <1>4
  <2>2. Len(s) = Len(t) \/ (Len(s) >= n /\ Len(t) >= n)
    BY <1>1, <1>2, <1>3, <2>1
  <2>3. ASSUME NEW i \in 1 .. n, i <= Len(s) PROVE s[i] = t[i]
    <3>1. i \in 1 .. Len(s) /\ i \in 1 .. Len(t) /\ i <= n
      BY <1>3, <2>2, <2>3
    <3>2. f[i] = s[i] /\ g[i] = t[i]
      BY <1>1, <1>2, <3>1
    <3> QED
      BY <1>4, <3>2
  <2> QED
    BY <2>2, <2>3
<1>5. ASSUME Len(s) = Len(t) \/ (Len(s) >= n /\ Len(t) >= n),
             \A i \in 1 .. n : i <= Len(s) => s[i] = t[i]
      PROVE  f = g
  <2>1. Len(f) = Len(g)
    BY <1>1, <1>2, <1>3, <1>5
  <2>2. \A i \in 1 .. Len(f) : i \in 1 .. n /\ i \in 1 .. Len(s) /\ i \in 1 .. Len(t)
    BY <1>1, <1>3, <1>5
  <2>3. \A i \in 1 .. Len(f) : f[i] = g[i]
    BY <1>1, <1>2, <1>5, <2>2
  <2> QED
    BY <1>1, <1>2, <2>1, <2>3, SameSeq
<1> QED
  BY <1>4, <1>5 DEF Alike, f, g

\* Appending what is alike to what is alike.
LEMMA AlikeConcat ==
    ASSUME NEW T, NEW a \in Seq(T), NEW b \in Seq(T), NEW c \in Seq(T), NEW d \in Seq(T),
           NEW n \in Nat, Alike(a, c, n), Alike(b, d, n)
    PROVE  Alike(a \o b, c \o d, n)
<1> DEFINE s == a \o b
           t == c \o d
<1>1. Len(a) \in Nat /\ Len(b) \in Nat /\ Len(c) \in Nat /\ Len(d) \in Nat
  OBVIOUS
<1>2. /\ Len(a) = Len(c) \/ (Len(a) >= n /\ Len(c) >= n)
      /\ \A i \in 1 .. n : i <= Len(a) => a[i] = c[i]
  BY AlikeIs
<1>3. /\ Len(b) = Len(d) \/ (Len(b) >= n /\ Len(d) >= n)
      /\ \A i \in 1 .. n : i <= Len(b) => b[i] = d[i]
  BY AlikeIs
<1>4. /\ s \in Seq(T) /\ Len(s) = Len(a) + Len(b)
      /\ \A i \in 1 .. Len(s) : s[i] = IF i <= Len(a) THEN a[i] ELSE b[i - Len(a)]
  BY ConcatProperties
<1>5. /\ t \in Seq(T) /\ Len(t) = Len(c) + Len(d)
      /\ \A i \in 1 .. Len(t) : t[i] = IF i <= Len(c) THEN c[i] ELSE d[i - Len(c)]
  BY ConcatProperties
<1> HIDE DEF s, t
<1>6. Len(s) = Len(t) \/ (Len(s) >= n /\ Len(t) >= n)
  <2>1. CASE Len(a) = Len(c)
    BY <1>1, <1>3, <1>4, <1>5, <2>1
  <2>2. CASE Len(a) >= n /\ Len(c) >= n
    BY <1>1, <1>4, <1>5, <2>2
  <2> QED
    BY <1>2, <2>1, <2>2
<1>7. ASSUME NEW i \in 1 .. n, i <= Len(s) PROVE s[i] = t[i]
  <2>1. i \in 1 .. Len(s) /\ i \in 1 .. Len(t)
    BY <1>1, <1>4, <1>5, <1>6, <1>7
  <2>2. CASE i <= Len(a)
    <3>1. s[i] = a[i] /\ a[i] = c[i]
      BY <1>2, <1>4, <1>7, <2>1, <2>2
    <3>2. i <= Len(c)
      BY <1>1, <1>2, <2>2
    <3> QED
      BY <1>5, <2>1, <3>1, <3>2
  <2>3. CASE i > Len(a)
    <3>1. Len(a) = Len(c)
      BY <1>1, <1>2, <2>3
    <3>2. i - Len(a) \in 1 .. n /\ i - Len(a) <= Len(b)
      BY <1>1, <1>4, <1>7, <2>3
    <3>3. b[i - Len(a)] = d[i - Len(a)]
      BY <1>3, <3>2
    <3> QED
      BY <1>1, <1>4, <1>5, <2>1, <2>3, <3>1, <3>3
  <2> QED
    BY <1>1, <2>2, <2>3
<1>8. Alike(s, t, n)
  BY <1>4, <1>5, <1>6, <1>7, AlikeIs
<1> QED
  BY <1>8 DEF s, t

\* Further up to n and what comes behind n is alike.
LEMMA AlikeLong ==
    ASSUME NEW T, NEW a \in Seq(T), NEW b \in Seq(T), NEW n \in Nat, Len(a) >= n
    PROVE  Alike(a, a \o b, n)
<1> DEFINE s == a \o b
<1>1. Len(a) \in Nat /\ Len(b) \in Nat
  OBVIOUS
<1>2. /\ s \in Seq(T) /\ Len(s) = Len(a) + Len(b)
      /\ \A i \in 1 .. Len(s) : s[i] = IF i <= Len(a) THEN a[i] ELSE b[i - Len(a)]
  BY ConcatProperties
<1> HIDE DEF s
<1>3. Len(s) >= n
  BY <1>1, <1>2
<1>4. \A i \in 1 .. n : i <= Len(a) => a[i] = s[i]
  BY <1>1, <1>2
<1>5. Alike(a, s, n)
  BY <1>2, <1>3, <1>4, AlikeIs
<1> QED
  BY <1>5 DEF s

\* Nothing has no first part.
LEMMA FirstOfNone == ASSUME NEW n \in Nat PROVE FirstOf(<< >>, n) = << >>
<1> DEFINE S == {n, 0}
<1>1. Min(S) \in S /\ \A x \in S : Min(S) <= x
  <2>1. S \in SUBSET Nat /\ S # {}
    OBVIOUS
  <2> QED
    BY <2>1, MinIsLeast
<1>2. Min(S) = 0
  BY <1>1
<1>3. Len(<< >>) = 0
  OBVIOUS
<1>4. FirstOf(<< >>, n) = SubSeq(<< >>, 1, 0)
  BY <1>2, <1>3 DEF FirstOf
<1>5. SubSeq(<< >>, 1, 0) = << >>
  BY SubSeqEmpty
<1> QED
  BY <1>4, <1>5

\* What is short enough is its own first part, and the first none are none.
LEMMA FirstOfAll ==
    ASSUME NEW T, NEW s \in Seq(T), NEW n \in Nat
    PROVE  /\ Len(s) <= n => FirstOf(s, n) = s
           /\ FirstOf(s, 0) = << >>
<1>1. Len(s) \in Nat
  OBVIOUS
<1>2. /\ FirstOf(s, n) \in Seq(T) /\ Len(FirstOf(s, n)) = IF n <= Len(s) THEN n ELSE Len(s)
      /\ \A i \in 1 .. Len(s) : i <= n => FirstOf(s, n)[i] = s[i]
  BY FirstOfIs
<1>3. ASSUME Len(s) <= n PROVE FirstOf(s, n) = s
  <2>1. Len(FirstOf(s, n)) = Len(s)
    BY <1>1, <1>2, <1>3
  <2>2. \A i \in 1 .. Len(s) : i <= n
    BY <1>1, <1>3
  <2> QED
    BY <1>2, <2>1, <2>2, SameSeq
<1>4. FirstOf(s, 0) \in Seq(T) /\ Len(FirstOf(s, 0)) = 0
  BY <1>1, FirstOfIs
<1>5. FirstOf(s, 0) = << >>
  BY <1>4, EmptySeq
<1> QED
  BY <1>3, <1>5

------------------------------------------------------------------------------
(* Sequences strung together.                                                *)

\* g[j] is what the first j sequences of h string together to.
Strings(g, h, T) ==
    /\ g \in [0 .. Len(h) -> Seq(T)]
    /\ g[0] = << >>
    /\ \A j \in 1 .. Len(h) : g[j] = g[j - 1] \o h[j]

\* FlattenSeq strings its sequences together one after the other.
LEMMA FlattenStrings ==
    ASSUME NEW T, NEW h \in Seq(Seq(T))
    PROVE  \E g : Strings(g, h, T) /\ FlattenSeq(h) = g[Len(h)]
<1> DEFINE n == Len(h)
           Solves(f, m) == /\ f \in [0 .. m -> Seq(T)]
                           /\ f[0] = << >>
                           /\ \A j \in 1 .. m : f[j] = f[j - 1] \o h[j]
           Bad == {m \in 0 .. n : ~ \E f : Solves(f, m)}
           Flat(f) == f = [i \in 1 .. n |-> IF i = 1 THEN h[i] ELSE f[i - 1] \o h[i]]
<1>1. n \in Nat /\ \A j \in 1 .. n : h[j] \in Seq(T)
  OBVIOUS
<1>2. Bad = {}
  <2> SUFFICES ASSUME Bad # {} PROVE FALSE
    OBVIOUS
  <2> HIDE DEF Solves
  <2>1. Bad \in SUBSET Nat
    BY <1>1
  <2> USE DEF Solves
  <2>2. PICK m \in Bad : \A i \in Bad : m <= i
    BY <2>1, NatSetHasLeast
  <2>3. CASE m = 0
    <3> DEFINE f == [j \in 0 .. 0 |-> << >>]
    <3>1. Solves(f, 0)
      OBVIOUS
    <3> QED
      BY <2>2, <2>3, <3>1
  <2>4. CASE m # 0
    <3>1. m - 1 \in 0 .. n /\ ~(m <= m - 1) /\ m \in 1 .. n
      BY <1>1, <2>1, <2>4
    <3>2. PICK e : Solves(e, m - 1)
      BY <2>2, <3>1
    <3> DEFINE f == [j \in 0 .. m |-> IF j = m THEN e[m - 1] \o h[m] ELSE e[j]]
    <3>3. \A j \in 0 .. m : j # m => j \in 0 .. m - 1
      BY <3>1
    <3>4. e[m - 1] \in Seq(T) /\ h[m] \in Seq(T)
      BY <1>1, <3>1, <3>2
    <3>5. e[m - 1] \o h[m] \in Seq(T)
      BY <3>4
    <3>6. f \in [0 .. m -> Seq(T)] /\ f[0] = << >>
      <4>1. PICK c \in Seq(T) : c = e[m - 1] \o h[m]
        BY <3>5
      <4>2. \A j \in 0 .. m : j # m => e[j] \in Seq(T)
        BY <3>2, <3>3
      <4>3. 0 \in 0 .. m /\ 0 # m /\ e[0] = << >>
        BY <3>1, <3>2
      <4>4. f = [j \in 0 .. m |-> IF j = m THEN c ELSE e[j]]
        BY <4>1
      <4> HIDE DEF f
      <4> QED
        BY ONLY <4>1, <4>2, <4>3, <4>4, Zenon
    <3>7. ASSUME NEW j \in 1 .. m PROVE f[j] = f[j - 1] \o h[j]
      <4>1. j \in 0 .. m /\ j - 1 \in 0 .. m /\ j - 1 # m
        BY <3>1
      <4>2. f[j - 1] = e[j - 1]
        BY <4>1
      <4>3. CASE j = m
        BY <4>1, <4>2, <4>3
      <4>4. CASE j # m
        <5>1. j \in 1 .. m - 1
          BY <3>1, <4>4
        <5> QED
          BY <3>2, <4>1, <4>2, <4>4, <5>1
      <4> QED
        BY <4>3, <4>4
    <3>8. Solves(f, m)
      BY <3>6, <3>7
    <3> QED
      BY <2>2, <3>8
  <2> QED
    BY <2>3, <2>4
<1>3. PICK g : Solves(g, n)
  <2> HIDE DEF Solves
  <2>1. n \in 0 .. n
    BY <1>1
  <2> QED
    BY <1>2, <2>1
<1>4. Strings(g, h, T)
  BY <1>3 DEF Strings
<1>5. CASE n = 0
  <2>1. FlattenSeq(h) = h
    BY <1>5 DEF FlattenSeq
  <2>2. h = << >>
    BY <1>5, EmptySeq
  <2> QED
    BY <1>3, <1>4, <1>5, <2>1, <2>2
<1>6. CASE n # 0
  <2> DEFINE f == [i \in 1 .. n |-> g[i]]
  <2>1. \A i \in 1 .. n : g[i] = IF i = 1 THEN h[i] ELSE f[i - 1] \o h[i]
    <3>1. ASSUME NEW i \in 1 .. n PROVE g[i] = IF i = 1 THEN h[i] ELSE f[i - 1] \o h[i]
      <4>1. g[i] = g[i - 1] \o h[i]
        BY <1>3
      <4>2. CASE i = 1
        <5>1. g[1] = << >> \o h[1]
          <6>1. g[0] = << >> /\ i - 1 = 0
            BY <1>3, <4>2
          <6> QED
            BY <4>1, <4>2, <6>1
        <5>2. h[1] \in Seq(T)
          BY <1>1, <4>2
        <5>3. << >> \o h[1] = h[1]
          BY <5>2, ConcatEmptySeq
        <5> QED
          BY <4>2, <5>1, <5>3
      <4>3. CASE i # 1
        <5>1. i - 1 \in 1 .. n
          BY <1>1, <4>3
        <5> QED
          BY <4>1, <4>3, <5>1
      <4> QED
        BY <4>2, <4>3
    <3> QED
      BY <3>1
  <2>2. Flat(f)
    BY <2>1
  <2>3. \E e : Flat(e)
    BY <2>2
  <2> DEFINE F == CHOOSE e : Flat(e)
  <2>4. Flat(F)
    BY <2>3
  <2>5. FlattenSeq(h) = F[n]
    BY <1>6 DEF FlattenSeq
  <2> HIDE DEF F
  <2> DEFINE Off == {i \in 1 .. n : F[i] # g[i]}
  <2>6. Off = {}
    <3> SUFFICES ASSUME Off # {} PROVE FALSE
      OBVIOUS
    <3>1. Off \in SUBSET Nat
      BY <1>1
    <3>2. PICK i \in Off : \A j \in Off : i <= j
      BY <3>1, NatSetHasLeast
    <3>3. F[i] = IF i = 1 THEN h[i] ELSE F[i - 1] \o h[i]
      BY <2>4, <3>2
    <3>4. CASE i = 1
      BY <2>1, <3>2, <3>3, <3>4
    <3>5. CASE i # 1
      <4>1. i - 1 \in 1 .. n /\ ~(i <= i - 1)
        BY <1>1, <3>2, <3>5
      <4>2. F[i - 1] = g[i - 1]
        BY <3>2, <4>1
      <4> QED
        BY <2>1, <3>2, <3>3, <3>5, <4>1, <4>2
    <3> QED
      BY <3>4, <3>5
  <2>7. n \in 1 .. n
    BY <1>1, <1>6
  <2>8. F[n] = g[n]
    BY <2>6, <2>7
  <2> QED
    BY <1>4, <2>5, <2>8
<1> QED
  BY <1>5, <1>6

\* What is concatenated holds what the parts hold.
LEMMA ConcatHolds ==
    ASSUME NEW T, NEW s \in Seq(T), NEW t \in Seq(T)
    PROVE  ToSet(s \o t) = ToSet(s) \union ToSet(t)
<1>1. /\ s \o t \in Seq(T) /\ Len(s \o t) = Len(s) + Len(t)
      /\ \A i \in 1 .. Len(s) + Len(t) :
            (s \o t)[i] = IF i <= Len(s) THEN s[i] ELSE t[i - Len(s)]
  BY ConcatProperties
<1>2. /\ DOMAIN (s \o t) = 1 .. Len(s) + Len(t)
      /\ DOMAIN s = 1 .. Len(s) /\ DOMAIN t = 1 .. Len(t)
      /\ Len(s) \in Nat /\ Len(t) \in Nat
  BY <1>1
<1> DEFINE c == s \o t
<1>3. \A i \in 1 .. Len(s) + Len(t) : c[i] = IF i <= Len(s) THEN s[i] ELSE t[i - Len(s)]
  BY <1>1
<1>4. DOMAIN c = 1 .. Len(s) + Len(t)
  BY <1>2
<1> HIDE DEF c
<1>5. ASSUME NEW x \in ToSet(c) PROVE x \in ToSet(s) \union ToSet(t)
  <2>1. PICK i \in 1 .. Len(s) + Len(t) : x = c[i]
    BY <1>4 DEF ToSet
  <2>2. CASE i <= Len(s)
    BY <1>2, <1>3, <2>1, <2>2 DEF ToSet
  <2>3. CASE i > Len(s)
    <3>1. i - Len(s) \in 1 .. Len(t) /\ x = t[i - Len(s)]
      BY <1>2, <1>3, <2>1, <2>3
    <3> QED
      BY <1>2, <3>1 DEF ToSet
  <2> QED
    BY <1>2, <2>2, <2>3
<1>6. ASSUME NEW x \in ToSet(s) PROVE x \in ToSet(c)
  <2>1. PICK i \in 1 .. Len(s) : x = s[i]
    BY <1>2 DEF ToSet
  <2>2. i \in 1 .. Len(s) + Len(t) /\ i <= Len(s)
    BY <1>2
  <2>3. c[i] = x
    BY <1>3, <2>1, <2>2
  <2> QED
    BY <1>4, <2>2, <2>3 DEF ToSet
<1>7. ASSUME NEW x \in ToSet(t) PROVE x \in ToSet(c)
  <2>1. PICK i \in 1 .. Len(t) : x = t[i]
    BY <1>2 DEF ToSet
  <2> DEFINE j == i + Len(s)
  <2>2. j \in 1 .. Len(s) + Len(t) /\ ~(j <= Len(s)) /\ j - Len(s) = i
    BY <1>2
  <2> HIDE DEF j
  <2>3. c[j] = x
    BY <1>3, <2>1, <2>2
  <2> QED
    BY <1>4, <2>2, <2>3 DEF ToSet
<1>8. ToSet(c) = ToSet(s) \union ToSet(t)
  BY <1>5, <1>6, <1>7
<1> QED
  BY <1>8 DEF c

\* What sequences string together to holds what they hold.
LEMMA FlattenHolds ==
    ASSUME NEW T, NEW h \in Seq(Seq(T))
    PROVE  ToSet(FlattenSeq(h)) = UNION {ToSet(h[i]) : i \in DOMAIN h}
<1>1. PICK g : Strings(g, h, T) /\ FlattenSeq(h) = g[Len(h)]
  BY FlattenStrings
<1>2. Len(h) \in Nat /\ DOMAIN h = 1 .. Len(h) /\ \A j \in 1 .. Len(h) : h[j] \in Seq(T)
  OBVIOUS
<1> DEFINE Upto(j) == UNION {ToSet(h[i]) : i \in 1 .. j}
           Off == {j \in 0 .. Len(h) : ToSet(g[j]) # Upto(j)}
<1>3. Off = {}
  <2> SUFFICES ASSUME Off # {} PROVE FALSE
    OBVIOUS
  <2>1. Off \in SUBSET Nat
    BY <1>2
  <2>2. PICK j \in Off : \A i \in Off : j <= i
    BY <2>1, NatSetHasLeast
  <2>3. CASE j = 0
    <3>1. ToSet(g[0]) = {}
      BY <1>1 DEF Strings, ToSet
    <3>2. Upto(0) = {}
      OBVIOUS
    <3> QED
      BY <2>2, <2>3, <3>1, <3>2
  <2>4. CASE j # 0
    <3>1. j - 1 \in 0 .. Len(h) /\ ~(j <= j - 1) /\ j \in 1 .. Len(h)
      BY <1>2, <2>2, <2>4
    <3>2. ToSet(g[j - 1]) = Upto(j - 1)
      BY <2>2, <3>1
    <3>3. g[j] = g[j - 1] \o h[j] /\ g[j - 1] \in Seq(T) /\ h[j] \in Seq(T)
      BY <1>1, <1>2, <3>1 DEF Strings
    <3>4. ToSet(g[j]) = ToSet(g[j - 1]) \union ToSet(h[j])
      BY <3>3, ConcatHolds
    <3>5. Upto(j) = Upto(j - 1) \union ToSet(h[j])
      <4>1. 1 .. j = (1 .. j - 1) \union {j}
        BY <3>1
      <4> QED
        BY <4>1
    <3> QED
      BY <2>2, <3>2, <3>4, <3>5
  <2> QED
    BY <2>3, <2>4
<1>4. ToSet(g[Len(h)]) = Upto(Len(h))
  <2> HIDE DEF Upto
  <2>1. Len(h) \in 0 .. Len(h)
    BY <1>2
  <2> QED
    BY <1>3, <2>1
<1> QED
  BY <1>1, <1>2, <1>4

------------------------------------------------------------------------------
(* Ranked lists.                                                             *)

\* The pairs of S that are ranked one before the other: by the order, then by id.
Ahead(order, S) ==
    {p \in S \X S : order[p[1]] < order[p[2]] \/ (order[p[1]] = order[p[2]] /\ p[1] < p[2])}

\* Ranked lists its set, first by the order and then by the ids.
LEMMA RankedLists ==
    ASSUME NEW S \in SUBSET Nat, IsFiniteSet(S), NEW order, \A d \in S : order[d] \in Nat
    PROVE  Orders(Ahead(order, S), S) /\ Lists(Ranked(S, order), S, Ahead(order, S))
<1> DEFINE R == Ahead(order, S)
           before(a, b) == order[a] < order[b] \/ (order[a] = order[b] /\ a <= b)
           Rank(d) == Cardinality({e \in S : before(e, d)})
           Pick(i) == CHOOSE d \in S : Rank(d) = i
<1>1. \A a, b \in S : <<a, b>> \in R <=> order[a] < order[b] \/ (order[a] = order[b] /\ a < b)
  BY DEF Ahead
<1>2. Orders(R, S)
  <2>1. \A a \in S : <<a, a>> \notin R
    BY <1>1
  <2>2. \A a, b \in S : a # b => <<a, b>> \in R \/ <<b, a>> \in R
    BY <1>1
  <2>3. \A a, b, c \in S : <<a, b>> \in R /\ <<b, c>> \in R => <<a, c>> \in R
    BY <1>1
  <2> QED
    BY <2>1, <2>2, <2>3 DEF Orders
<1> HIDE DEF R
<1>3. ASSUME NEW d \in S
      PROVE  /\ Rank(d) = Cardinality(Under(d, S, R)) + 1
             /\ Cardinality(Under(d, S, R)) \in 0 .. Cardinality(S) - 1
  <2>1. {e \in S : before(e, d)} = Under(d, S, R) \union {d}
    <3>1. \A e \in S : before(e, d) <=> <<e, d>> \in R \/ e = d
      BY <1>1
    <3> QED
      BY <3>1 DEF Under
  <2>2. d \notin Under(d, S, R)
    BY <1>2 DEF Orders, Under
  <2>3. IsFiniteSet(Under(d, S, R)) /\ Cardinality(Under(d, S, R)) \in 0 .. Cardinality(S) - 1
    BY <1>2, UnderCounts
  <2>4. Cardinality(Under(d, S, R) \union {d}) = Cardinality(Under(d, S, R)) + 1
    BY <2>2, <2>3, FS_AddElement
  <2> QED
    BY <2>1, <2>3, <2>4
<1> HIDE DEF Rank
<1>4. Cardinality(S) \in Nat
  BY FS_CardinalityType
<1>5. ASSUME NEW i \in 1 .. Cardinality(S) PROVE Pick(i) \in S /\ Rank(Pick(i)) = i
  <2>1. i - 1 \in 0 .. Cardinality(S) - 1
    BY <1>4
  <2>2. PICK d \in S : Cardinality(Under(d, S, R)) = i - 1
    BY <1>2, <2>1, RanksAreFilled
  <2>3. Rank(d) = i
    BY <1>3, <2>1, <2>2
  <2> QED
    BY <2>3
<1>6. Ranked(S, order) = [i \in 1 .. Cardinality(S) |-> Pick(i)]
  BY DEF Ranked, Rank
<1> HIDE DEF Pick
<1>7. Ranked(S, order) \in [1 .. Cardinality(S) -> S]
  BY <1>5, <1>6
<1>8. ASSUME NEW d \in S PROVE Ranked(S, order)[Cardinality(Under(d, S, R)) + 1] = d
  <2> DEFINE r == Cardinality(Under(d, S, R))
  <2>1. r \in 0 .. Cardinality(S) - 1
    BY <1>3
  <2> HIDE DEF r
  <2>2. r + 1 \in 1 .. Cardinality(S)
    BY <1>4, <2>1
  <2>3. Pick(r + 1) \in S /\ Rank(Pick(r + 1)) = r + 1
    BY <1>5, <2>2
  <2>4. PICK c \in S : c = Pick(r + 1) /\ Rank(c) = r + 1
    BY <2>3
  <2>5. Cardinality(Under(c, S, R)) = r
    BY <1>3, <2>1, <2>4
  <2>6. c = d
    BY <1>2, <2>5, RanksCount DEF r
  <2> QED
    BY <1>6, <2>2, <2>4, <2>6 DEF r
<1>9. Lists(Ranked(S, order), S, R)
  BY <1>7, <1>8 DEF Lists
<1> QED
  BY <1>2, <1>9 DEF R

\* Whatever the order, a ranked list is as long as its set.
LEMMA RankedLength ==
    ASSUME NEW S, IsFiniteSet(S), NEW order
    PROVE  /\ Cardinality(S) \in Nat
           /\ Len(Ranked(S, order)) = Cardinality(S)
           /\ \E T : Ranked(S, order) \in Seq(T)
           /\ S = {} => Ranked(S, order) = << >>
<1> DEFINE n == Cardinality(S)
           r == Ranked(S, order)
<1>1. n \in Nat
  BY FS_CardinalityType
<1>2. r \in [1 .. n -> {r[i] : i \in 1 .. n}]
  BY DEF Ranked
<1> HIDE DEF r
<1>3. r \in Seq({r[i] : i \in 1 .. n}) /\ Len(r) = n
  BY <1>1, <1>2
<1>4. S = {} => n = 0
  BY FS_EmptySet
<1> QED
  BY <1>1, <1>3, <1>4, EmptySeq DEF r

------------------------------------------------------------------------------
(* What a split set holds.                                                   *)

\* The documents of a split that satisfy the query, and those of the first n
\* base splits.
Matches(s) == {d \in s.ids : Satisfies(d)}
Found(n) == UNION {Matches(set.base[i]) : i \in 1 .. n}

\* A split set's documents have finitely many natural ids.
LEMMA DocsAre ==
    ASSUME IsSplitSet(set), NEW S \in SUBSET (DOMAIN set.docs)
    PROVE  /\ S \in SUBSET Nat /\ IsFiniteSet(S)
           /\ Lists(Ranked(S, ById), S, Smaller)
           /\ Ranked(S, ById) \in Seq(Nat) /\ Len(Ranked(S, ById)) = Cardinality(S)
           /\ ToSet(Ranked(S, ById)) = S
<1>1. IsFiniteSet(DOMAIN set.docs) /\ DOMAIN set.docs \subseteq Nat
  BY DEF IsSplitSet
<1>2. S \in SUBSET Nat /\ IsFiniteSet(S)
  BY <1>1, FS_Subset
<1>3. \A d \in S : ById[d] = d
  BY DEF ById
<1>4. Orders(Ahead(ById, S), S) /\ Lists(Ranked(S, ById), S, Ahead(ById, S))
  BY <1>2, <1>3, RankedLists
<1>5. \A d \in S : Under(d, S, Ahead(ById, S)) = Under(d, S, Smaller)
  <2>1. \A a, b \in S : <<a, b>> \in Ahead(ById, S) <=> <<a, b>> \in Smaller
    BY <1>2, <1>3 DEF Ahead, Smaller
  <2> QED
    BY <2>1 DEF Under
<1>6. Lists(Ranked(S, ById), S, Smaller)
  BY <1>4, <1>5 DEF Lists
<1>7. Orders(Smaller, S)
  BY <1>2, SmallerOrders
<1>8. /\ Ranked(S, ById) \in Seq(S) /\ Len(Ranked(S, ById)) = Cardinality(S)
      /\ DOMAIN Ranked(S, ById) = 1 .. Cardinality(S)
      /\ \A d \in S : \E i \in 1 .. Cardinality(S) : Ranked(S, ById)[i] = d
  BY <1>2, <1>6, <1>7, ListsInOrder
<1>9. Ranked(S, ById) \in Seq(Nat)
  BY <1>2, <1>8
<1>10. ToSet(Ranked(S, ById)) = S
  <2>1. \A i \in 1 .. Cardinality(S) : Ranked(S, ById)[i] \in S
    BY <1>8
  <2> QED
    BY <1>8, <2>1 DEF ToSet
<1> QED
  BY <1>2, <1>6, <1>8, <1>9, <1>10

\* No summary prunes a split that holds an answer.
LEMMA PrunedHoldsNothing ==
    ASSUME NEW s, IsSplit(set, s), ~Survives(s)
    PROVE  Matches(s) = {}
<1> SUFFICES ASSUME NEW d \in s.ids, Satisfies(d) PROVE FALSE
  BY DEF Matches
<1>1. /\ req.keys \subseteq set.docs[d].keys
      /\ \A arm \in req.filter : arm \intersect set.docs[d].cats # {}
  BY DEF Satisfies
<1>2. CASE PrunedByBloom(s)
  BY <1>1, <1>2 DEF PrunedByBloom, IsSplit
<1>3. CASE FacetPruned(s)
  <2>1. set.docs[d].cats \subseteq IF s.presence = NoSummary THEN {} ELSE s.presence
    BY <1>3 DEF FacetPruned, IsSplit
  <2>2. CASE s.presence = NoSummary
    <3>1. PICK arm \in req.filter : TRUE
      BY <1>3 DEF FacetPruned
    <3>2. arm \intersect set.docs[d].cats = {}
      BY <2>1, <2>2
    <3> QED
      BY <1>1, <3>1, <3>2
  <2>3. CASE s.presence # NoSummary
    <3>1. PICK arm \in req.filter : arm \intersect s.presence = {}
      BY <1>3, <2>3 DEF FacetPruned
    <3>2. arm \intersect set.docs[d].cats = {}
      BY <2>1, <2>3, <3>1
    <3> QED
      BY <1>1, <3>1, <3>2
  <2> QED
    BY <2>2, <2>3
<1> QED
  BY <1>2, <1>3 DEF Survives

\* A split, pruned or not, answers with its first n matches.
LEMMA HitsAre ==
    ASSUME IsSplitSet(set), NEW s, IsSplit(set, s), NEW n \in Nat
    PROVE  /\ Matches(s) \in SUBSET (DOMAIN set.docs)
           /\ Hits(s, n) = FirstOf(Ranked(Matches(s), ById), n)
           /\ Hits(s, n) \in Seq(Nat)
<1>1. Matches(s) \in SUBSET (DOMAIN set.docs)
  BY DEF Matches, IsSplit
<1> DEFINE r == Ranked(Matches(s), ById)
<1>2. r \in Seq(Nat) /\ Len(r) = Cardinality(Matches(s))
  BY <1>1, DocsAre
<1>3. ASSUME Survives(s) PROVE Hits(s, n) = FirstOf(r, n)
  BY <1>3 DEF Hits, Matches
<1>4. ASSUME ~Survives(s) PROVE Hits(s, n) = FirstOf(r, n)
  <2>1. Matches(s) = {}
    BY <1>4, PrunedHoldsNothing
  <2>2. r = << >>
    BY <2>1, RankedLength, FS_EmptySet
  <2>3. FirstOf(r, n) = r
    <3>1. Len(r) <= n
      BY <2>2
    <3> HIDE DEF r
    <3> QED
      BY <1>2, <3>1, FirstOfAll
  <2> QED
    BY <1>4, <2>2, <2>3 DEF Hits
<1>5. Hits(s, n) = FirstOf(r, n)
  BY <1>3, <1>4
<1>6. FirstOf(r, n) \in Seq(Nat)
  <2> HIDE DEF r
  <2> QED
    BY <1>2, FirstOfIs
<1> QED
  BY <1>1, <1>5, <1>6

\* The answers of n base splits are those of n - 1, and then those of the n-th.
LEMMA FoundStep ==
    ASSUME IsSplitSet(set), NEW n \in 1 .. Len(set.base)
    PROVE  /\ Found(n) = Found(n - 1) \union Matches(set.base[n])
           /\ Found(n) \in SUBSET (DOMAIN set.docs)
           /\ Found(n - 1) \in SUBSET (DOMAIN set.docs)
           /\ Ranked(Found(n), ById) =
                Ranked(Found(n - 1), ById) \o Ranked(Matches(set.base[n]), ById)
<1>1. set.base \in Seq(Range(set.base))
  BY DEF IsSplitSet
<1>2. Len(set.base) \in Nat /\ DOMAIN set.base = 1 .. Len(set.base)
  BY <1>1
<1>3. \A i \in 1 .. Len(set.base) : IsSplit(set, set.base[i])
  BY <1>2 DEF IsSplitSet
<1>4. \A i \in 1 .. Len(set.base) : Matches(set.base[i]) \in SUBSET (DOMAIN set.docs)
  BY <1>3 DEF IsSplit, Matches
<1> DEFINE A == Found(n - 1)
           B == Matches(set.base[n])
<1>5. \A i \in 1 .. n - 1 : i \in 1 .. Len(set.base)
  BY <1>2
<1>6. A \in SUBSET (DOMAIN set.docs)
  BY <1>4, <1>5 DEF Found
<1>7. B \in SUBSET (DOMAIN set.docs)
  BY <1>4
<1>8. Found(n) = A \union B
  <2>1. 1 .. n = (1 .. n - 1) \union {n}
    BY <1>2
  <2> QED
    BY <2>1 DEF Found
<1>9. \A a \in A, b \in B : <<a, b>> \in Smaller
  <2> SUFFICES ASSUME NEW a \in A, NEW b \in B PROVE <<a, b>> \in Smaller
    OBVIOUS
  <2>1. PICK i \in 1 .. n - 1 : a \in Matches(set.base[i])
    BY DEF Found
  <2>2. i \in DOMAIN set.base /\ n \in DOMAIN set.base /\ i < n
    BY <1>2, <1>5
  <2>3. a \in set.base[i].ids /\ b \in set.base[n].ids
    BY <2>1 DEF Matches
  <2>4. a < b
    BY <2>2, <2>3 DEF IsSplitSet
  <2>5. a \in Nat /\ b \in Nat
    <3> HIDE DEF A, B
    <3> QED
      BY <1>6, <1>7, DocsAre
  <2> QED
    BY <2>4, <2>5 DEF Smaller
<1> HIDE DEF A, B
<1>10. A \union B \in SUBSET (DOMAIN set.docs)
  BY <1>6, <1>7
<1>11. IsFiniteSet(A) /\ Lists(Ranked(A, ById), A, Smaller)
  BY <1>6, DocsAre
<1>12. IsFiniteSet(B) /\ Lists(Ranked(B, ById), B, Smaller)
  BY <1>7, DocsAre
<1>13. A \union B \in SUBSET Nat /\ Lists(Ranked(A \union B, ById), A \union B, Smaller)
  BY <1>10, DocsAre
<1>14. Orders(Smaller, A \union B)
  BY <1>13, SmallerOrders
<1>15. Lists(Ranked(A, ById) \o Ranked(B, ById), A \union B, Smaller) /\ IsFiniteSet(A \union B)
  BY <1>9, <1>11, <1>12, <1>14, ListsConcat
<1>16. Ranked(A \union B, ById) = Ranked(A, ById) \o Ranked(B, ById)
  BY <1>13, <1>14, <1>15, ListsUnique
<1> QED
  BY <1>6, <1>8, <1>10, <1>16 DEF A, B

\* What one more split adds to a page is what it adds to the answer.
LEMMA PageGrows ==
    ASSUME NEW T, NEW p \in Seq(T), NEW w \in Seq(T), NEW a \in Seq(T), NEW r \in Seq(T),
           NEW n \in Nat, Alike(p \o w, a, n)
    PROVE  Alike(p \o (w \o FirstOf(r, n)), a \o r, n)
<1> DEFINE f == FirstOf(r, n)
<1>1. f \in Seq(T)
  BY FirstOfIs
<1>2. Alike(f, r, n)
  BY FirstOfTwice DEF Alike
<1> HIDE DEF f
<1>3. p \o w \in Seq(T)
  OBVIOUS
<1>4. Alike((p \o w) \o f, a \o r, n)
  BY <1>1, <1>2, <1>3, AlikeConcat
<1>5. (p \o w) \o f = p \o (w \o f)
  <2>1. p \in Seq(T) /\ w \in Seq(T)
    OBVIOUS
  <2> QED
    BY ONLY <1>1, <2>1, ConcatAssociative, SMTT(30)
<1>6. Alike(p \o (w \o f), a \o r, n)
  BY <1>4, <1>5
<1> QED
  BY <1>6 DEF f

\* Where the next wave ends.
LEMMA WaveEnds ==
    ASSUME Len(set.base) \in Nat, next \in 0 .. Len(set.base)
    PROVE  /\ WaveEnd \in next .. Len(set.base)
           /\ next < Len(set.base) => next < WaveEnd
<1> DEFINE S == {next + DescentWave, Len(set.base)}
<1>1. S \in SUBSET Nat /\ S # {}
  BY WaveAssumption
<1>2. Min(S) \in S /\ \A x \in S : Min(S) <= x
  BY <1>1, MinIsLeast
<1> QED
  BY <1>2, WaveAssumption DEF WaveEnd

\* After a wave the page is the head of what the base holds up to its end.
LEMMA WaveFinds ==
    ASSUME IsSplitSet(set), req \in Requests, next \in 0 .. Len(set.base),
           out = FirstOf(Ranked(Found(next), ById), req.limit)
    PROVE  FirstOf(out \o HitsOf(Wave, req.limit), req.limit) =
             FirstOf(Ranked(Found(WaveEnd), ById), req.limit)
<1>1. set.base \in Seq(Range(set.base)) /\ Len(set.base) \in Nat
  BY DEF IsSplitSet
<1>2. DOMAIN set.base = 1 .. Len(set.base)
  BY <1>1
<1>3. req.limit \in Nat
  BY RequestsAssumption
<1>4. WaveEnd \in next .. Len(set.base)
  BY <1>1, WaveEnds
<1>5. \A i \in 1 .. Len(set.base) : IsSplit(set, set.base[i])
  BY <1>2 DEF IsSplitSet
<1> DEFINE m == WaveEnd - next
           n == req.limit
           h == [i \in DOMAIN Wave |-> Hits(Wave[i], n)]
           r(j) == Ranked(Matches(set.base[next + j]), ById)
           R(j) == Ranked(Found(next + j), ById)
<1>6. m \in Nat /\ \A j \in 1 .. m : next + j \in 1 .. Len(set.base)
  BY <1>1, <1>4
<1>7. Len(Wave) = m /\ DOMAIN Wave = 1 .. m /\ \A j \in 1 .. m : Wave[j] = set.base[next + j]
  <2>1. next + 1 \in 1 .. Len(set.base) + 1 /\ WaveEnd \in next .. Len(set.base)
    BY <1>1, <1>4
  <2>2. PICK b, e : b = next + 1 /\ e = WaveEnd
    OBVIOUS
  <2>3. PICK s \in Seq(Range(set.base)) : s = set.base
    BY <1>1
  <2>4. b \in 1 .. Len(s) + 1 /\ e \in b - 1 .. Len(s)
    BY <1>1, <1>4, <2>2, <2>3
  <2>5. /\ Len(SubSeq(s, b, e)) = (e - b) + 1
        /\ \A j \in 1 .. (e - b) + 1 : SubSeq(s, b, e)[j] = s[(b + j) - 1]
    BY <2>4, SubSeqProperties
  <2>6. SubSeq(s, b, e) \in Seq(Range(set.base))
    BY <2>4
  <2>7. (e - b) + 1 = m /\ \A j \in 1 .. m : (b + j) - 1 = next + j
    BY <1>1, <1>4, <2>2
  <2>8. SubSeq(s, b, e) = Wave
    BY <2>2, <2>3 DEF Wave
  <2> HIDE DEF m
  <2>9. DOMAIN SubSeq(s, b, e) = 1 .. m
    BY <2>5, <2>6, <2>7
  <2> QED
    BY <2>3, <2>5, <2>7, <2>8, <2>9
<1>8. \A j \in 1 .. m : h[j] = FirstOf(r(j), n) /\ h[j] \in Seq(Nat) /\ r(j) \in Seq(Nat)
  <2> SUFFICES ASSUME NEW j \in 1 .. m
               PROVE  h[j] = FirstOf(r(j), n) /\ h[j] \in Seq(Nat) /\ r(j) \in Seq(Nat)
    OBVIOUS
  <2>1. PICK s : s = set.base[next + j]
    OBVIOUS
  <2>2. IsSplit(set, s)
    BY <1>5, <1>6, <2>1
  <2>3. h[j] = Hits(s, n)
    BY <1>7, <2>1
  <2>4. /\ Matches(s) \in SUBSET (DOMAIN set.docs)
        /\ Hits(s, n) = FirstOf(Ranked(Matches(s), ById), n)
        /\ Hits(s, n) \in Seq(Nat)
    BY <1>3, <2>2, HitsAre
  <2>5. Ranked(Matches(s), ById) \in Seq(Nat)
    BY <2>4, DocsAre
  <2> QED
    BY <2>1, <2>3, <2>4, <2>5
<1>9. h \in Seq(Seq(Nat)) /\ Len(h) = m
  <2>1. h \in [1 .. m -> Seq(Nat)]
    BY <1>7, <1>8
  <2> QED
    BY <1>6, <2>1
<1>10. HitsOf(Wave, n) = FlattenSeq(h)
  BY DEF HitsOf
<1>11. \A j \in 1 .. m : R(j) = R(j - 1) \o r(j) /\ R(j - 1) \in Seq(Nat)
  <2> SUFFICES ASSUME NEW j \in 1 .. m PROVE R(j) = R(j - 1) \o r(j) /\ R(j - 1) \in Seq(Nat)
    OBVIOUS
  <2>1. PICK k \in 1 .. Len(set.base) : k = next + j
    BY <1>6
  <2>2. next + (j - 1) = k - 1
    BY <1>6, <2>1
  <2>3. /\ Found(k - 1) \in SUBSET (DOMAIN set.docs)
        /\ Ranked(Found(k), ById) = Ranked(Found(k - 1), ById) \o Ranked(Matches(set.base[k]), ById)
    BY FoundStep
  <2>4. Ranked(Found(k - 1), ById) \in Seq(Nat)
    BY <2>3, DocsAre
  <2> QED
    BY <2>1, <2>2, <2>3, <2>4
<1>12. PICK g : Strings(g, h, Nat) /\ FlattenSeq(h) = g[Len(h)]
  BY <1>9, FlattenStrings
<1>13. R(0) \in Seq(Nat) /\ out = FirstOf(R(0), n) /\ out \in Seq(Nat)
  <2>1. next + 0 = next
    BY <1>1
  <2>2. Found(next) \in SUBSET (DOMAIN set.docs)
    <3>1. CASE next = 0
      BY <3>1 DEF Found
    <3>2. CASE next # 0
      <4>1. next \in 1 .. Len(set.base)
        BY <1>1, <3>2
      <4> QED
        BY <4>1, FoundStep
    <3> QED
      BY <3>1, <3>2
  <2>3. Ranked(Found(next), ById) \in Seq(Nat)
    BY <2>2, DocsAre
  <2>4. FirstOf(Ranked(Found(next), ById), n) \in Seq(Nat)
    BY <1>3, <2>3, FirstOfIs
  <2> QED
    BY <2>1, <2>3, <2>4
<1>14. \A j \in 0 .. m : R(j) \in Seq(Nat)
  <2> SUFFICES ASSUME NEW j \in 0 .. m PROVE R(j) \in Seq(Nat)
    OBVIOUS
  <2>1. CASE j = 0
    BY <1>13, <2>1
  <2>2. CASE j # 0
    <3>1. j \in 1 .. m
      BY <1>6, <2>2
    <3>2. R(j) = R(j - 1) \o r(j) /\ R(j - 1) \in Seq(Nat) /\ r(j) \in Seq(Nat)
      BY <1>8, <1>11, <3>1
    <3> HIDE DEF R, r
    <3> QED
      BY <3>2
  <2> QED
    BY <2>1, <2>2
<1> HIDE DEF h, r, R, m, n
<1>15. n \in Nat
  BY <1>3 DEF n
<1> DEFINE Off == {j \in 0 .. m : ~Alike(out \o g[j], R(j), n)}
<1>16. Off = {}
  <2> SUFFICES ASSUME Off # {} PROVE FALSE
    OBVIOUS
  <2>1. Off \in SUBSET Nat
    BY <1>6
  <2>2. PICK j \in Off : \A i \in Off : j <= i
    BY <2>1, NatSetHasLeast
  <2>3. g \in [0 .. m -> Seq(Nat)] /\ g[0] = << >>
    BY <1>9, <1>12 DEF Strings
  <2>4. CASE j = 0
    <3>1. out \o g[0] = out
      BY <1>13, <2>3, ConcatEmptySeq
    <3>2. Alike(out, R(0), n)
      BY <1>13, <1>15, FirstOfTwice DEF Alike
    <3> QED
      BY <2>2, <2>4, <3>1, <3>2
  <2>5. CASE j # 0
    <3>1. j - 1 \in 0 .. m /\ ~(j <= j - 1) /\ j \in 1 .. m
      BY <1>6, <2>2, <2>5
    <3>2. Alike(out \o g[j - 1], R(j - 1), n)
      BY <2>2, <3>1
    <3>3. g[j] = g[j - 1] \o FirstOf(r(j), n) /\ g[j - 1] \in Seq(Nat)
      BY <1>8, <1>9, <1>12, <2>3, <3>1 DEF Strings
    <3>4. r(j) \in Seq(Nat) /\ R(j - 1) \in Seq(Nat) /\ R(j) = R(j - 1) \o r(j)
      BY <1>8, <1>11, <3>1
    <3>5. Alike(out \o (g[j - 1] \o FirstOf(r(j), n)), R(j - 1) \o r(j), n)
      BY <1>13, <1>15, <3>2, <3>3, <3>4, PageGrows
    <3> QED
      BY <2>2, <3>3, <3>4, <3>5
  <2> QED
    BY <2>4, <2>5
<1>17. Alike(out \o g[m], R(m), n)
  <2>1. m \in 0 .. m
    BY <1>6
  <2> QED
    BY <1>16, <2>1
<1>18. R(m) = Ranked(Found(WaveEnd), ById)
  <2>1. next + m = WaveEnd
    BY <1>1, <1>4 DEF m
  <2> QED
    BY <2>1 DEF R
<1>19. HitsOf(Wave, n) = g[m]
  BY <1>9, <1>10, <1>12
<1> QED
  BY <1>17, <1>18, <1>19 DEF Alike, n

------------------------------------------------------------------------------
(* The full answer.                                                          *)

\* The answer is a sequence; it is empty where there is nothing to ask.
LEMMA NothingAsked ==
    IsSplitSet(set) /\ req \in Requests =>
        /\ \E T : Answer \in Seq(T)
        /\ \/ req.limit = 0
           \/ set.delta = << >> /\ set.policy # "stable" /\ set.base = << >>
           => << >> = FirstOf(Answer, req.limit)
<1> SUFFICES ASSUME IsSplitSet(set), req \in Requests
             PROVE  /\ \E T : Answer \in Seq(T)
                    /\ \/ req.limit = 0
                       \/ set.delta = << >> /\ set.policy # "stable" /\ set.base = << >>
                       => << >> = FirstOf(Answer, req.limit)
  OBVIOUS
<1> DEFINE B == Answers(set.base)
           D == Answers(set.delta)
<1>1. Held(set.base) \subseteq DOMAIN set.docs /\ Held(set.delta) \subseteq DOMAIN set.docs
  BY DEF IsSplitSet, IsSplit, Held
<1>2. IsFiniteSet(B) /\ IsFiniteSet(D)
  <2>1. IsFiniteSet(DOMAIN set.docs)
    BY DEF IsSplitSet
  <2>2. B \subseteq DOMAIN set.docs /\ D \subseteq DOMAIN set.docs
    BY <1>1 DEF Answers
  <2> QED
    BY <2>1, <2>2, FS_Subset
<1>3. set.base = << >> => B = {}
  BY DEF Answers, Held
<1>4. set.delta = << >> => D = {}
  BY DEF Answers, Held
<1> HIDE DEF B, D
<1>5. PICK T : Ranked(B, BaseOrder) \in Seq(T)
  BY <1>2, RankedLength
<1>6. PICK U : Ranked(D, ById) \in Seq(U)
  BY <1>2, RankedLength
<1>7. PICK a, b : a = Ranked(B, BaseOrder) /\ b = Ranked(D, ById)
  OBVIOUS
<1>8. a \in Seq(T) /\ b \in Seq(U) /\ Answer = a \o b
  BY <1>5, <1>6, <1>7 DEF Answer, B, D
<1>9. a \in Seq(T \union U) /\ b \in Seq(T \union U)
  <2>1. T \subseteq T \union U /\ U \subseteq T \union U
    OBVIOUS
  <2> QED
    BY <1>8, <2>1
<1>10. Answer \in Seq(T \union U)
  BY <1>8, <1>9
<1>11. req.limit \in Nat
  BY RequestsAssumption
<1>12. CASE req.limit = 0
  <2>1. FirstOf(Answer, 0) = << >>
    BY <1>10, FirstOfAll
  <2> QED
    BY <1>10, <1>12, <2>1
<1>13. ASSUME set.delta = << >>, set.base = << >> PROVE << >> = FirstOf(Answer, req.limit)
  <2>1. a = << >> /\ b = << >>
    BY <1>2, <1>3, <1>4, <1>7, <1>13, RankedLength
  <2>2. Answer = << >>
    BY <1>8, <2>1
  <2> QED
    BY <1>11, <2>2, FirstOfNone
<1> QED
  BY <1>10, <1>12, <1>13

\* A set without deltas has no tombstones.
LEMMA NothingDead == ASSUME IsSplitSet(set), set.delta = << >> PROVE Dead = {}
<1>1. set.base \in Seq(Range(set.base))
  BY DEF IsSplitSet
<1>2. Splits = set.base
  BY <1>1, ConcatEmptySeq DEF Splits
<1> QED
  BY <1>2 DEF Dead, ToSet, IsSplitSet

\* In a set of base splits the answer is what the base holds, by id.
LEMMA TieredAnswer ==
    ASSUME IsSplitSet(set), set.delta = << >>, set.policy # "stable"
    PROVE  /\ Dead = {}
           /\ Answer = Ranked(Found(Len(set.base)), ById)
           /\ \A n \in 0 .. Len(set.base) : /\ Found(n) \in SUBSET (DOMAIN set.docs)
                                            /\ Ranked(Found(n), ById) \in Seq(Nat)
<1>1. set.base \in Seq(Range(set.base)) /\ DOMAIN set.base = 1 .. Len(set.base)
      /\ Len(set.base) \in Nat
  BY DEF IsSplitSet
<1>3. Dead = {}
  BY NothingDead
<1>4. Answers(set.base) = Found(Len(set.base))
  BY <1>1, <1>3 DEF Answers, Held, Found, Matches
<1>5. Answers(set.delta) = {}
  BY DEF Answers, Held
<1>6. Ranked({}, ById) = << >>
  BY RankedLength, FS_EmptySet
<1>7. BaseOrder = ById
  BY DEF BaseOrder
<1>8. \A n \in 0 .. Len(set.base) : /\ Found(n) \in SUBSET (DOMAIN set.docs)
                                    /\ Ranked(Found(n), ById) \in Seq(Nat)
  <2> SUFFICES ASSUME NEW n \in 0 .. Len(set.base)
               PROVE  Found(n) \in SUBSET (DOMAIN set.docs) /\ Ranked(Found(n), ById) \in Seq(Nat)
    OBVIOUS
  <2>1. \A i \in 1 .. n : i \in DOMAIN set.base
    BY <1>1
  <2>2. Found(n) \in SUBSET (DOMAIN set.docs)
    BY <2>1 DEF IsSplitSet, IsSplit, Found, Matches
  <2> QED
    BY <2>2, DocsAre
<1>9. Answer = Ranked(Found(Len(set.base)), ById)
  <2>1. Len(set.base) \in 0 .. Len(set.base)
    BY <1>1
  <2>2. PICK r : r = Ranked(Found(Len(set.base)), ById) /\ r \in Seq(Nat)
    BY <1>8, <2>1
  <2>3. Answer = r \o << >>
    BY <1>4, <1>5, <1>6, <1>7, <2>2 DEF Answer
  <2> QED
    BY <2>2, <2>3, ConcatEmptySeq
<1> QED
  BY <1>3, <1>8, <1>9

\* A page that is full, or behind the last split, is the head of the answer.
LEMMA DescentEnds ==
    ASSUME IsSplitSet(set), req \in Requests, set.delta = << >>, set.policy # "stable",
           NEW n \in 0 .. Len(set.base), NEW p, p = FirstOf(Ranked(Found(n), ById), req.limit),
           Len(p) >= req.limit \/ n = Len(set.base)
    PROVE  p = FirstOf(Answer, req.limit)
<1> DEFINE R(k) == Ranked(Found(k), ById)
<1>1. req.limit \in Nat /\ Len(set.base) \in Nat
  BY RequestsAssumption DEF IsSplitSet
<1>2. /\ Answer = R(Len(set.base))
      /\ \A k \in 0 .. Len(set.base) : R(k) \in Seq(Nat)
  BY TieredAnswer
<1>3. \A k \in 1 .. Len(set.base) :
          /\ R(k) = R(k - 1) \o Ranked(Matches(set.base[k]), ById)
          /\ Ranked(Matches(set.base[k]), ById) \in Seq(Nat)
  <2> SUFFICES ASSUME NEW k \in 1 .. Len(set.base)
               PROVE  /\ R(k) = R(k - 1) \o Ranked(Matches(set.base[k]), ById)
                      /\ Ranked(Matches(set.base[k]), ById) \in Seq(Nat)
    OBVIOUS
  <2>1. Matches(set.base[k]) \subseteq Found(k) /\ Found(k) \in SUBSET (DOMAIN set.docs)
    BY FoundStep
  <2>2. Ranked(Matches(set.base[k]), ById) \in Seq(Nat)
    BY <2>1, DocsAre
  <2> QED
    BY <2>2, FoundStep
<1> HIDE DEF R
<1>4. p = FirstOf(R(n), req.limit)
  BY DEF R
<1>5. CASE n = Len(set.base)
  BY <1>2, <1>4, <1>5
<1>6. CASE Len(p) >= req.limit
  <2>1. R(n) \in Seq(Nat) /\ Len(R(n)) \in Nat
    BY <1>2
  <2>2. Len(p) = IF req.limit <= Len(R(n)) THEN req.limit ELSE Len(R(n))
    BY <1>1, <1>4, <2>1, FirstOfIs
  <2>3. Len(R(n)) >= req.limit
    BY <1>1, <1>6, <2>1, <2>2
  <2> DEFINE Good(k) == Len(R(k)) >= req.limit /\ Alike(R(n), R(k), req.limit)
             Off == {k \in n .. Len(set.base) : ~Good(k)}
  <2>4. Off = {}
    <3> SUFFICES ASSUME Off # {} PROVE FALSE
      OBVIOUS
    <3>1. Off \in SUBSET Nat
      <4> HIDE DEF Good
      <4> QED
        BY <1>1
    <3>2. PICK k \in Off : \A i \in Off : k <= i
      BY <3>1, NatSetHasLeast
    <3>3. CASE k = n
      BY <2>3, <3>2, <3>3 DEF Alike
    <3>4. CASE k # n
      <4>1. k - 1 \in n .. Len(set.base) /\ ~(k <= k - 1) /\ k \in 1 .. Len(set.base)
        BY <1>1, <3>2, <3>4
      <4>2. Good(k - 1)
        <5> HIDE DEF Good
        <5> QED
          BY <3>2, <4>1
      <4>3. PICK a \in Seq(Nat), r \in Seq(Nat) : a = R(k - 1) /\ R(k) = a \o r
        <5>1. k - 1 \in 0 .. Len(set.base)
          BY <1>1, <4>1
        <5> QED
          BY <1>2, <1>3, <4>1, <5>1
      <4>4. Len(a \o r) = Len(a) + Len(r)
        BY ConcatProperties
      <4>5. Len(R(k)) >= req.limit
        BY <1>1, <4>2, <4>3, <4>4
      <4>6. Alike(a, a \o r, req.limit)
        BY <1>1, <4>2, <4>3, AlikeLong
      <4> QED
        BY <3>2, <4>2, <4>3, <4>5, <4>6 DEF Alike
    <3> QED
      BY <3>3, <3>4
  <2>5. Good(Len(set.base))
    <3> HIDE DEF Good
    <3>1. Len(set.base) \in n .. Len(set.base)
      BY <1>1
    <3> QED
      BY <2>4, <3>1
  <2> QED
    BY <1>2, <1>4, <2>5 DEF Alike
<1> QED
  BY <1>5, <1>6

\* Asked for all its matches, a sequence of splits returns what it holds.
LEMMA GatherFinds ==
    ASSUME IsSplitSet(set), NEW splits, splits \in Seq(Range(splits)),
           \A i \in DOMAIN splits : IsSplit(set, splits[i])
    PROVE  ToSet(HitsOf(splits, Cardinality(DOMAIN set.docs))) =
             {d \in Held(splits) : Satisfies(d)}
<1> DEFINE N == Cardinality(DOMAIN set.docs)
           h == [i \in DOMAIN splits |-> Hits(splits[i], N)]
<1>1. DOMAIN splits = 1 .. Len(splits) /\ Len(splits) \in Nat
  OBVIOUS
<1>2. IsFiniteSet(DOMAIN set.docs) /\ N \in Nat
  BY FS_CardinalityType DEF IsSplitSet
<1> HIDE DEF N
<1>3. ASSUME NEW i \in DOMAIN splits
      PROVE  Hits(splits[i], N) \in Seq(Nat) /\ ToSet(Hits(splits[i], N)) = Matches(splits[i])
  <2>1. PICK s : s = splits[i]
    OBVIOUS
  <2>2. IsSplit(set, s)
    BY <2>1
  <2>3. /\ Matches(s) \in SUBSET (DOMAIN set.docs)
        /\ Hits(s, N) = FirstOf(Ranked(Matches(s), ById), N)
        /\ Hits(s, N) \in Seq(Nat)
    BY <1>2, <2>2, HitsAre
  <2>4. PICK r \in Seq(Nat) : /\ r = Ranked(Matches(s), ById)
                              /\ Len(r) = Cardinality(Matches(s)) /\ ToSet(r) = Matches(s)
    BY <2>3, DocsAre
  <2>5. Len(r) <= N
    BY <1>2, <2>3, <2>4, FS_Subset DEF N
  <2>6. FirstOf(r, N) = r
    BY <1>2, <2>5, FirstOfAll
  <2> QED
    BY <2>1, <2>3, <2>4, <2>6
<1>4. h \in Seq(Seq(Nat)) /\ DOMAIN h = DOMAIN splits
  <2>1. h \in [1 .. Len(splits) -> Seq(Nat)]
    BY <1>1, <1>3
  <2> QED
    BY <1>1, <2>1
<1>5. ToSet(FlattenSeq(h)) = UNION {ToSet(h[i]) : i \in DOMAIN h}
  <2> HIDE DEF h
  <2> QED
    BY <1>4, FlattenHolds
<1>6. UNION {ToSet(h[i]) : i \in DOMAIN h} = UNION {Matches(splits[i]) : i \in DOMAIN splits}
  BY <1>3
<1>7. UNION {Matches(splits[i]) : i \in DOMAIN splits} = {d \in Held(splits) : Satisfies(d)}
  BY DEF Matches, Held
<1>8. HitsOf(splits, N) = FlattenSeq(h)
  BY DEF HitsOf
<1> QED
  BY <1>5, <1>6, <1>7, <1>8 DEF N

------------------------------------------------------------------------------
(* Answering a query.                                                        *)

\* The inductive invariant.  Only a set of base splits without a policy of its
\* own is descended; while it is, the page is the head of what the splits asked
\* so far hold, and it is empty when the global filter is probed.
IInv ==
    /\ IsSplitSet(set) /\ req \in Requests /\ pc \in Steps
    /\ pc \in {"top", "probe", "wave"} =>
          set.delta = << >> /\ set.policy # "stable" /\ set.base # << >>
    /\ pc \in {"probe", "wave"} =>
          next \in 0 .. Len(set.base) /\ out = FirstOf(Ranked(Found(next), ById), req.limit)
    /\ pc = "probe" => out = << >>
    /\ PageIsAnswer

\* The answer depends on the open set and the query alone.
LEMMA SameAnswer ==
    ASSUME set' = set, req' = req
    PROVE  Answer' = Answer /\ \A n : Found(n)' = Found(n)
<1>1. Dead' = Dead /\ BaseOrder' = BaseOrder /\ ById' = ById
  BY DEF Dead, Splits, BaseOrder, ById
<1>2. \A d : Satisfies(d)' <=> Satisfies(d)
  BY DEF Satisfies
<1>3. \A n : Found(n)' = Found(n)
  BY <1>2 DEF Found, Matches
<1>4. Answers(set.base)' = Answers(set.base) /\ Answers(set.delta)' = Answers(set.delta)
  BY <1>1, <1>2 DEF Answers, Held
<1> QED
  BY <1>1, <1>3, <1>4 DEF Answer

\* Asking, from any state a query ended in.
LEMMA AskKeeps == ASSUME IsSplitSet(set), NEW r \in Requests, Ask(r) PROVE IInv'
<1>1. IsSplitSet(set') /\ req' \in Requests /\ set' = set /\ req' = r
  BY DEF Ask
<1>2. pc' \in {"done", "gather", "top"} /\ pc' \in Steps
  BY DEF Ask, Steps
<1>3. pc' = "top" => set.delta = << >> /\ set.policy # "stable" /\ set.base # << >>
  BY DEF Ask
<1>4. pc' = "done" => /\ out' = << >>
                      /\ \/ r.limit = 0
                         \/ set.delta = << >> /\ set.policy # "stable" /\ set.base = << >>
  BY DEF Ask
<1>5. (IsSplitSet(set) /\ req \in Requests =>
        /\ \E T : Answer \in Seq(T)
        /\ \/ req.limit = 0
           \/ set.delta = << >> /\ set.policy # "stable" /\ set.base = << >>
           => << >> = FirstOf(Answer, req.limit))'
  BY NothingAsked, PTL
<1>6. PageIsAnswer'
  BY <1>1, <1>4, <1>5 DEF PageIsAnswer
<1> QED
  BY <1>1, <1>2, <1>3, <1>6 DEF IInv

\* A failed read ends the query with nothing to show for it.
LEMMA FailureKeeps == ASSUME IInv, NEW asked, FailRead(asked) PROVE IInv'
<1>1. pc' \in {"absent", "failed"} /\ set' = set /\ req' = req
  BY DEF FailRead
<1>2. PageIsAnswer'
  BY <1>1 DEF PageIsAnswer
<1> QED
  BY <1>1, <1>2 DEF IInv, Steps

\* The top split's answer is the head of the answer, or of what there is so far.
LEMMA TopKeeps == ASSUME IInv, Top PROVE IInv'
<1>1. /\ IsSplitSet(set) /\ req \in Requests /\ set' = set /\ req' = req
      /\ set.delta = << >> /\ set.policy # "stable" /\ set.base # << >>
  BY DEF IInv, Top
<1>2. set.base \in Seq(Range(set.base)) /\ Len(set.base) \in Nat /\ DOMAIN set.base = 1 .. Len(set.base)
  BY <1>1 DEF IsSplitSet
<1>3. 1 \in 1 .. Len(set.base) /\ 1 \in 0 .. Len(set.base)
  BY <1>1, <1>2, EmptySeq
<1>4. req.limit \in Nat
  BY <1>1, RequestsAssumption
<1>5. PICK s : s = set.base[1]
  OBVIOUS
<1>6. IsSplit(set, s)
  BY <1>1, <1>2, <1>3, <1>5 DEF IsSplitSet
<1>7. Found(1) = Matches(s)
  BY <1>5 DEF Found
<1>8. Hits(s, req.limit) = FirstOf(Ranked(Found(1), ById), req.limit)
  BY <1>1, <1>4, <1>6, <1>7, HitsAre
<1>9. out' = FirstOf(Ranked(Found(1), ById), req.limit) /\ next' = 1
  BY <1>5, <1>8 DEF Top
<1>10. /\ pc' \in {"done", "probe", "wave"}
       /\ pc' = "done" => Len(out') >= req.limit
       /\ pc' = "probe" => out' = << >>
  BY DEF Top
<1>11. Answer' = Answer /\ Found(1)' = Found(1)
  BY <1>1, SameAnswer
<1>12. ASSUME pc' = "done" PROVE out' = FirstOf(Answer, req.limit)
  <2>1. PICK p : p = out'
    OBVIOUS
  <2>2. p = FirstOf(Ranked(Found(1), ById), req.limit) /\ Len(p) >= req.limit
    BY <1>9, <1>10, <1>12, <2>1
  <2> QED
    BY <1>1, <1>3, <2>1, <2>2, DescentEnds
<1>13. PageIsAnswer'
  BY <1>1, <1>11, <1>12 DEF PageIsAnswer
<1>14. next' \in 0 .. Len(set'.base) /\ out' = FirstOf(Ranked(Found(next), ById), req.limit)'
  <2>1. ById' = ById
    BY <1>1 DEF ById
  <2>2. Found(next)' = Found(1)
    BY <1>1, <1>9, <1>11 DEF Found, Matches, Satisfies
  <2> QED
    BY <1>1, <1>3, <1>9, <2>1, <2>2
<1>15. pc' \in Steps /\ pc' # "top"
  BY <1>10 DEF Steps
<1> QED
  BY <1>1, <1>10, <1>13, <1>14, <1>15 DEF IInv

\* A definite absence in the global filter means that nothing satisfies the query.
LEMMA ProbeKeeps == ASSUME IInv, Probe PROVE IInv'
<1>1. /\ IsSplitSet(set) /\ req \in Requests /\ set' = set /\ req' = req
      /\ set.delta = << >> /\ set.policy # "stable" /\ set.base # << >>
      /\ out = << >> /\ out' = out /\ next' = next
      /\ next \in 0 .. Len(set.base) /\ out = FirstOf(Ranked(Found(next), ById), req.limit)
  BY DEF IInv, Probe
<1>2. pc' \in {"wave", "done"}
      /\ (pc' = "done" => set.global # NoSummary /\ ~(req.keys \subseteq set.global))
  BY DEF Probe
<1>3. Answer' = Answer /\ Found(next)' = Found(next) /\ ById' = ById
  BY <1>1 DEF Answer, Answers, Held, Dead, Splits, BaseOrder, ById, Found, Matches, Satisfies
<1>4. ASSUME pc' = "done" PROVE out' = FirstOf(Answer, req.limit)
  <2>1. set.global # NoSummary /\ ~(req.keys \subseteq set.global)
    BY <1>2, <1>4
  <2>2. \A d \in DOMAIN set.docs : set.docs[d].keys \subseteq set.global
    BY <1>1, <2>1 DEF IsSplitSet
  <2>3. Len(set.base) \in Nat
    BY <1>1 DEF IsSplitSet
  <2>4. PICK n \in 0 .. Len(set.base) : n = Len(set.base)
    BY <2>3
  <2>5. Found(n) \in SUBSET (DOMAIN set.docs)
    BY <1>1, TieredAnswer
  <2>6. Found(n) = {}
    <3>1. \A d \in Found(n) : Satisfies(d)
      BY DEF Found, Matches
    <3> QED
      BY <2>1, <2>2, <2>5, <3>1 DEF Satisfies
  <2>7. Answer = << >>
    BY <1>1, <2>4, <2>6, TieredAnswer, RankedLength, FS_EmptySet
  <2>8. req.limit \in Nat
    BY <1>1, RequestsAssumption
  <2> QED
    BY <1>1, <2>7, <2>8, FirstOfNone
<1>5. PageIsAnswer'
  BY <1>1, <1>3, <1>4 DEF PageIsAnswer
<1>6. pc' \in Steps /\ pc' \notin {"top", "probe"}
  BY <1>2 DEF Steps
<1>7. next' \in 0 .. Len(set'.base) /\ out' = FirstOf(Ranked(Found(next), ById), req.limit)'
  BY <1>1, <1>3
<1> QED
  BY <1>1, <1>5, <1>6, <1>7 DEF IInv

\* A wave extends the page as it extends what was asked.
LEMMA DescendKeeps == ASSUME IInv, Descend PROVE IInv'
<1>1. /\ IsSplitSet(set) /\ req \in Requests /\ set' = set /\ req' = req
      /\ set.delta = << >> /\ set.policy # "stable" /\ set.base # << >>
      /\ next \in 0 .. Len(set.base) /\ out = FirstOf(Ranked(Found(next), ById), req.limit)
  BY DEF IInv, Descend
<1>2. Len(set.base) \in Nat
  BY <1>1 DEF IsSplitSet
<1>3. PICK e : e = WaveEnd
  OBVIOUS
<1>4. e \in 0 .. Len(set.base)
  BY <1>1, <1>2, <1>3, WaveEnds
<1>5. next' = e /\ out' = FirstOf(Ranked(Found(e), ById), req.limit)
  <2>1. out' = FirstOf(out \o HitsOf(Wave, req.limit), req.limit) /\ next' = WaveEnd
    BY DEF Descend
  <2> QED
    BY <1>1, <1>3, <2>1, WaveFinds
<1>6. /\ pc' \in {"done", "wave"}
      /\ pc' = "done" => Len(out') >= req.limit \/ e = Len(set.base)
  BY <1>5 DEF Descend
<1>7. Answer' = Answer /\ Found(next)' = Found(e) /\ ById' = ById
  <2>1. Answer' = Answer /\ ById' = ById
    BY <1>1, SameAnswer DEF ById
  <2>2. Found(next)' = Found(e)
    BY <1>1, <1>5 DEF Found, Matches, Satisfies
  <2> QED
    BY <2>1, <2>2
<1>8. ASSUME pc' = "done" PROVE out' = FirstOf(Answer, req.limit)
  <2>1. PICK p : p = out'
    OBVIOUS
  <2>2. p = FirstOf(Ranked(Found(e), ById), req.limit)
    BY <1>5, <2>1
  <2>3. Len(p) >= req.limit \/ e = Len(set.base)
    BY <1>6, <1>8, <2>1
  <2> QED
    BY <1>1, <1>4, <2>1, <2>2, <2>3, DescentEnds
<1>9. PageIsAnswer'
  BY <1>1, <1>7, <1>8 DEF PageIsAnswer
<1>10. next' \in 0 .. Len(set'.base) /\ out' = FirstOf(Ranked(Found(next), ById), req.limit)'
  BY <1>1, <1>4, <1>5, <1>7
<1>11. pc' \in Steps /\ pc' \notin {"top", "probe"}
  BY <1>6 DEF Steps
<1> QED
  BY <1>1, <1>9, <1>10, <1>11 DEF IInv

\* Base and deltas gathered, masked and ranked are the answer.
LEMMA GatherKeeps == ASSUME IInv, Gather PROVE IInv'
<1>1. IsSplitSet(set) /\ req \in Requests /\ set' = set /\ req' = req /\ pc' = "done"
  BY DEF IInv, Gather
<1> DEFINE N == Cardinality(DOMAIN set.docs)
<1>2. ToSet(HitsOf(set.base, N)) = {d \in Held(set.base) : Satisfies(d)}
  <2>1. PICK b : b = set.base
    OBVIOUS
  <2>2. b \in Seq(Range(b)) /\ \A i \in DOMAIN b : IsSplit(set, b[i])
    BY <1>1, <2>1 DEF IsSplitSet
  <2> QED
    BY <1>1, <2>1, <2>2, GatherFinds
<1>3. ToSet(HitsOf(set.delta, N)) = {d \in Held(set.delta) : Satisfies(d)}
  <2>1. PICK b : b = set.delta
    OBVIOUS
  <2>2. b \in Seq(Range(b)) /\ \A i \in DOMAIN b : IsSplit(set, b[i])
    BY <1>1, <2>1 DEF IsSplitSet
  <2> QED
    BY <1>1, <2>1, <2>2, GatherFinds
<1>4. out' = Merged(ToSet(HitsOf(set.base, N)), ToSet(HitsOf(set.delta, N)))
  BY DEF Gather
<1> HIDE DEF N
<1>5. {d \in Held(set.base) : Satisfies(d)} \ Dead = Answers(set.base)
  BY DEF Answers
<1>6. {d \in Held(set.delta) : Satisfies(d)} \ Dead = Answers(set.delta)
  BY DEF Answers
<1>7. out' = FirstOf(Answer, req.limit)
  BY <1>2, <1>3, <1>4, <1>5, <1>6 DEF Merged, Answer
<1>8. PageIsAnswer'
  BY <1>1, <1>7, SameAnswer DEF PageIsAnswer
<1> QED
  BY <1>1, <1>8 DEF IInv, Steps

\* Every step of a query keeps the invariant.
LEMMA StepKeeps == IInv /\ [Next]_vars => IInv'
<1> SUFFICES ASSUME IInv, [Next]_vars PROVE IInv'
  OBVIOUS
<1>1. ASSUME NEW r \in Requests, Ask(r) PROVE IInv'
  BY <1>1, AskKeeps DEF IInv
<1>2. CASE Top
  BY <1>2, TopKeeps
<1>3. CASE TopFails
  BY <1>3, FailureKeeps DEF TopFails
<1>4. CASE Probe
  BY <1>4, ProbeKeeps
<1>5. CASE Descend
  BY <1>5, DescendKeeps
<1>6. CASE DescendFails
  BY <1>6, FailureKeeps DEF DescendFails
<1>7. CASE Gather
  BY <1>7, GatherKeeps
<1>8. CASE GatherFails
  BY <1>8, FailureKeeps DEF GatherFails
<1>9. CASE UNCHANGED vars
  <2>1. set' = set /\ req' = req /\ pc' = pc /\ out' = out /\ next' = next
    BY <1>9 DEF vars
  <2>2. Answer' = Answer /\ Found(next)' = Found(next) /\ ById' = ById
    BY <2>1 DEF Answer, Answers, Held, Dead, Splits, BaseOrder, ById, Found, Matches, Satisfies
  <2> QED
    BY <2>1, <2>2 DEF IInv, PageIsAnswer
<1> QED
  BY <1>1, <1>2, <1>3, <1>4, <1>5, <1>6, <1>7, <1>8, <1>9 DEF Next

\* The invariant holds in every reachable state.
THEOREM DescentInvariance == Spec => []IInv
<1>1. Init => IInv
  <2> SUFFICES ASSUME Init PROVE IInv
    OBVIOUS
  <2>1. req \in Requests
    BY RequestsAssumption DEF Init
  <2>2. IsSplitSet(set)
    BY SetsAssumption DEF Init
  <2> QED
    BY <2>1, <2>2 DEF Init, IInv, Steps, PageIsAnswer
<1> QED
  BY <1>1, StepKeeps, PTL DEF Spec

\* Whatever the tiers, policies, deltas, summaries and limits: a finished page is
\* the head of the full answer.
THEOREM PageIsAnswerAlways == Spec => []PageIsAnswer
<1>1. IInv => PageIsAnswer
  BY DEF IInv
<1> QED
  BY <1>1, DescentInvariance, PTL

\* What a finished page of a set without deltas looks like, with no word about
\* how the answer was sorted: as many matches as there are up to the limit, in
\* order, and the ones left out come later.
LEMMA FinishedPage ==
    ASSUME IInv, pc = "done", set.delta = << >>,
           NEW M, M = Answers(set.base),
           NEW n, n = IF req.limit <= Cardinality(M) THEN req.limit ELSE Cardinality(M)
    PROVE  /\ M \in SUBSET (DOMAIN set.docs)
           /\ out \in Seq(M) /\ Len(out) = n
           /\ \A i, j \in 1 .. n : i < j => <<out[i], out[j]>> \in Ahead(BaseOrder, M)
           /\ \A d \in M : \/ \E i \in 1 .. n : out[i] = d
                           \/ \A i \in 1 .. n : <<out[i], d>> \in Ahead(BaseOrder, M)
<1> DEFINE R == Ahead(BaseOrder, M)
           r == Ranked(M, BaseOrder)
           N == Cardinality(M)
<1>1. /\ IsSplitSet(set) /\ req.limit \in Nat /\ out = FirstOf(Answer, req.limit)
  BY RequestsAssumption DEF IInv, PageIsAnswer
<1>2. M \in SUBSET (DOMAIN set.docs)
  <2>1. \A i \in DOMAIN set.base : set.base[i].ids \subseteq DOMAIN set.docs
    BY <1>1 DEF IsSplitSet, IsSplit
  <2> QED
    BY <2>1 DEF Answers, Held
<1>3. M \in SUBSET Nat /\ IsFiniteSet(M)
  BY <1>1, <1>2, DocsAre
<1>4. \A d \in M : BaseOrder[d] \in Nat
  BY <1>1, <1>2, <1>3 DEF BaseOrder, ById, IsSplitSet
<1>5. Orders(R, M) /\ Lists(r, M, R)
  BY <1>3, <1>4, RankedLists
<1> HIDE DEF R, r
<1>6. /\ r \in Seq(M) /\ Len(r) = N /\ N \in Nat
      /\ \A d \in M : \E i \in 1 .. N : r[i] = d
      /\ \A i, j \in 1 .. N : i < j => <<r[i], r[j]>> \in R
  BY ONLY <1>3, <1>5, ListsInOrder
<1> HIDE DEF N
<1>7. Answer = r
  <2>1. Answers(set.delta) = {}
    BY DEF Answers, Held
  <2>2. Ranked({}, ById) = << >>
    BY RankedLength, FS_EmptySet
  <2>3. Answer = r \o << >>
    BY <2>1, <2>2 DEF Answer, r
  <2> QED
    BY <1>6, <2>3
<1>8. /\ out \in Seq(M) /\ Len(out) = n /\ n \in Nat /\ n <= N
      /\ \A i \in 1 .. n : out[i] = r[i]
  <2>1. PICK l \in Nat : l = req.limit
    BY <1>1
  <2>2. r \in Seq(M) /\ Len(r) = N
    BY <1>6
  <2>3. /\ n \in Nat /\ n <= N /\ n = IF l <= N THEN l ELSE N
        /\ \A i \in 1 .. n : i \in 1 .. N /\ i <= l
    <3>1. N \in Nat /\ n = IF l <= N THEN l ELSE N
      BY <1>6, <2>1 DEF N
    <3>2. n \in Nat /\ n <= N /\ n <= l
      BY ONLY <2>1, <3>1
    <3> QED
      BY ONLY <2>1, <3>1, <3>2
  <2>4. out = FirstOf(r, l)
    BY <1>1, <1>7, <2>1
  <2>5. /\ FirstOf(r, l) \in Seq(M) /\ Len(FirstOf(r, l)) = n
        /\ \A i \in 1 .. Len(r) : i <= l => FirstOf(r, l)[i] = r[i]
    <3>1. PICK f : f = FirstOf(r, l)
      OBVIOUS
    <3>2. /\ f \in Seq(M) /\ Len(f) = IF l <= Len(r) THEN l ELSE Len(r)
          /\ \A i \in 1 .. Len(r) : i <= l => f[i] = r[i]
      BY ONLY l \in Nat, <2>2, <3>1, FirstOfIs
    <3>3. Len(f) = n
      BY ONLY <2>2, <2>3, <3>2
    <3> QED
      BY ONLY <3>1, <3>2, <3>3
  <2> QED
    BY ONLY <2>2, <2>3, <2>4, <2>5
<1>9. ASSUME NEW d \in M
      PROVE  \/ \E i \in 1 .. n : out[i] = d
             \/ \A i \in 1 .. n : <<out[i], d>> \in R
  <2>1. PICK k \in 1 .. N : r[k] = d
    BY <1>6
  <2>2. n \in Nat /\ n <= N /\ N \in Nat
    BY <1>6, <1>8
  <2>3. CASE k <= n
    <3>1. k \in 1 .. n
      BY ONLY <2>1, <2>2, <2>3
    <3>2. out[k] = r[k]
      BY <1>8, <3>1
    <3> QED
      BY <2>1, <3>1, <3>2
  <2>4. CASE ~(k <= n)
    <3>1. \A i \in 1 .. n : i \in 1 .. N /\ i < k
      BY ONLY <2>1, <2>2, <2>4
    <3>2. ASSUME NEW i \in 1 .. n PROVE <<out[i], d>> \in R
      <4>1. i \in 1 .. N /\ i < k
        BY <3>1
      <4>2. <<r[i], r[k]>> \in R
        BY <1>6, <2>1, <4>1
      <4>3. out[i] = r[i]
        BY <1>8
      <4> QED
        BY <2>1, <4>2, <4>3
    <3> QED
      BY <3>2
  <2> QED
    BY <2>3, <2>4
<1>10. ASSUME NEW i \in 1 .. n, NEW j \in 1 .. n, i < j
       PROVE  <<out[i], out[j]>> \in R
  <2>0. n \in Nat /\ n <= N /\ N \in Nat
    BY <1>6, <1>8
  <2>1. i \in 1 .. N /\ j \in 1 .. N
    BY ONLY <2>0, i \in 1 .. n, j \in 1 .. n
  <2>2. out[i] = r[i] /\ out[j] = r[j]
    BY <1>8
  <2>3. <<r[i], r[j]>> \in R
    BY <1>6, <1>10, <2>1
  <2> QED
    BY <2>2, <2>3
<1> QED
  BY <1>2, <1>8, <1>9, <1>10 DEF R

------------------------------------------------------------------------------
(* The header-only count.                                                    *)

\* What each split adds to the estimate.
Shares ==
    [i \in DOMAIN Splits |-> IF PrunedByBloom(Splits[i]) THEN 0 ELSE SplitEstimate(Splits[i])]

\* Splits, their places and their documents.
LEMMA SplitsAre ==
    ASSUME IsSplitSet(set)
    PROVE  /\ Len(set.base) \in Nat /\ Len(set.delta) \in Nat
           /\ DOMAIN set.base = 1 .. Len(set.base) /\ DOMAIN set.delta = 1 .. Len(set.delta)
           /\ DOMAIN Splits = 1 .. Len(set.base) + Len(set.delta)
           /\ \A i \in 1 .. Len(set.base) : Splits[i] = set.base[i]
           /\ \A i \in 1 .. Len(set.delta) : Splits[Len(set.base) + i] = set.delta[i]
           /\ \A i \in DOMAIN Splits : IsSplit(set, Splits[i])
           /\ IsFiniteSet(DOMAIN Splits)
<1>1. PICK b \in Seq(Range(set.base)), d \in Seq(Range(set.delta)) : b = set.base /\ d = set.delta
  BY DEF IsSplitSet
<1> DEFINE T == Range(set.base) \union Range(set.delta)
<1>2. b \in Seq(T) /\ d \in Seq(T)
  <2>1. Range(set.base) \subseteq T /\ Range(set.delta) \subseteq T
    OBVIOUS
  <2> QED
    BY <2>1
<1> HIDE DEF T
<1>3. /\ b \o d \in Seq(T) /\ Len(b \o d) = Len(b) + Len(d)
      /\ \A i \in 1 .. Len(b) + Len(d) :
            (b \o d)[i] = IF i <= Len(b) THEN b[i] ELSE d[i - Len(b)]
  BY <1>2, ConcatProperties
<1>4. Splits = b \o d
  BY <1>1 DEF Splits
<1> DEFINE s == b \o d
<1>5. /\ DOMAIN s = 1 .. Len(b) + Len(d) /\ Len(b) \in Nat /\ Len(d) \in Nat
      /\ DOMAIN b = 1 .. Len(b) /\ DOMAIN d = 1 .. Len(d)
  BY <1>3
<1>6. \A i \in 1 .. Len(b) + Len(d) : s[i] = IF i <= Len(b) THEN b[i] ELSE d[i - Len(b)]
  BY <1>3
<1> HIDE DEF s
<1>7. \A i \in 1 .. Len(b) : s[i] = b[i]
  BY <1>5, <1>6
<1>8. \A i \in 1 .. Len(d) : s[Len(b) + i] = d[i]
  <2> SUFFICES ASSUME NEW i \in 1 .. Len(d) PROVE s[Len(b) + i] = d[i]
    OBVIOUS
  <2>1. /\ Len(b) + i \in 1 .. Len(b) + Len(d) /\ ~(Len(b) + i <= Len(b))
        /\ (Len(b) + i) - Len(b) = i
    BY <1>5
  <2> QED
    BY <1>6, <2>1
<1>9. \A i \in DOMAIN b : IsSplit(set, b[i])
  BY <1>1 DEF IsSplitSet
<1>10. \A i \in DOMAIN d : IsSplit(set, d[i])
  BY <1>1 DEF IsSplitSet
<1>11. \A i \in DOMAIN s : IsSplit(set, s[i])
  <2> SUFFICES ASSUME NEW i \in 1 .. Len(b) + Len(d) PROVE IsSplit(set, s[i])
    BY <1>5
  <2>1. CASE i <= Len(b)
    BY <1>5, <1>6, <1>9, <2>1
  <2>2. CASE ~(i <= Len(b))
    <3>1. i - Len(b) \in 1 .. Len(d) /\ s[i] = d[i - Len(b)]
      BY <1>5, <1>6, <2>2
    <3> QED
      BY <1>5, <1>10, <3>1
  <2> QED
    BY <2>1, <2>2
<1>12. IsFiniteSet(1 .. Len(b) + Len(d))
  BY <1>5, FS_Interval
<1> QED
  BY <1>1, <1>4, <1>5, <1>7, <1>8, <1>11, <1>12 DEF s

\* A split's share is at least the number of its matches, and just that number
\* for a query of a single key.
LEMMA ShareBounds ==
    ASSUME IsSplitSet(set), req \in Requests, req.keys # {}, req.filter = {}, NEW i \in DOMAIN Splits
    PROVE  /\ Shares[i] \in Nat
           /\ IsFiniteSet(Matches(Splits[i])) /\ Cardinality(Matches(Splits[i])) \in Nat
           /\ Cardinality(Matches(Splits[i])) <= Shares[i]
           /\ Cardinality(req.keys) = 1 => Shares[i] = Cardinality(Matches(Splits[i]))
<1>1. PICK s : s = Splits[i]
  OBVIOUS
<1>2. IsSplit(set, s)
  BY <1>1, SplitsAre
<1>3. s.ids \in SUBSET (DOMAIN set.docs) /\ IsFiniteSet(s.ids)
  <2>1. s.ids \in SUBSET (DOMAIN set.docs)
    BY <1>2 DEF IsSplit
  <2> QED
    BY <2>1, DocsAre
<1>4. IsFiniteSet(Matches(s)) /\ Cardinality(Matches(s)) \in Nat
  BY <1>3, FS_Subset, FS_CardinalityType DEF Matches
<1>5. CASE PrunedByBloom(s)
  <2>1. Matches(s) = {}
    BY <1>2, <1>5, PrunedHoldsNothing DEF Survives
  <2>2. Shares[i] = 0 /\ Cardinality(Matches(s)) = 0
    BY <1>1, <1>5, <2>1, FS_EmptySet DEF Shares
  <2> QED
    BY <1>1, <1>4, <2>2
<1>6. CASE ~PrunedByBloom(s)
  <2> DEFINE At(k) == {d \in s.ids : k \in set.docs[d].keys}
             S == {Cardinality(At(k)) : k \in req.keys}
  <2>1. \A k \in req.keys : /\ IsFiniteSet(At(k)) /\ Cardinality(At(k)) \in Nat
                            /\ Matches(s) \subseteq At(k)
    BY <1>3, FS_Subset, FS_CardinalityType DEF Matches, Satisfies
  <2>2. \A k \in req.keys : Cardinality(Matches(s)) <= Cardinality(At(k))
    BY <2>1, FS_Subset
  <2>3. Cardinality(req.keys) = 1 => \A k \in req.keys : Matches(s) = At(k)
    <3> SUFFICES ASSUME Cardinality(req.keys) = 1, NEW k \in req.keys PROVE Matches(s) = At(k)
      OBVIOUS
    <3>1. IsFiniteSet(req.keys)
      BY RequestsAssumption
    <3>2. PICK l : req.keys = {l}
      BY <3>1, FS_Singleton
    <3>3. req.keys = {k}
      BY <3>2
    <3> QED
      BY <3>3 DEF Matches, Satisfies
  <2>4. Shares[i] = Min(S)
    BY <1>1, <1>6 DEF Shares, SplitEstimate
  <2>5. S \in SUBSET Nat /\ S # {}
    BY <2>1
  <2> HIDE DEF S
  <2>6. Min(S) \in S
    BY <2>5, MinIsLeast
  <2>7. PICK k \in req.keys : Min(S) = Cardinality(At(k))
    BY <2>6 DEF S
  <2> QED
    BY <1>1, <1>4, <2>1, <2>2, <2>3, <2>4, <2>7
<1> QED
  BY <1>5, <1>6

\* The estimate is the sum of the shares.
LEMMA EstimateSums ==
    ASSUME IsSplitSet(set), req \in Requests, req.keys # {}, req.filter = {}
    PROVE  /\ Estimate.count = SumOver(Shares, DOMAIN Splits)
           /\ Estimate.exact <=> Cardinality(req.keys) = 1 /\ set.delta = << >> /\ Dead = {}
<1> DEFINE S == DOMAIN Splits
           Fold(F) == F = [s \in SUBSET S |-> IF s = {} THEN 0
                             ELSE F[s \ {CHOOSE x \in s : TRUE}] +
                                  IF PrunedByBloom(Splits[CHOOSE x \in s : TRUE]) THEN 0
                                  ELSE SplitEstimate(Splits[CHOOSE x \in s : TRUE])]
<1>1. IsFiniteSet(S) /\ \A i \in S : Shares[i] \in Nat
  BY SplitsAre, ShareBounds
<1>2. PICK g : Sums(g, S, Shares) /\ SumOver(Shares, S) = g[S]
  <2> HIDE DEF S
  <2> QED
    BY <1>1, SumOverSums
<1>3. \A i \in S : Shares[i] = IF PrunedByBloom(Splits[i]) THEN 0 ELSE SplitEstimate(Splits[i])
  BY DEF Shares
<1> HIDE DEF S
<1>4. \A s \in SUBSET S : s # {} => (CHOOSE x \in s : TRUE) \in s
  OBVIOUS
<1>5. Fold(g)
  <2>1. g = [s \in SUBSET S |-> g[s]]
    BY <1>2 DEF Sums
  <2>2. ASSUME NEW s \in SUBSET S
        PROVE  g[s] = IF s = {} THEN 0
                      ELSE g[s \ {CHOOSE x \in s : TRUE}] +
                           IF PrunedByBloom(Splits[CHOOSE x \in s : TRUE]) THEN 0
                           ELSE SplitEstimate(Splits[CHOOSE x \in s : TRUE])
    <3>1. CASE s = {}
      BY <1>2, <3>1 DEF Sums
    <3>2. CASE s # {}
      <4>1. PICK x \in s : x = CHOOSE y \in s : TRUE
        BY <1>4, <3>2
      <4>2. g[s] = Shares[x] + g[s \ {x}] /\ g[s \ {x}] \in Nat /\ Shares[x] \in Nat
        BY <1>1, <1>2 DEF Sums
      <4>3. g[s] = g[s \ {x}] + Shares[x]
        BY <4>2
      <4> QED
        BY <1>3, <3>2, <4>1, <4>3
    <3> QED
      BY <3>1, <3>2
  <2> QED
    BY <2>1, <2>2
<1>6. \E F : Fold(F)
  <2> HIDE DEF Fold
  <2> QED
    BY <1>5
<1> DEFINE G == CHOOSE F : Fold(F)
<1>7. Fold(G)
  BY <1>6
<1>8. /\ Estimate.count = G[S]
      /\ Estimate.exact <=> Cardinality(req.keys) = 1 /\ set.delta = << >> /\ Dead = {}
  <2>1. Estimate.count = G[S]
    BY DEF Estimate, FoldSeq, FoldFunction, FoldFunctionOnSet, MapThenFoldSet, S
  <2>2. Estimate.exact <=> Cardinality(req.keys) = 1 /\ set.delta = << >> /\ Dead = {}
    BY DEF Estimate
  <2> QED
    BY <2>1, <2>2
<1> HIDE DEF G
<1>9. G[S] = g[S]
  <2> DEFINE Good == {s \in SUBSET S : G[s] = g[s]}
  <2>1. {} \in Good
    BY <1>2, <1>7 DEF Sums
  <2>2. ASSUME NEW s \in SUBSET S, s # {} PROVE \E x \in s : s \ {x} \in Good => s \in Good
    <3>1. PICK x \in s : x = CHOOSE y \in s : TRUE
      BY <1>4, <2>2
    <3>2. g[s] = Shares[x] + g[s \ {x}] /\ g[s \ {x}] \in Nat /\ Shares[x] \in Nat
      BY <1>1, <1>2 DEF Sums
    <3>3. G[s] = G[s \ {x}] + Shares[x]
      BY <1>3, <1>7, <2>2, <3>1
    <3> HIDE DEF Fold
    <3>4. ASSUME G[s \ {x}] = g[s \ {x}] PROVE G[s] = g[s]
      BY <3>2, <3>3, <3>4
    <3> QED
      BY <3>4
  <2> HIDE DEF Good, Fold
  <2>3. SUBSET S \subseteq Good
    BY <1>1, <2>1, <2>2, SubsetInduction
  <2> QED
    BY <2>3 DEF Good
<1> QED
  BY <1>2, <1>8, <1>9 DEF S

\* The matches of the splits of I, all together.
Together(I) == UNION {Matches(Splits[i]) : i \in I}

\* The places of the base splits and of the deltas.
BasePlaces == 1 .. Len(set.base)
DeltaPlaces == Len(set.base) + 1 .. Len(set.base) + Len(set.delta)

\* Where the answer's documents are, and how many there are.
LEMMA AnswerCounts ==
    ASSUME IsSplitSet(set)
    PROVE  /\ DOMAIN Splits = BasePlaces \union DeltaPlaces /\ BasePlaces \intersect DeltaPlaces = {}
           /\ IsFiniteSet(BasePlaces) /\ IsFiniteSet(DeltaPlaces)
           /\ Answers(set.base) = Together(BasePlaces) \ Dead
           /\ Answers(set.delta) = Together(DeltaPlaces) \ Dead
           /\ IsFiniteSet(Together(BasePlaces)) /\ IsFiniteSet(Together(DeltaPlaces))
           /\ Len(Answer) = Cardinality(Answers(set.base)) + Cardinality(Answers(set.delta))
<1> DEFINE m == Len(set.base)
           n == Len(set.delta)
<1>1. /\ m \in Nat /\ n \in Nat
      /\ DOMAIN set.base = 1 .. m /\ DOMAIN set.delta = 1 .. n
      /\ DOMAIN Splits = 1 .. m + n
      /\ \A i \in 1 .. m : Splits[i] = set.base[i]
      /\ \A i \in 1 .. n : Splits[m + i] = set.delta[i]
      /\ \A i \in DOMAIN Splits : IsSplit(set, Splits[i])
  BY SplitsAre
<1> HIDE DEF m, n
<1>2. BasePlaces = 1 .. m /\ DeltaPlaces = m + 1 .. m + n
  BY DEF BasePlaces, DeltaPlaces, m, n
<1>3. DOMAIN Splits = BasePlaces \union DeltaPlaces /\ BasePlaces \intersect DeltaPlaces = {}
  BY <1>1, <1>2
<1>4. IsFiniteSet(BasePlaces) /\ IsFiniteSet(DeltaPlaces)
  <2>1. IsFiniteSet(1 .. m + n)
    BY <1>1, FS_Interval
  <2>2. BasePlaces \subseteq 1 .. m + n /\ DeltaPlaces \subseteq 1 .. m + n
    BY <1>1, <1>2
  <2> QED
    BY <2>1, <2>2, FS_Subset
<1>5. Held(set.base) = UNION {Splits[i].ids : i \in BasePlaces}
  BY <1>1, <1>2 DEF Held
<1>6. Held(set.delta) = UNION {Splits[i].ids : i \in DeltaPlaces}
  <2>1. \A j \in DeltaPlaces : j - m \in 1 .. n /\ m + (j - m) = j
    BY <1>1, <1>2
  <2>2. \A i \in 1 .. n : m + i \in DeltaPlaces
    BY <1>1, <1>2
  <2>3. \A j \in DeltaPlaces : Splits[j] = set.delta[j - m]
    BY <1>1, <2>1
  <2>4. ASSUME NEW d \in Held(set.delta) PROVE d \in UNION {Splits[i].ids : i \in DeltaPlaces}
    <3>1. PICK i \in 1 .. n : d \in set.delta[i].ids
      BY <1>1 DEF Held
    <3> QED
      BY <1>1, <2>2, <3>1
  <2>5. ASSUME NEW d \in UNION {Splits[i].ids : i \in DeltaPlaces} PROVE d \in Held(set.delta)
    <3>1. PICK j \in DeltaPlaces : d \in Splits[j].ids
      OBVIOUS
    <3> QED
      BY <1>1, <2>1, <2>3, <3>1 DEF Held
  <2> QED
    BY <2>4, <2>5
<1>7. Answers(set.base) = Together(BasePlaces) \ Dead
  BY <1>5 DEF Answers, Together, Matches
<1>8. Answers(set.delta) = Together(DeltaPlaces) \ Dead
  BY <1>6 DEF Answers, Together, Matches
<1>9. \A i \in DOMAIN Splits : Matches(Splits[i]) \in SUBSET (DOMAIN set.docs)
  BY <1>1 DEF IsSplit, Matches
<1>10. Together(BasePlaces) \in SUBSET (DOMAIN set.docs) /\ Together(DeltaPlaces) \in SUBSET (DOMAIN set.docs)
  BY <1>3, <1>9 DEF Together
<1>11. IsFiniteSet(Together(BasePlaces)) /\ IsFiniteSet(Together(DeltaPlaces))
  BY <1>10, DocsAre
<1>12. Len(Answer) = Cardinality(Answers(set.base)) + Cardinality(Answers(set.delta))
  <2>1. IsFiniteSet(Answers(set.base)) /\ IsFiniteSet(Answers(set.delta))
    BY <1>7, <1>8, <1>11, FS_Subset
  <2>2. PICK T, a : /\ a = Ranked(Answers(set.base), BaseOrder) /\ a \in Seq(T)
                    /\ Len(a) = Cardinality(Answers(set.base))
    BY <2>1, RankedLength
  <2>3. PICK U, d : /\ d = Ranked(Answers(set.delta), ById) /\ d \in Seq(U)
                    /\ Len(d) = Cardinality(Answers(set.delta))
    BY <2>1, RankedLength
  <2>4. a \in Seq(T \union U) /\ d \in Seq(T \union U)
    <3>1. T \subseteq T \union U /\ U \subseteq T \union U
      OBVIOUS
    <3> QED
      BY <2>2, <2>3, <3>1
  <2>5. Len(a \o d) = Len(a) + Len(d)
    BY <2>4, ConcatProperties
  <2>6. Answer = a \o d
    BY <2>2, <2>3 DEF Answer
  <2> QED
    BY <2>2, <2>3, <2>5, <2>6
<1> QED
  BY <1>3, <1>4, <1>7, <1>8, <1>11, <1>12

\* The splits of I hold at most as many matches as their shares sum to, and
\* just as many if each share counts its matches and no two splits share one.
LEMMA SharesCover ==
    ASSUME IsSplitSet(set), req \in Requests, req.keys # {}, req.filter = {},
           NEW I \in SUBSET (DOMAIN Splits), IsFiniteSet(I)
    PROVE  /\ SumOver(Shares, I) \in Nat
           /\ Cardinality(Together(I)) <= SumOver(Shares, I)
           /\ /\ Cardinality(req.keys) = 1
              /\ \A i, j \in I : i # j => Matches(Splits[i]) \intersect Matches(Splits[j]) = {}
              => Cardinality(Together(I)) = SumOver(Shares, I)
<1> DEFINE M == [i \in I |-> Matches(Splits[i])]
           c == [i \in I |-> Cardinality(Matches(Splits[i]))]
<1>1. \A i \in I : /\ Shares[i] \in Nat /\ IsFiniteSet(M[i]) /\ c[i] \in Nat /\ c[i] = Cardinality(M[i])
                   /\ c[i] <= Shares[i]
                   /\ Cardinality(req.keys) = 1 => Shares[i] <= c[i]
  <2> SUFFICES ASSUME NEW i \in I
               PROVE  /\ Shares[i] \in Nat /\ IsFiniteSet(M[i]) /\ c[i] \in Nat /\ c[i] = Cardinality(M[i])
                      /\ c[i] <= Shares[i]
                      /\ Cardinality(req.keys) = 1 => Shares[i] <= c[i]
    OBVIOUS
  <2>1. M[i] = Matches(Splits[i]) /\ c[i] = Cardinality(M[i]) /\ i \in DOMAIN Splits
    OBVIOUS
  <2>2. /\ Shares[i] \in Nat
        /\ IsFiniteSet(Matches(Splits[i])) /\ Cardinality(Matches(Splits[i])) \in Nat
        /\ Cardinality(Matches(Splits[i])) <= Shares[i]
        /\ Cardinality(req.keys) = 1 => Shares[i] = Cardinality(Matches(Splits[i]))
    BY <2>1, ShareBounds
  <2> HIDE DEF M, c
  <2> QED
    BY <2>1, <2>2
<1>2. UNION {M[i] : i \in I} = Together(I)
  BY DEF Together
<1>3. (\A i, j \in I : i # j => Matches(Splits[i]) \intersect Matches(Splits[j]) = {}) =>
          \A i, j \in I : i # j => M[i] \intersect M[j] = {}
  OBVIOUS
<1> HIDE DEF M, c
<1>4. /\ Cardinality(UNION {M[i] : i \in I}) <= SumOver(c, I)
      /\ (\A i, j \in I : i # j => M[i] \intersect M[j] = {}) =>
            Cardinality(UNION {M[i] : i \in I}) = SumOver(c, I)
  BY <1>1, SumOverCover
<1>5. IsFiniteSet(Together(I))
  <2>1. \A i \in I : Matches(Splits[i]) \in SUBSET (DOMAIN set.docs)
    BY SplitsAre DEF IsSplit, Matches
  <2>2. Together(I) \in SUBSET (DOMAIN set.docs)
    BY <2>1 DEF Together
  <2> QED
    BY <2>2, DocsAre
<1>6. SumOver(c, I) <= SumOver(Shares, I)
  BY <1>1, SumOverMono
<1>7. Cardinality(req.keys) = 1 => SumOver(Shares, I) <= SumOver(c, I)
  BY <1>1, SumOverMono
<1>8. SumOver(c, I) \in Nat
  BY <1>1, SumOverStep
<1>9. SumOver(Shares, I) \in Nat
  BY <1>1, SumOverStep
<1>10. Cardinality(Together(I)) \in Nat
  BY <1>5, FS_CardinalityType
<1> QED
  BY <1>2, <1>3, <1>4, <1>6, <1>7, <1>8, <1>9, <1>10

\* The estimate bounds the exact count, and is it where it says so, for every
\* open set and query.
LEMMA EstimateIsBound ==
    ASSUME IsSplitSet(set), req \in Requests, req.filter = {}
    PROVE  /\ Estimate.count >= Len(Answer)
           /\ Estimate.exact => Estimate.count = Len(Answer)
<1> DEFINE B == Answers(set.base)
           D == Answers(set.delta)
<1>1. /\ DOMAIN Splits = BasePlaces \union DeltaPlaces /\ BasePlaces \intersect DeltaPlaces = {}
      /\ IsFiniteSet(BasePlaces) /\ IsFiniteSet(DeltaPlaces)
      /\ B = Together(BasePlaces) \ Dead /\ D = Together(DeltaPlaces) \ Dead
      /\ IsFiniteSet(Together(BasePlaces)) /\ IsFiniteSet(Together(DeltaPlaces))
      /\ Len(Answer) = Cardinality(B) + Cardinality(D)
  BY AnswerCounts
<1>2. CASE req.keys = {}
  <2>1. B = {} /\ D = {}
    BY <1>2 DEF Answers, Satisfies
  <2>2. Len(Answer) = 0
    <3>1. Cardinality(B) = 0 /\ Cardinality(D) = 0
      BY <2>1, FS_EmptySet
    <3> HIDE DEF B, D
    <3> QED
      BY <1>1, <3>1
  <2>3. Estimate.count = 0
    BY <1>2 DEF Estimate
  <2> QED
    BY <2>2, <2>3
<1>3. CASE req.keys # {}
  <2> HIDE DEF B, D
  <2>1. /\ Estimate.count = SumOver(Shares, DOMAIN Splits)
        /\ Estimate.exact <=> Cardinality(req.keys) = 1 /\ set.delta = << >> /\ Dead = {}
    BY <1>3, EstimateSums
  <2>2. \A i \in BasePlaces \union DeltaPlaces : Shares[i] \in Nat
    BY <1>1, <1>3, ShareBounds
  <2>3. SumOver(Shares, BasePlaces \union DeltaPlaces) =
          SumOver(Shares, BasePlaces) + SumOver(Shares, DeltaPlaces)
    BY <1>1, <2>2, SumOverUnion
  <2>4. BasePlaces \in SUBSET (DOMAIN Splits) /\ DeltaPlaces \in SUBSET (DOMAIN Splits)
    BY <1>1
  <2>5. /\ SumOver(Shares, BasePlaces) \in Nat
        /\ Cardinality(Together(BasePlaces)) <= SumOver(Shares, BasePlaces)
    BY <1>1, <1>3, <2>4, SharesCover
  <2>6. /\ SumOver(Shares, DeltaPlaces) \in Nat
        /\ Cardinality(Together(DeltaPlaces)) <= SumOver(Shares, DeltaPlaces)
    BY <1>1, <1>3, <2>4, SharesCover
  <2>7. /\ Cardinality(B) \in Nat /\ Cardinality(B) <= Cardinality(Together(BasePlaces))
        /\ Cardinality(Together(BasePlaces)) \in Nat
    BY <1>1, FS_Subset, FS_CardinalityType
  <2>8. /\ Cardinality(D) \in Nat /\ Cardinality(D) <= Cardinality(Together(DeltaPlaces))
        /\ Cardinality(Together(DeltaPlaces)) \in Nat
    BY <1>1, FS_Subset, FS_CardinalityType
  <2>9. Estimate.count >= Len(Answer)
    BY <1>1, <2>1, <2>3, <2>5, <2>6, <2>7, <2>8
  <2>10. ASSUME Estimate.exact PROVE Estimate.count = Len(Answer)
    <3>1. Cardinality(req.keys) = 1 /\ set.delta = << >> /\ Dead = {}
      BY <2>1, <2>10
    <3>2. DeltaPlaces = {}
      BY <3>1, SplitsAre DEF DeltaPlaces
    <3>3. D = {} /\ SumOver(Shares, DeltaPlaces) = 0
      <4>1. D = {}
        BY <1>1, <3>2 DEF Together
      <4>2. SumOver(Shares, {}) = 0
        BY <1>1, <2>2, SumOverStep
      <4> QED
        BY <3>2, <4>1, <4>2
    <3>4. B = Together(BasePlaces)
      BY <1>1, <3>1
    <3>5. \A i, j \in BasePlaces : i # j => Matches(Splits[i]) \intersect Matches(Splits[j]) = {}
      <4> SUFFICES ASSUME NEW i \in BasePlaces, NEW j \in BasePlaces, i # j,
                          NEW d \in Matches(Splits[i]) \intersect Matches(Splits[j])
                   PROVE  FALSE
        OBVIOUS
      <4>1. /\ i \in DOMAIN set.base /\ j \in DOMAIN set.base
            /\ Splits[i] = set.base[i] /\ Splits[j] = set.base[j]
        BY SplitsAre DEF BasePlaces
      <4>2. i < j \/ j < i
        BY SplitsAre DEF BasePlaces
      <4>3. d \in set.base[i].ids /\ d \in set.base[j].ids
        BY <4>1 DEF Matches
      <4>4. d < d
        BY <4>1, <4>2, <4>3 DEF IsSplitSet
      <4>5. d \in Nat
        BY <4>1, <4>3 DEF IsSplitSet, IsSplit
      <4> QED
        BY <4>4, <4>5
    <3>6. Cardinality(Together(BasePlaces)) = SumOver(Shares, BasePlaces)
      BY <1>1, <1>3, <2>4, <3>1, <3>5, SharesCover
    <3>7. Cardinality(D) = 0
      BY <3>3, FS_EmptySet
    <3>8. Estimate.count = SumOver(Shares, BasePlaces)
      BY <1>1, <2>1, <2>3, <2>5, <3>3
    <3>9. Len(Answer) = Cardinality(Together(BasePlaces))
      <4>1. Len(Answer) = Cardinality(B) + 0
        BY <1>1, <3>7
      <4> QED
        BY <2>7, <3>4, <4>1
    <3> QED
      BY <3>6, <3>8, <3>9
  <2> QED
    BY <2>9, <2>10
<1> QED
  BY <1>2, <1>3

\* The header-only count is never below the exact one, and equal to it whenever
\* it says that it is exact (SplitSet::count_estimate).
THEOREM EstimateBoundsAlways == Spec => []EstimateBounds
<1>1. IInv => EstimateBounds
  <2> SUFFICES ASSUME IInv, req.filter = {}
               PROVE  /\ Estimate.count >= Len(Answer)
                      /\ Estimate.exact => Estimate.count = Len(Answer)
    BY DEF EstimateBounds
  <2>1. IsSplitSet(set) /\ req \in Requests
    BY DEF IInv
  <2> QED
    BY <2>1, EstimateIsBound
<1> QED
  BY <1>1, DescentInvariance, PTL

------------------------------------------------------------------------------
(* The bandwidth of the descent.                                             *)

\* What the descent has opened lies among the splits it asked, and as long as it
\* goes on these do not fill the page.
Bounded ==
    /\ pc \in {"probe", "wave"} =>
          /\ next \in 1 .. Len(set.base) /\ opened \subseteq 1 .. next
          /\ Len(out) < req.limit
    /\ pc = "gather" => set.delta # << >> \/ set.policy = "stable"
    /\ OverOpenBounded

\* The first n splits fill a page when there are as many answers in them.
LEMMA FillsIs ==
    ASSUME IsSplitSet(set), NEW n \in 0 .. Len(set.base)
    PROVE  /\ Fills(n) <=> Cardinality(Found(n)) >= req.limit
           /\ IsFiniteSet(Found(n)) /\ Cardinality(Found(n)) \in Nat
           /\ Ranked(Found(n), ById) \in Seq(Nat)
           /\ Len(Ranked(Found(n), ById)) = Cardinality(Found(n))
<1>1. PICK b \in Seq(Range(set.base)) : b = set.base
  BY DEF IsSplitSet
<1>2. Len(b) \in Nat /\ DOMAIN b = 1 .. Len(b) /\ \A i \in 1 .. n : i \in DOMAIN b
  BY <1>1
<1>3. /\ Len(SubSeq(b, 1, n)) = n /\ SubSeq(b, 1, n) \in Seq(Range(set.base))
      /\ \A i \in 1 .. n : SubSeq(b, 1, n)[i] = b[i]
  BY <1>1, <1>2
<1>4. DOMAIN SubSeq(b, 1, n) = 1 .. n
  BY <1>3
<1>5. Held(SubSeq(set.base, 1, n)) = UNION {b[i].ids : i \in 1 .. n}
  BY <1>1, <1>3, <1>4 DEF Held
<1>6. {d \in Held(SubSeq(set.base, 1, n)) : Satisfies(d)} = Found(n)
  BY <1>1, <1>5 DEF Found, Matches
<1>7. \A i \in 1 .. n : IsSplit(set, b[i])
  BY <1>1, <1>2 DEF IsSplitSet
<1>8. Found(n) \in SUBSET (DOMAIN set.docs)
  BY <1>1, <1>7 DEF Found, Matches, IsSplit
<1>9. /\ IsFiniteSet(Found(n)) /\ Ranked(Found(n), ById) \in Seq(Nat)
      /\ Len(Ranked(Found(n), ById)) = Cardinality(Found(n))
  BY <1>8, DocsAre
<1>10. Cardinality(Found(n)) \in Nat
  BY <1>9, FS_CardinalityType
<1> QED
  BY <1>6, <1>9, <1>10 DEF Fills

\* While the page is short, the splits that fill it are still to come.
LEMMA FillsLater ==
    ASSUME IInv, Bounded, pc \in {"probe", "wave"}, NEW n \in DOMAIN set.base, Fills(n)
    PROVE  next < n
<1>1. /\ IsSplitSet(set) /\ req \in Requests
      /\ next \in 1 .. Len(set.base) /\ out = FirstOf(Ranked(Found(next), ById), req.limit)
      /\ Len(out) < req.limit
  BY DEF IInv, Bounded
<1>2. Len(set.base) \in Nat /\ DOMAIN set.base = 1 .. Len(set.base)
  BY <1>1, SplitsAre
<1>3. req.limit \in Nat
  BY <1>1, RequestsAssumption
<1>4. PICK m \in 0 .. Len(set.base) : m = next
  BY <1>1, <1>2
<1>5. PICK r \in Seq(Nat) : r = Ranked(Found(m), ById) /\ Len(r) = Cardinality(Found(m))
  BY <1>1, FillsIs
<1>6. Len(FirstOf(r, req.limit)) = IF req.limit <= Len(r) THEN req.limit ELSE Len(r)
  BY <1>3, FirstOfIs
<1>7. Cardinality(Found(m)) < req.limit /\ Cardinality(Found(m)) \in Nat /\ IsFiniteSet(Found(m))
  <2>1. Cardinality(Found(m)) \in Nat /\ IsFiniteSet(Found(m))
    BY <1>1, FillsIs
  <2> QED
    BY <1>1, <1>3, <1>4, <1>5, <1>6, <2>1
<1>8. ASSUME n <= next PROVE FALSE
  <2>1. Found(n) \subseteq Found(m)
    <3>1. \A i \in 1 .. n : i \in 1 .. m
      BY <1>1, <1>2, <1>4, <1>8
    <3> QED
      BY <3>1 DEF Found
  <2>2. Cardinality(Found(n)) <= Cardinality(Found(m))
    BY <1>7, <2>1, FS_Subset
  <2>3. n \in 0 .. Len(set.base)
    BY <1>2
  <2>4. Cardinality(Found(n)) >= req.limit /\ Cardinality(Found(n)) \in Nat
    BY <1>1, <2>3, FillsIs
  <2> QED
    BY <1>3, <1>7, <2>2, <2>4
<1> QED
  BY <1>1, <1>2, <1>8

\* One step keeps the bound.
LEMMA BoundedStep ==
    ASSUME IInv, Bounded, [Next]_vars
    PROVE  Bounded'
<1>1. IsSplitSet(set) /\ req \in Requests /\ pc \in Steps
  BY DEF IInv
<1>2. Len(set.base) \in Nat /\ DOMAIN set.base = 1 .. Len(set.base)
  BY <1>1, SplitsAre
<1>3. DescentWave \in Nat /\ DescentWave >= 1
  BY WaveAssumption
<1>4. ASSUME NEW r \in Requests, Ask(r) PROVE Bounded'
  <2>1. /\ set' = set /\ opened' = {} /\ pc' \notin {"probe", "wave"}
        /\ pc' = "gather" => set.delta # << >> \/ set.policy = "stable"
    BY <1>4 DEF Ask
  <2>2. OverOpenBounded'
    BY <2>1 DEF OverOpenBounded
  <2> QED
    BY <2>1, <2>2 DEF Bounded
<1>5. ASSUME NEW asked, FailRead(asked) PROVE Bounded'
  <2>1. pc' \in {"absent", "failed"}
    BY <1>5 DEF FailRead
  <2> QED
    BY <2>1 DEF Bounded, OverOpenBounded
<1>6. ASSUME Top PROVE Bounded'
  <2>1. /\ set' = set /\ req' = req /\ next' = 1 /\ opened' \subseteq {1}
        /\ pc' \in {"done", "probe", "wave"} /\ (pc' # "done" => ~(Len(out') >= req.limit))
    BY <1>6 DEF Top
  <2>2. set.base # << >>
    BY <1>6 DEF IInv, Top
  <2>3. 1 \in 1 .. Len(set.base)
    <3>1. set.base \in Seq(Range(set.base))
      BY <1>1 DEF IsSplitSet
    <3> QED
      BY <1>2, <2>2, <3>1, EmptySeq
  <2>4. \A n \in DOMAIN set.base : opened' \subseteq 1 .. IF n = 1 THEN 1 ELSE n + DescentWave - 1
    <3> SUFFICES ASSUME NEW n \in 1 .. Len(set.base)
                 PROVE  1 \in 1 .. IF n = 1 THEN 1 ELSE n + DescentWave - 1
      BY <1>2, <2>1
    <3> QED
      BY <1>2, <1>3
  <2>5. OverOpenBounded'
    BY <2>1, <2>4 DEF OverOpenBounded
  <2>6. pc' # "done" => Len(out') < req.limit
    <3>1. PICK s : s = set.base[1]
      OBVIOUS
    <3>2. IsSplit(set, s)
      BY <1>1, <1>2, <2>3, <3>1 DEF IsSplitSet
    <3>3. req.limit \in Nat
      BY <1>1, RequestsAssumption
    <3>4. out' = Hits(s, req.limit)
      BY <1>6, <3>1 DEF Top
    <3>5. out' \in Seq(Nat)
      BY <1>1, <3>2, <3>3, <3>4, HitsAre
    <3>6. Len(out') \in Nat
      BY <3>5
    <3> QED
      BY <2>1, <3>3, <3>6
  <2> QED
    BY <2>1, <2>3, <2>5, <2>6 DEF Bounded
<1>7. ASSUME Probe PROVE Bounded'
  <2>1. /\ set' = set /\ req' = req /\ out' = out /\ next' = next /\ opened' = opened
        /\ pc = "probe" /\ pc' \in {"done", "wave"}
    BY <1>7 DEF Probe
  <2>2. /\ next \in 1 .. Len(set.base) /\ opened \subseteq 1 .. next
        /\ Len(out) < req.limit
    BY <2>1 DEF Bounded
  <2>3. ASSUME NEW n \in DOMAIN set.base, Fills(n)
        PROVE  opened \subseteq 1 .. IF n = 1 THEN 1 ELSE n + DescentWave - 1
    <3>1. next < n
      BY <2>1, <2>3, FillsLater
    <3> QED
      BY <1>2, <1>3, <2>2, <3>1
  <2>4. \A n : Fills(n)' <=> Fills(n)
    BY <2>1 DEF Fills, Held, Satisfies
  <2>5. OverOpenBounded'
    BY <2>1, <2>3, <2>4 DEF OverOpenBounded
  <2> QED
    BY <2>1, <2>2, <2>5 DEF Bounded
<1>8. ASSUME Descend PROVE Bounded'
  <2>1. /\ set' = set /\ req' = req /\ next' = WaveEnd /\ pc = "wave" /\ pc' \in {"done", "wave"}
        /\ opened' = opened \union {i \in next + 1 .. WaveEnd : Opens(set.base[i])}
        /\ pc' = "wave" => ~(Len(out') >= req.limit)
    BY <1>8 DEF Descend
  <2>2. /\ next \in 1 .. Len(set.base) /\ opened \subseteq 1 .. next
    BY <2>1 DEF Bounded
  <2>3. WaveEnd \in next .. Len(set.base)
    <3>1. next \in 0 .. Len(set.base)
      BY <1>2, <2>2
    <3> QED
      BY <1>2, <3>1, WaveEnds
  <2>4. WaveEnd <= next + DescentWave
    <3> DEFINE S == {next + DescentWave, Len(set.base)}
    <3>1. S \in SUBSET Nat /\ S # {}
      BY <1>2, <1>3, <2>2
    <3>2. \A x \in S : Min(S) <= x
      BY <3>1, MinIsLeast
    <3> QED
      BY <3>2 DEF WaveEnd
  <2>5. opened' \subseteq 1 .. WaveEnd
    <3>1. 1 .. next \subseteq 1 .. WaveEnd
      BY <1>2, <2>2, <2>3
    <3>2. next + 1 .. WaveEnd \subseteq 1 .. WaveEnd
      BY <1>2, <2>2, <2>3
    <3>3. {i \in next + 1 .. WaveEnd : Opens(set.base[i])} \subseteq 1 .. WaveEnd
      BY <3>2
    <3> QED
      BY <2>1, <2>2, <3>1, <3>3
  <2>6. ASSUME NEW n \in DOMAIN set.base, Fills(n)
        PROVE  opened' \subseteq 1 .. IF n = 1 THEN 1 ELSE n + DescentWave - 1
    <3>1. next < n
      BY <2>1, <2>6, FillsLater
    <3>2. n # 1 /\ WaveEnd <= n + DescentWave - 1
      BY <1>2, <1>3, <2>2, <2>3, <2>4, <3>1
    <3> QED
      BY <1>2, <1>3, <2>3, <2>5, <3>2
  <2>7. \A n : Fills(n)' <=> Fills(n)
    BY <2>1 DEF Fills, Held, Satisfies
  <2>8. OverOpenBounded'
    BY <2>1, <2>6, <2>7 DEF OverOpenBounded
  <2>9. pc' = "wave" => Len(out') < req.limit
    <3>1. IInv'
      BY <1>8, DescendKeeps
    <3>2. ASSUME pc' = "wave" PROVE Len(out') \in Nat
      <4>1. next' \in 0 .. Len(set.base) /\ out' = FirstOf(Ranked(Found(next'), ById), req.limit)
        <5>1. out' = FirstOf(Ranked(Found(next), ById), req.limit)'
          BY <3>1, <3>2 DEF IInv
        <5>2. Found(next)' = Found(next') /\ ById' = ById
          BY <2>1 DEF Found, Matches, Satisfies, ById
        <5> QED
          BY <1>2, <2>1, <2>2, <2>3, <5>1, <5>2
      <4>2. PICK n \in 0 .. Len(set.base) : n = next'
        BY <4>1
      <4>3. PICK r \in Seq(Nat) : r = Ranked(Found(n), ById)
        BY <1>1, FillsIs
      <4>4. req.limit \in Nat
        BY <1>1, RequestsAssumption
      <4>5. FirstOf(r, req.limit) \in Seq(Nat)
        BY <4>4, FirstOfIs
      <4>6. out' = FirstOf(r, req.limit)
        BY <4>1, <4>2, <4>3
      <4> QED
        BY <4>5, <4>6
    <3>3. req.limit \in Nat
      BY <1>1, RequestsAssumption
    <3> QED
      BY <2>1, <3>2, <3>3
  <2>10. next' \in 1 .. Len(set'.base)
    BY <1>2, <2>1, <2>2, <2>3
  <2>11. req' = req /\ next' = WaveEnd /\ pc' \in {"done", "wave"}
    BY <2>1
  <2>12. pc' \in {"probe", "wave"} =>
            /\ next' \in 1 .. Len(set'.base) /\ opened' \subseteq 1 .. next'
            /\ Len(out') < req'.limit
    BY ONLY <2>5, <2>9, <2>10, <2>11
  <2>13. pc' # "gather"
    BY ONLY <2>11
  <2>14. (pc \in {"probe", "wave"} =>
            /\ next \in 1 .. Len(set.base) /\ opened \subseteq 1 .. next
            /\ Len(out) < req.limit)'
    BY ONLY <2>12
  <2>15. (pc = "gather" => set.delta # << >> \/ set.policy = "stable")'
    BY ONLY <2>13
  <2> QED
    BY ONLY <2>8, <2>14, <2>15 DEF Bounded
<1>9. ASSUME Gather PROVE Bounded'
  <2>1. pc' = "done" /\ set' = set /\ pc = "gather"
    BY <1>9 DEF Gather
  <2>2. set.delta # << >> \/ set.policy = "stable"
    BY <2>1 DEF Bounded
  <2> QED
    BY <2>1, <2>2 DEF Bounded, OverOpenBounded
<1>10. ASSUME UNCHANGED vars PROVE Bounded'
  <2>1. /\ set' = set /\ req' = req /\ pc' = pc
        /\ out' = out /\ next' = next /\ opened' = opened
    BY <1>10 DEF vars
  <2>2. \A n : Fills(n)' <=> Fills(n)
    BY <2>1 DEF Fills, Held, Satisfies
  <2>3. OverOpenBounded
    BY DEF Bounded
  <2>4. OverOpenBounded'
    BY <2>1, <2>2, <2>3 DEF OverOpenBounded
  <2>5. (pc \in {"probe", "wave"} =>
            /\ next \in 1 .. Len(set.base) /\ opened \subseteq 1 .. next
            /\ Len(out) < req.limit)'
    BY <2>1 DEF Bounded
  <2>6. (pc = "gather" => set.delta # << >> \/ set.policy = "stable")'
    BY <2>1 DEF Bounded
  <2> QED
    BY ONLY <2>4, <2>5, <2>6 DEF Bounded
<1> QED
  BY <1>4, <1>5, <1>6, <1>7, <1>8, <1>9, <1>10 DEF Next, TopFails, DescendFails, GatherFails

\* A descent opens the top split alone if that fills the page, and otherwise at
\* most DescentWave - 1 splits more than it takes to fill it.
THEOREM OverOpenBoundedAlways == Spec => []OverOpenBounded
<1>1. Init => Bounded
  BY DEF Init, Bounded, OverOpenBounded
<1>2. IInv /\ Bounded /\ [Next]_vars => Bounded'
  BY BoundedStep
<1>3. Bounded => OverOpenBounded
  BY DEF Bounded
<1> QED
  BY <1>1, <1>2, <1>3, DescentInvariance, PTL DEF Spec
=============================================================================
