----------------------------- MODULE VmemQueues -----------------------------
(***************************************************************************)
(* Facts about the operators of Vmem, for any queue of segments and any    *)
(* free lists: what stays true of a queue when some of its segments are    *)
(* replaced by others that fill their place, and of the lists when a       *)
(* segment is pushed or unlinked.                                          *)
(***************************************************************************)
EXTENDS Vmem, TLAPS

\* Steps are by Zenon, but those that cite the SMT solver.
USE ZenonT(60)

-----------------------------------------------------------------------------
(* Sequences.                                                              *)

\* A sequence is a function on the numbers up to its length.
LEMMA SeqLength ==
  ASSUME NEW S, NEW s \in Seq(S)
  PROVE  Len(s) \in Nat /\ s \in [1..Len(s) -> S] /\ DOMAIN s = 1..Len(s)
BY SMTT(60)

\* Its elements are in the set.
LEMMA SeqElement ==
  ASSUME NEW S, NEW s \in Seq(S), NEW i \in 1..Len(s)
  PROVE  s[i] \in S
BY SMTT(60)

\* Such a function is a sequence.
LEMMA SeqFunction ==
  ASSUME NEW S, NEW n \in Nat, NEW f \in [1..n -> S]
  PROVE  f \in Seq(S) /\ Len(f) = n
BY SMTT(60)

\* Sequences with the same elements are the same.
LEMMA SeqSame ==
  ASSUME NEW S, NEW s \in Seq(S), NEW t \in Seq(S), Len(s) = Len(t),
         \A i \in 1..Len(s) : s[i] = t[i]
  PROVE  s = t
BY SMTT(60)

\* An empty sequence adds nothing.
LEMMA ConcatEmpty ==
  ASSUME NEW S, NEW s \in Seq(S)
  PROVE  s \o <<>> = s /\ <<>> \o s = s
BY SMTT(60)

\* What is where in a part of a sequence.
LEMMA SubSeqAt ==
  ASSUME NEW S, NEW s \in Seq(S), NEW a \in 1..(Len(s) + 1), NEW b \in (a - 1)..Len(s)
  PROVE  /\ SubSeq(s, a, b) \in Seq(S)
         /\ Len(SubSeq(s, a, b)) = b - a + 1
         /\ \A i \in 1..(b - a + 1) : SubSeq(s, a, b)[i] = s[a + i - 1]
BY SMTT(60)

-----------------------------------------------------------------------------
(* Queues of segments.                                                     *)

Segs == [type : {"span", "free", "allocated"}, base : Addresses, size : 1..SpanSize]

IsSpan(s) == s.type = "span"
Apart(s, t) == End(s) <= t.base \/ End(t) <= s.base
Inside(s, t) == t.base <= s.base /\ End(s) <= End(t)

\* SpanOf and LastOfSpan, for a queue q.
SpanIn(q, p, i) == IsSpan(q[p]) /\ \A j \in (p + 1)..i : ~IsSpan(q[j])
LastIn(q, i) == i = Len(q) \/ IsSpan(q[i + 1])

\* The segment at i lies in its span and ends where the next one starts.
Placed(q, i) ==
  \E p \in 1..(i - 1) :
    /\ SpanIn(q, p, i) /\ Inside(q[i], q[p])
    /\ End(q[i]) = IF LastIn(q, i) THEN End(q[p]) ELSE q[i + 1].base

Opened(q, i) == i < Len(q) /\ ~IsSpan(q[i + 1]) /\ q[i + 1].base = q[i].base

Tiled(q) == \A i \in 1..Len(q) : IF IsSpan(q[i]) THEN Opened(q, i) ELSE Placed(q, i)

Coalesced(q) == \A i \in 1..(Len(q) - 1) : ~(q[i].type = "free" /\ q[i + 1].type = "free")

Disjoint(q) ==
  \A i, j \in 1..Len(q) : i # j /\ (IsSpan(q[i]) <=> IsSpan(q[j])) => Apart(q[i], q[j])

-----------------------------------------------------------------------------
(* Replacing segments of a queue.                                          *)

\* What is where in a concatenation.
LEMMA ConcatAt ==
  ASSUME NEW S, NEW s \in Seq(S), NEW t \in Seq(S)
  PROVE  /\ s \o t \in Seq(S) /\ Len(s \o t) = Len(s) + Len(t)
         /\ \A j \in 1..Len(s) : (s \o t)[j] = s[j]
         /\ \A j \in 1..Len(t) : (s \o t)[Len(s) + j] = t[j]
<1>1. Len(s) \in Nat /\ Len(t) \in Nat
  BY SeqLength
<1>2. s \o t \in Seq(S) /\ Len(s \o t) = Len(s) + Len(t)
  BY SMTT(60)
<1>3. \A j \in 1..(Len(s) + Len(t)) : (s \o t)[j] = IF j <= Len(s) THEN s[j] ELSE t[j - Len(s)]
  BY SMTT(60)
<1>4. \A j \in 1..Len(s) : (s \o t)[j] = s[j]
  BY <1>1, <1>3, SMTT(60)
<1>5. ASSUME NEW j \in 1..Len(t)
      PROVE  (s \o t)[Len(s) + j] = t[j]
  <2>1. Len(s) + j \in 1..(Len(s) + Len(t)) /\ ~(Len(s) + j <= Len(s)) /\ (Len(s) + j) - Len(s) = j
    BY <1>1, SMTT(60)
  <2> QED
    BY <1>3, <2>1
<1> QED
  BY <1>2, <1>4, <1>5

\* A segment lies in one span of the queue.
LEMMA OneSpan ==
  ASSUME NEW q, NEW p \in Nat, NEW o \in Nat, NEW i \in Nat, NEW j \in Nat, p < i, o < j,
         SpanIn(q, p, i), SpanIn(q, o, j), i <= j, p < o => o <= i, o < p => p <= j
  PROVE  p = o
<1>1. CASE p < o
  BY <1>1, SMTT(60) DEF SpanIn
<1>2. CASE o < p
  BY <1>2, SMTT(60) DEF SpanIn
<1> QED
  BY <1>1, <1>2, SMTT(60)

\* The bounds of a segment are numbers and it is not empty.
LEMMA SegTypes ==
  ASSUME NEW s \in Segs
  PROVE  s.base \in Nat /\ s.size \in Nat \ {0} /\ End(s) \in Nat /\ s.base < End(s)
BY ArenaAssumption, SMTT(60) DEF Segs, Addresses, End

\* r, of length l, is q, of length n, with other segments up to c - 1 in the
\* place of those from a to b; the ones behind them move by d.
Kept(q, r, n, l, a, b, c, d) ==
  /\ n \in Nat /\ l \in Nat /\ n = Len(q) /\ l = Len(r)
  /\ a \in Nat \ {0} /\ b \in Nat /\ c \in Nat /\ d \in Int
  /\ a <= b /\ b <= n /\ a <= c /\ d = b + 1 - c /\ l = n - d
  /\ \A i \in 1..(a - 1) : r[i] = q[i]
  /\ \A i \in c..Len(r) : r[i] = q[i + d]

\* The segments of r from a to c - 1 fill the place of those of q from a to b.
Filled(q, r, a, b, c) ==
  /\ \A i \in 1..Len(q) : q[i] \in Segs
  /\ \A i \in 1..Len(r) : r[i] \in Segs
  /\ \A i \in a..b : ~IsSpan(q[i])
  /\ \A i \in a..(c - 1) : /\ ~IsSpan(r[i])
                           /\ q[a].base <= r[i].base /\ End(r[i]) <= End(q[b])
  /\ r[a].base = q[a].base /\ End(r[c - 1]) = End(q[b])
  /\ \A i \in a..(c - 2) : End(r[i]) = r[i + 1].base

\* Segments that fill the place of the ones they replace leave the queue tiled:
\* what vmem_xalloc splits and what vmem_xfree merges.
LEMMA TiledFilled ==
  ASSUME NEW q, NEW r, NEW n, NEW l, NEW a, NEW b, NEW c, NEW d,
         Kept(q, r, n, l, a, b, c, d), a < c, Tiled(q), Filled(q, r, a, b, c)
  PROVE  Tiled(r)
<1> /\ n \in Nat /\ l \in Nat /\ n = Len(q) /\ l = Len(r)
    /\ a \in Nat \ {0} /\ b \in Nat /\ c \in Nat /\ d \in Int
    /\ a <= b /\ b <= n /\ a <= c /\ d = b + 1 - c /\ l = n - d
  BY DEF Kept
<1>t. (\A i \in 1..n : q[i] \in Segs) /\ (\A i \in 1..l : r[i] \in Segs)
  BY DEF Filled
<1>k. \A i \in 1..(a - 1) : r[i] = q[i]
  BY DEF Kept
<1>m. \A i \in c..l : r[i] = q[i + d]
  BY DEF Kept
<1>q. \A i \in a..b : ~IsSpan(q[i])
  BY DEF Filled
<1>r. \A i \in a..(c - 1) : ~IsSpan(r[i])
  BY DEF Filled
<1>s. \A i \in a..(c - 1) : q[a].base <= r[i].base /\ End(r[i]) <= End(q[b])
  BY DEF Filled
<1>u. r[a].base = q[a].base /\ End(r[c - 1]) = End(q[b])
  BY DEF Filled
<1>v. \A i \in a..(c - 2) : End(r[i]) = r[i + 1].base
  BY DEF Filled
<1>1. PICK p \in 1..(a - 1) :
        /\ SpanIn(q, p, b) /\ q[p].base <= q[a].base /\ End(q[b]) <= End(q[p])
        /\ End(q[b]) = IF LastIn(q, b) THEN End(q[p]) ELSE q[b + 1].base
  <2>1. a \in 1..Len(q) /\ b \in 1..Len(q) /\ ~IsSpan(q[a]) /\ ~IsSpan(q[b])
    BY <1>q, SMTT(60)
  <2>2. PICK p \in 1..(b - 1) :
          /\ SpanIn(q, p, b) /\ Inside(q[b], q[p])
          /\ End(q[b]) = IF LastIn(q, b) THEN End(q[p]) ELSE q[b + 1].base
    BY <2>1 DEF Tiled, Placed
  <2>3. PICK o \in 1..(a - 1) : SpanIn(q, o, a) /\ Inside(q[a], q[o])
    BY <2>1 DEF Tiled, Placed
  <2>4. IsSpan(q[p])
    BY <2>2 DEF SpanIn
  <2>5. p \in 1..(a - 1)
    BY <1>q, <2>2, <2>4, SMTT(60)
  <2>6. p = o
    BY <2>2, <2>3, <2>5, OneSpan, SMTT(60)
  <2> QED
    BY <2>2, <2>3, <2>5, <2>6 DEF Inside
<1>2. ASSUME NEW i \in 1..(a - 1)
      PROVE  IF IsSpan(r[i]) THEN Opened(r, i) ELSE Placed(r, i)
  <2>1. /\ i \in 1..Len(q) /\ i < Len(q) /\ r[i] = q[i] /\ i < Len(r)
        /\ IF IsSpan(q[i]) THEN Opened(q, i) ELSE Placed(q, i)
    BY <1>k, SMTT(60) DEF Tiled
  <2>2. (IsSpan(r[i + 1]) <=> IsSpan(q[i + 1])) /\ r[i + 1].base = q[i + 1].base
    <3>1. CASE i + 1 < a
      <4>1. i + 1 \in 1..(a - 1)
        BY <3>1, SMTT(60)
      <4> QED
        BY <1>k, <4>1
    <3>2. CASE i + 1 = a
      <4>1. ~IsSpan(r[a]) /\ ~IsSpan(q[a])
        <5>1. a \in a..b /\ a \in a..(c - 1)
          BY SMTT(60)
        <5> QED
          BY <1>q, <1>r, <5>1
      <4> QED
        BY <1>u, <3>2, <4>1
    <3> QED
      BY <3>1, <3>2, SMTT(60)
  <2>3. CASE IsSpan(q[i])
    BY <2>1, <2>2, <2>3 DEF Opened
  <2>4. CASE ~IsSpan(q[i])
    <3>1. PICK o \in 1..(i - 1) :
            /\ SpanIn(q, o, i) /\ Inside(q[i], q[o])
            /\ End(q[i]) = IF LastIn(q, i) THEN End(q[o]) ELSE q[i + 1].base
      BY <2>1, <2>4 DEF Placed
    <3>2. r[o] = q[o] /\ SpanIn(r, o, i)
      <4>1. o \in 1..(a - 1) /\ \A j \in (o + 1)..i : j \in 1..(a - 1)
        BY SMTT(60)
      <4> QED
        BY <1>k, <3>1, <4>1 DEF SpanIn
    <3>3. LastIn(r, i) <=> LastIn(q, i)
      BY <2>1, <2>2, SMTT(60) DEF LastIn
    <3> QED
      BY <2>1, <2>2, <2>4, <3>1, <3>2, <3>3 DEF Placed
  <2> QED
    BY <2>3, <2>4
<1>3. ASSUME NEW i \in a..(c - 1)
      PROVE  ~IsSpan(r[i]) /\ Placed(r, i)
  <2>1. ~IsSpan(r[i]) /\ p \in 1..(i - 1) /\ r[p] = q[p] /\ i \in 1..l
    <3>1. i \in 1..l /\ p \in 1..(i - 1)
      BY SMTT(60)
    <3> QED
      BY <1>k, <1>r, <3>1
  <2>2. SpanIn(r, p, i)
    <3>1. ASSUME NEW k \in (p + 1)..i
          PROVE  ~IsSpan(r[k])
      <4>1. CASE k < a
        <5>1. k \in 1..(a - 1) /\ k \in (p + 1)..b
          BY <4>1, SMTT(60)
        <5>2. r[k] = q[k] /\ ~IsSpan(q[k])
          BY <1>k, <1>1, <5>1 DEF SpanIn
        <5> QED
          BY <5>2
      <4>2. CASE k >= a
        BY <1>r, <4>2, SMTT(60)
      <4> QED
        BY <4>1, <4>2, SMTT(60)
    <3> QED
      BY <1>1, <2>1, <3>1 DEF SpanIn
  <2>3. Inside(r[i], r[p])
    <3>1. q[p] \in Segs /\ q[a] \in Segs /\ q[b] \in Segs /\ r[i] \in Segs
      <4>1. p \in 1..n /\ a \in 1..n /\ b \in 1..n /\ i \in 1..l
        BY <2>1, SMTT(60)
      <4> QED
        BY <1>t, <4>1
    <3>2. q[a].base <= r[i].base /\ End(r[i]) <= End(q[b])
      BY <1>s
    <3>3. /\ q[p].base \in Nat /\ q[a].base \in Nat /\ r[i].base \in Nat
          /\ End(q[p]) \in Nat /\ End(q[b]) \in Nat /\ End(r[i]) \in Nat
      BY <3>1, SegTypes
    <3>4. q[p].base <= q[a].base /\ End(q[b]) <= End(q[p])
      BY <1>1
    <3>5. \A x, y, z \in Nat : x <= y /\ y <= z => x <= z
      BY SMTT(60)
    <3>6. q[p].base <= r[i].base
      BY <3>2, <3>3, <3>4, <3>5
    <3>7. End(r[i]) <= End(q[p])
      BY <3>2, <3>3, <3>4, <3>5
    <3> QED
      BY <2>1, <3>6, <3>7 DEF Inside
  <2>4. End(r[i]) = IF LastIn(r, i) THEN End(r[p]) ELSE r[i + 1].base
    <3>1. CASE i < c - 1
      <4>1. i + 1 \in a..(c - 1) /\ i \in a..(c - 2) /\ i # Len(r)
        BY <3>1, SMTT(60)
      <4>2. ~IsSpan(r[i + 1]) /\ End(r[i]) = r[i + 1].base
        BY <1>r, <1>v, <4>1
      <4> QED
        BY <4>1, <4>2 DEF LastIn
    <3>2. CASE i = c - 1
      <4>1. (i = Len(r) <=> b = Len(q)) /\ (b # Len(q) => i + 1 \in c..l /\ (i + 1) + d = b + 1)
        BY <3>2, SMTT(60)
      <4>2. ASSUME b # Len(q)
            PROVE  r[i + 1] = q[b + 1]
        <5>1. r[i + 1] = q[(i + 1) + d]
          BY <1>m, <4>1, <4>2
        <5> QED
          BY <4>1, <4>2, <5>1
      <4>3. LastIn(r, i) <=> LastIn(q, b)
        BY <4>1, <4>2 DEF LastIn
      <4>4. ~LastIn(q, b) => r[i + 1] = q[b + 1]
        BY <4>2 DEF LastIn
      <4> QED
        BY <1>u, <1>1, <2>1, <3>2, <4>3, <4>4
    <3> QED
      BY <3>1, <3>2, SMTT(60)
  <2> QED
    BY <2>1, <2>2, <2>3, <2>4 DEF Placed
<1>4. ASSUME NEW i \in c..l
      PROVE  IF IsSpan(r[i]) THEN Opened(r, i) ELSE Placed(r, i)
  <2>1. PICK e \in 1..n : e = i + d /\ e > b
    BY SMTT(60)
  <2>2. r[i] = q[e] /\ (i < Len(r) <=> e < Len(q)) /\ (i = Len(r) <=> e = Len(q))
    <3>1. r[i] = q[i + d]
      BY <1>m
    <3> QED
      BY <2>1, <3>1, SMTT(60)
  <2>3. ASSUME i < l
        PROVE  r[i + 1] = q[e + 1]
    <3>1. i + 1 \in c..l /\ (i + 1) + d = e + 1
      BY <2>1, <2>3, SMTT(60)
    <3>2. r[i + 1] = q[(i + 1) + d]
      BY <1>m, <3>1
    <3> QED
      BY <3>1, <3>2
  <2>4. IF IsSpan(q[e]) THEN Opened(q, e) ELSE Placed(q, e)
    BY <2>1 DEF Tiled
  <2>5. CASE IsSpan(q[e])
    BY <2>2, <2>3, <2>4, <2>5 DEF Opened
  <2>6. CASE ~IsSpan(q[e])
    <3>1. PICK o \in 1..(e - 1) :
            /\ SpanIn(q, o, e) /\ Inside(q[e], q[o])
            /\ End(q[e]) = IF LastIn(q, e) THEN End(q[o]) ELSE q[e + 1].base
      BY <2>4, <2>6 DEF Placed
    <3>2. i = Len(r) \/ i < l
      BY SMTT(60)
    <3>3. /\ LastIn(r, i) <=> LastIn(q, e)
          /\ ~LastIn(q, e) => r[i + 1] = q[e + 1]
      BY <2>2, <2>3, <3>2 DEF LastIn
    <3>4. o \notin a..b
      BY <1>q, <3>1 DEF SpanIn
    <3>5. \A k \in (o + 1)..e : ~IsSpan(q[k])
      BY <3>1 DEF SpanIn
    <3>6. CASE o < a
      <4>1. r[o] = q[o] /\ o \in 1..(i - 1)
        BY <1>k, <3>6, SMTT(60)
      <4>2. ASSUME NEW k \in (o + 1)..i
            PROVE  ~IsSpan(r[k])
        <5>1. CASE k < a
          <6>1. k \in (o + 1)..e /\ k \in 1..(a - 1)
            BY <2>1, <5>1, SMTT(60)
          <6> QED
            BY <1>k, <3>5, <6>1
        <5>2. CASE k >= a /\ k < c
          BY <1>r, <5>2, SMTT(60)
        <5>3. CASE k >= c
          <6>1. k + d \in (o + 1)..e /\ k \in c..l
            BY <2>1, <3>6, <5>3, SMTT(60)
          <6> QED
            BY <1>m, <3>5, <6>1
        <5> QED
          BY <5>1, <5>2, <5>3, SMTT(60)
      <4>3. SpanIn(r, o, i)
        BY <3>1, <4>1, <4>2 DEF SpanIn
      <4> QED
        BY <2>2, <2>6, <3>1, <3>3, <4>1, <4>3 DEF Placed
    <3>7. CASE o > b
      <4>1. PICK x \in c..(i - 1) : x + d = o
        <5>1. o - d \in c..(i - 1) /\ (o - d) + d = o
          BY <2>1, <3>1, <3>7, SMTT(60)
        <5> QED
          BY <5>1
      <4>2. r[x] = q[o] /\ x \in 1..(i - 1)
        <5>1. x \in c..l /\ x \in 1..(i - 1)
          BY SMTT(60)
        <5>2. r[x] = q[x + d]
          BY <1>m, <5>1
        <5> QED
          BY <4>1, <5>1, <5>2
      <4>3. ASSUME NEW k \in (x + 1)..i
            PROVE  ~IsSpan(r[k])
        <5>1. k + d \in (o + 1)..e /\ k \in c..l
          BY <2>1, <4>1, SMTT(60)
        <5> QED
          BY <1>m, <3>5, <5>1
      <4>4. SpanIn(r, x, i)
        BY <3>1, <4>2, <4>3 DEF SpanIn
      <4> QED
        BY <2>2, <2>6, <3>1, <3>3, <4>2, <4>4 DEF Placed
    <3> QED
      BY <3>1, <3>4, <3>6, <3>7, SMTT(60)
  <2> QED
    BY <2>2, <2>5, <2>6
<1> QED
  <2> SUFFICES ASSUME NEW i \in 1..l
               PROVE  IF IsSpan(r[i]) THEN Opened(r, i) ELSE Placed(r, i)
    BY DEF Tiled
  <2>1. i \in 1..(a - 1) \/ i \in a..(c - 1) \/ i \in c..l
    BY SMTT(60)
  <2> QED
    BY <1>2, <1>3, <1>4, <2>1

\* The segments of q from a to b are a span and all that lies in it.
WholeSpan(q, a, b) == SpanIn(q, a, b) /\ LastIn(q, b)

\* A span that goes back to the source leaves the queue tiled.
LEMMA TiledCut ==
  ASSUME NEW q, NEW r, NEW n, NEW l, NEW a, NEW b, NEW d,
         Kept(q, r, n, l, a, b, a, d), a < b, WholeSpan(q, a, b), Tiled(q)
  PROVE  Tiled(r)
<1> /\ n \in Nat /\ l \in Nat /\ n = Len(q) /\ l = Len(r)
    /\ a \in Nat \ {0} /\ b \in Nat /\ d \in Nat
    /\ a < b /\ b <= n /\ d = b + 1 - a /\ l = n - d
  BY SMTT(60) DEF Kept
<1>k. \A i \in 1..(a - 1) : r[i] = q[i]
  BY DEF Kept
<1>m. \A i \in a..l : r[i] = q[i + d]
  BY DEF Kept
<1>s. IsSpan(q[a]) /\ (b = n \/ IsSpan(q[b + 1]))
  BY DEF WholeSpan, SpanIn, LastIn
<1>1. ASSUME NEW i \in 1..(a - 1)
      PROVE  IF IsSpan(r[i]) THEN Opened(r, i) ELSE Placed(r, i)
  <2>1. /\ i \in 1..Len(q) /\ i < Len(q) /\ r[i] = q[i] /\ i <= l
        /\ IF IsSpan(q[i]) THEN Opened(q, i) ELSE Placed(q, i)
    BY <1>k, SMTT(60) DEF Tiled
  <2>2. CASE i + 1 < a
    <3>1. r[i + 1] = q[i + 1] /\ i < Len(r)
      BY <1>k, <2>2, SMTT(60)
    <3>2. CASE IsSpan(q[i])
      BY <2>1, <3>1, <3>2 DEF Opened
    <3>3. CASE ~IsSpan(q[i])
      <4>1. PICK o \in 1..(i - 1) :
              /\ SpanIn(q, o, i) /\ Inside(q[i], q[o])
              /\ End(q[i]) = IF LastIn(q, i) THEN End(q[o]) ELSE q[i + 1].base
        BY <2>1, <3>3 DEF Placed
      <4>2. r[o] = q[o] /\ SpanIn(r, o, i)
        BY <1>k, <4>1, SMTT(60) DEF SpanIn
      <4>3. LastIn(r, i) <=> LastIn(q, i)
        BY <2>1, <3>1, SMTT(60) DEF LastIn
      <4> QED
        BY <2>1, <3>1, <3>3, <4>1, <4>2, <4>3 DEF Placed
    <3> QED
      BY <3>2, <3>3
  <2>3. CASE i + 1 = a
    <3>1. ~IsSpan(q[i]) /\ LastIn(q, i)
      BY <1>s, <2>1, <2>3 DEF Opened, LastIn
    <3>2. PICK o \in 1..(i - 1) :
            SpanIn(q, o, i) /\ Inside(q[i], q[o]) /\ End(q[i]) = End(q[o])
      BY <2>1, <3>1 DEF Placed
    <3>3. r[o] = q[o] /\ SpanIn(r, o, i)
      BY <1>k, <3>2, SMTT(60) DEF SpanIn
    <3>4. LastIn(r, i)
      <4>1. CASE b = n
        BY <2>3, <4>1, SMTT(60) DEF LastIn
      <4>2. CASE b # n
        <5>1. a \in a..l /\ a + d = b + 1
          BY <4>2, SMTT(60)
        <5>2. r[a] = q[a + d]
          BY <1>m, <5>1
        <5> QED
          BY <1>s, <2>3, <4>2, <5>1, <5>2 DEF LastIn
      <4> QED
        BY <4>1, <4>2
    <3> QED
      BY <2>1, <3>1, <3>2, <3>3, <3>4 DEF Placed
  <2> QED
    BY <2>2, <2>3, SMTT(60)
<1>2. ASSUME NEW i \in a..l
      PROVE  IF IsSpan(r[i]) THEN Opened(r, i) ELSE Placed(r, i)
  <2>1. PICK e \in 1..n : e = i + d /\ e > b
    BY SMTT(60)
  <2>2. r[i] = q[e] /\ (i < Len(r) <=> e < Len(q)) /\ (i = Len(r) <=> e = Len(q))
    <3>1. r[i] = q[i + d]
      BY <1>m
    <3> QED
      BY <2>1, <3>1, SMTT(60)
  <2>3. ASSUME i < l
        PROVE  r[i + 1] = q[e + 1]
    <3>1. i + 1 \in a..l /\ (i + 1) + d = e + 1
      BY <2>1, <2>3, SMTT(60)
    <3>2. r[i + 1] = q[(i + 1) + d]
      BY <1>m, <3>1
    <3> QED
      BY <3>1, <3>2
  <2>4. IF IsSpan(q[e]) THEN Opened(q, e) ELSE Placed(q, e)
    BY <2>1 DEF Tiled
  <2>5. CASE IsSpan(q[e])
    BY <2>2, <2>3, <2>4, <2>5 DEF Opened
  <2>6. CASE ~IsSpan(q[e])
    <3>1. PICK o \in 1..(e - 1) :
            /\ SpanIn(q, o, e) /\ Inside(q[e], q[o])
            /\ End(q[e]) = IF LastIn(q, e) THEN End(q[o]) ELSE q[e + 1].base
      BY <2>4, <2>6 DEF Placed
    <3>2. i = Len(r) \/ i < l
      BY SMTT(60)
    <3>3. /\ LastIn(r, i) <=> LastIn(q, e)
          /\ ~LastIn(q, e) => r[i + 1] = q[e + 1]
      BY <2>2, <2>3, <3>2 DEF LastIn
    <3>4. \A k \in (o + 1)..e : ~IsSpan(q[k])
      BY <3>1 DEF SpanIn
    <3>5. o > b
      <4>1. IsSpan(q[b + 1])
        BY <1>s, <2>1, SMTT(60)
      <4> QED
        BY <2>1, <3>4, <4>1, SMTT(60)
    <3>6. PICK x \in a..(i - 1) : x + d = o
      <4>1. o - d \in a..(i - 1) /\ (o - d) + d = o
        BY <2>1, <3>1, <3>5, SMTT(60)
      <4> QED
        BY <4>1
    <3>7. r[x] = q[o] /\ x \in 1..(i - 1)
      <4>1. x \in a..l /\ x \in 1..(i - 1)
        BY SMTT(60)
      <4>2. r[x] = q[x + d]
        BY <1>m, <4>1
      <4> QED
        BY <3>6, <4>1, <4>2
    <3>8. ASSUME NEW k \in (x + 1)..i
          PROVE  ~IsSpan(r[k])
      <4>1. k + d \in (o + 1)..e /\ k \in a..l
        BY <2>1, <3>6, SMTT(60)
      <4> QED
        BY <1>m, <3>4, <4>1
    <3>9. SpanIn(r, x, i)
      BY <3>1, <3>7, <3>8 DEF SpanIn
    <3> QED
      BY <2>2, <2>6, <3>1, <3>3, <3>7, <3>9 DEF Placed
  <2> QED
    BY <2>2, <2>5, <2>6
<1> QED
  <2> SUFFICES ASSUME NEW i \in 1..l
               PROVE  IF IsSpan(r[i]) THEN Opened(r, i) ELSE Placed(r, i)
    BY DEF Tiled
  <2>1. i \in 1..(a - 1) \/ i \in a..l
    BY SMTT(60)
  <2> QED
    BY <1>1, <1>2, <2>1

\* r is q, of length n, with a span and a segment that is all of it.
Appended(q, r, n) ==
  /\ n \in Nat /\ n = Len(q) /\ n + 2 = Len(r) /\ \A i \in 1..n : r[i] = q[i]
  /\ IsSpan(r[n + 1]) /\ ~IsSpan(r[n + 2]) /\ r[n + 2] \in Segs
  /\ r[n + 2].base = r[n + 1].base /\ r[n + 2].size = r[n + 1].size

\* An imported span with one segment leaves the queue tiled.
LEMMA TiledAppended ==
  ASSUME NEW q, NEW r, NEW n, Appended(q, r, n), Tiled(q)
  PROVE  Tiled(r)
<1> /\ n \in Nat /\ n = Len(q) /\ n + 2 = Len(r) /\ \A i \in 1..n : r[i] = q[i]
    /\ IsSpan(r[n + 1]) /\ ~IsSpan(r[n + 2]) /\ r[n + 2] \in Segs
    /\ r[n + 2].base = r[n + 1].base /\ r[n + 2].size = r[n + 1].size
  BY DEF Appended
<1>1. ASSUME NEW i \in 1..n
      PROVE  IF IsSpan(r[i]) THEN Opened(r, i) ELSE Placed(r, i)
  <2>1. /\ i \in 1..Len(q) /\ r[i] = q[i] /\ i < Len(r)
        /\ IF IsSpan(q[i]) THEN Opened(q, i) ELSE Placed(q, i)
    BY SMTT(60) DEF Tiled
  <2>2. i < n => r[i + 1] = q[i + 1]
    BY SMTT(60)
  <2>3. CASE IsSpan(q[i])
    BY <2>1, <2>2, <2>3 DEF Opened
  <2>4. CASE ~IsSpan(q[i])
    <3>1. PICK o \in 1..(i - 1) :
            /\ SpanIn(q, o, i) /\ Inside(q[i], q[o])
            /\ End(q[i]) = IF LastIn(q, i) THEN End(q[o]) ELSE q[i + 1].base
      BY <2>1, <2>4 DEF Placed
    <3>2. r[o] = q[o] /\ SpanIn(r, o, i)
      BY <3>1, SMTT(60) DEF SpanIn
    <3>3. i = n \/ i < n
      BY SMTT(60)
    <3>4. /\ LastIn(r, i) <=> LastIn(q, i)
          /\ ~LastIn(q, i) => r[i + 1] = q[i + 1]
      BY <2>1, <2>2, <3>3, SMTT(60) DEF LastIn
    <3> QED
      BY <2>1, <2>4, <3>1, <3>2, <3>4 DEF Placed
  <2> QED
    BY <2>3, <2>4
<1>2. Opened(r, n + 1)
  <2>1. n + 1 < Len(r) /\ (n + 1) + 1 = n + 2
    BY SMTT(60)
  <2> QED
    BY <2>1 DEF Opened
<1>3. Placed(r, n + 2)
  <2>1. n + 1 \in 1..((n + 2) - 1) /\ SpanIn(r, n + 1, n + 2)
    BY SMTT(60) DEF SpanIn
  <2>2. Inside(r[n + 2], r[n + 1]) /\ End(r[n + 2]) = End(r[n + 1])
    <3>1. r[n + 2].base \in Nat /\ r[n + 2].size \in Nat
      BY SegTypes
    <3> QED
      BY <3>1, SMTT(60) DEF Inside, End
  <2>3. LastIn(r, n + 2)
    BY DEF LastIn
  <2> QED
    BY <2>1, <2>2, <2>3 DEF Placed
<1> QED
  <2> SUFFICES ASSUME NEW i \in 1..(n + 2)
               PROVE  IF IsSpan(r[i]) THEN Opened(r, i) ELSE Placed(r, i)
    BY DEF Tiled
  <2>1. i \in 1..n \/ i = n + 1 \/ i = n + 2
    BY SMTT(60)
  <2> QED
    BY <1>1, <1>2, <1>3, <2>1

-----------------------------------------------------------------------------
(* The segments of an arena.                                               *)

\* The segments of an address space of SpanSize addresses.
Bounded == {s \in Segs : End(s) <= SpanSize}

\* ImportsInUse, for a queue q.
InUse(q) ==
  \A i \in 1..Len(q) : IsSpan(q[i]) =>
    q[i + 1].type = "allocated" \/ End(q[i + 1]) < End(q[i])

-----------------------------------------------------------------------------
(* What else a queue keeps when some of its segments are replaced.         *)

\* The new segments, from a to c - 1, share no address with each other or with
\* a segment that stays.
Fresh(q, r, a, b, c) ==
  \A i \in a..(c - 1) :
    /\ ~IsSpan(r[i])
    /\ \A j \in a..(c - 1) : i # j => Apart(r[i], r[j])
    /\ \A k \in 1..Len(q) : k \notin a..b /\ ~IsSpan(q[k]) => Apart(r[i], q[k])

\* Every segment of r is new or stood in q, different ones at different places.
LEMMA Origin ==
  ASSUME NEW q, NEW r, NEW n, NEW l, NEW a, NEW b, NEW c, NEW d,
         Kept(q, r, n, l, a, b, c, d)
  PROVE  \A i \in (1..l) \ (a..(c - 1)) : \E e \in (1..n) \ (a..b) :
           r[i] = q[e] /\ e = IF i < a THEN i ELSE i + d
<1> /\ n \in Nat /\ l \in Nat /\ n = Len(q) /\ l = Len(r)
    /\ a \in Nat \ {0} /\ b \in Nat /\ c \in Nat /\ d \in Int
    /\ a <= b /\ b <= n /\ a <= c /\ d = b + 1 - c /\ l = n - d
  BY DEF Kept
<1> SUFFICES ASSUME NEW i \in (1..l) \ (a..(c - 1))
             PROVE  \E e \in (1..n) \ (a..b) : r[i] = q[e] /\ e = IF i < a THEN i ELSE i + d
  OBVIOUS
<1>k. \A j \in 1..(a - 1) : r[j] = q[j]
  BY DEF Kept
<1>m. \A j \in c..l : r[j] = q[j + d]
  BY DEF Kept
<1>1. CASE i < a
  <2>1. i \in (1..n) \ (a..b) /\ i \in 1..(a - 1)
    BY <1>1, SMTT(60)
  <2> QED
    BY <1>1, <1>k, <2>1
<1>2. CASE ~(i < a)
  <2>1. i \in c..l
    BY <1>2, SMTT(60)
  <2>2. PICK e \in (1..n) \ (a..b) : e = i + d
    <3>1. i + d \in (1..n) \ (a..b)
      BY <2>1, SMTT(60)
    <3> QED
      BY <3>1
  <2>3. r[i] = q[i + d]
    BY <1>m, <2>1
  <2> QED
    BY <1>2, <2>2, <2>3
<1> QED
  BY <1>1, <1>2

\* Which of two segments is named first does not matter.
LEMMA ApartSymmetric ==
  ASSUME NEW s, NEW t, Apart(s, t)
  PROVE  Apart(t, s)
BY DEF Apart

\* New segments that are apart from what stays leave the queue disjoint.
LEMMA DisjointReplaced ==
  ASSUME NEW q, NEW r, NEW n, NEW l, NEW a, NEW b, NEW c, NEW d,
         Kept(q, r, n, l, a, b, c, d),
         Fresh(q, r, a, b, c), Disjoint(q)
  PROVE  Disjoint(r)
<1>o. \A i \in (1..l) \ (a..(c - 1)) : \E e \in (1..n) \ (a..b) :
        r[i] = q[e] /\ e = IF i < a THEN i ELSE i + d
  BY Origin, SMTT(60)
<1> /\ n \in Nat /\ l \in Nat /\ n = Len(q) /\ l = Len(r)
    /\ a \in Nat \ {0} /\ b \in Nat /\ c \in Nat /\ d \in Int
    /\ a <= b /\ b <= n /\ a <= c /\ d = b + 1 - c /\ l = n - d
  BY DEF Kept
<1> SUFFICES ASSUME NEW i \in 1..l, NEW j \in 1..l, i # j, IsSpan(r[i]) <=> IsSpan(r[j])
             PROVE  Apart(r[i], r[j])
  BY DEF Disjoint
<1>1. CASE i \in a..(c - 1) /\ j \in a..(c - 1)
  BY <1>1 DEF Fresh
<1>2. CASE i \in a..(c - 1) /\ j \notin a..(c - 1)
  <2>1. PICK e \in (1..n) \ (a..b) : r[j] = q[e]
    BY <1>o, <1>2
  <2>2. ~IsSpan(r[i]) /\ ~IsSpan(q[e])
    BY <1>2, <2>1 DEF Fresh
  <2> QED
    BY <1>2, <2>1, <2>2 DEF Fresh
<1>3. CASE i \notin a..(c - 1) /\ j \in a..(c - 1)
  <2>1. PICK e \in (1..n) \ (a..b) : r[i] = q[e]
    BY <1>o, <1>3
  <2>2. ~IsSpan(r[j]) /\ ~IsSpan(q[e])
    BY <1>3, <2>1 DEF Fresh
  <2>3. Apart(r[j], q[e])
    BY <1>3, <2>1, <2>2 DEF Fresh
  <2> QED
    BY <2>1, <2>3, ApartSymmetric
<1>4. CASE i \notin a..(c - 1) /\ j \notin a..(c - 1)
  <2>1. PICK e \in (1..n) \ (a..b) : r[i] = q[e] /\ e = IF i < a THEN i ELSE i + d
    BY <1>o, <1>4
  <2>2. PICK f \in (1..n) \ (a..b) : r[j] = q[f] /\ f = IF j < a THEN j ELSE j + d
    BY <1>o, <1>4
  <2>3. e # f
    <3>1. i < a \/ i \in c..l
      BY <1>4, SMTT(60)
    <3>2. j < a \/ j \in c..l
      BY <1>4, SMTT(60)
    <3>3. CASE i < a /\ j < a
      BY <2>1, <2>2, <3>3
    <3>4. CASE i < a /\ j \in c..l
      BY <2>1, <2>2, <3>4, SMTT(60)
    <3>5. CASE i \in c..l /\ j < a
      BY <2>1, <2>2, <3>5, SMTT(60)
    <3>6. CASE i \in c..l /\ j \in c..l
      BY <2>1, <2>2, <3>6, SMTT(60)
    <3> QED
      BY <3>1, <3>2, <3>3, <3>4, <3>5, <3>6
  <2> QED
    BY <2>1, <2>2, <2>3 DEF Disjoint
<1> QED
  BY <1>1, <1>2, <1>3, <1>4

\* The segments of q at the places of S.
Part(q, S) == {q[k] : k \in S}

\* The segments of r are the ones of q that stay and the new ones.
StayOrNew(q, r, n, l, a, b, c) ==
  Part(r, 1..l) = Part(q, (1..n) \ (a..b)) \cup Part(r, a..(c - 1))

\* Replacing segments takes the old ones out and puts the new ones in.
LEMMA RangeReplaced ==
  ASSUME NEW q, NEW r, NEW n, NEW l, NEW a, NEW b, NEW c, NEW d,
         Kept(q, r, n, l, a, b, c, d)
  PROVE  StayOrNew(q, r, n, l, a, b, c)
<1>o. \A i \in (1..l) \ (a..(c - 1)) : \E e \in (1..n) \ (a..b) :
        r[i] = q[e] /\ e = IF i < a THEN i ELSE i + d
  BY Origin, SMTT(60)
<1> /\ n \in Nat /\ l \in Nat /\ n = Len(q) /\ l = Len(r)
    /\ a \in Nat \ {0} /\ b \in Nat /\ c \in Nat /\ d \in Int
    /\ a <= b /\ b <= n /\ a <= c /\ d = b + 1 - c /\ l = n - d
  BY DEF Kept
<1>1. ASSUME NEW i \in 1..l
      PROVE  r[i] \in {q[k] : k \in (1..n) \ (a..b)} \cup {r[j] : j \in a..(c - 1)}
  <2>1. CASE i \in a..(c - 1)
    BY <2>1
  <2>2. CASE i \notin a..(c - 1)
    BY <1>o, <2>2
  <2> QED
    BY <2>1, <2>2
<1>2. ASSUME NEW k \in (1..n) \ (a..b)
      PROVE  \E i \in 1..l : r[i] = q[k]
  <2>1. CASE k < a
    BY <2>1, SMTT(60) DEF Kept
  <2>2. CASE ~(k < a)
    <3>1. k - d \in c..l /\ k - d \in 1..l /\ (k - d) + d = k
      BY <2>2, SMTT(60)
    <3>2. r[k - d] = q[(k - d) + d]
      BY <3>1 DEF Kept
    <3> QED
      BY <3>1, <3>2
  <2> QED
    BY <2>1, <2>2
<1>3. \A i \in a..(c - 1) : i \in 1..l
  BY SMTT(60)
<1>4. Part(r, 1..l) \subseteq Part(q, (1..n) \ (a..b)) \cup Part(r, a..(c - 1))
  BY <1>1 DEF Part
<1>5. Part(q, (1..n) \ (a..b)) \subseteq Part(r, 1..l)
  BY <1>2 DEF Part
<1>6. Part(r, a..(c - 1)) \subseteq Part(r, 1..l)
  BY <1>3 DEF Part
<1> QED
  BY <1>4, <1>5, <1>6 DEF StayOrNew

\* Where a place behind the new segments was before.
LEMMA Shifted ==
  ASSUME NEW n \in Nat, NEW l \in Nat, NEW b \in Nat \ {0}, NEW c \in Nat, NEW d \in Int,
         d = b + 1 - c, l = n - d, NEW i \in 1..(l - 1), i > c - 1
  PROVE  i + d \in 1..(n - 1)
BY SMTT(60)

\* Two segments side by side stood side by side in q, or one of them is new or
\* stands at the place where segments were taken out.
LEMMA CoalescedReplaced ==
  ASSUME NEW q, NEW r, NEW n, NEW l, NEW a, NEW b, NEW c, NEW d,
         Kept(q, r, n, l, a, b, c, d),
         \A i \in 1..(l - 1) : i \in (a - 1)..(c - 1) =>
           ~(r[i].type = "free" /\ r[i + 1].type = "free"),
         Coalesced(q)
  PROVE  Coalesced(r)
<1> /\ n \in Nat /\ l \in Nat /\ n = Len(q) /\ l = Len(r)
    /\ a \in Nat \ {0} /\ b \in Nat /\ c \in Nat /\ d \in Int
    /\ a <= b /\ b <= n /\ a <= c /\ d = b + 1 - c /\ l = n - d
  BY DEF Kept
<1> SUFFICES ASSUME NEW i \in 1..(l - 1), i \notin (a - 1)..(c - 1)
             PROVE  ~(r[i].type = "free" /\ r[i + 1].type = "free")
  BY DEF Coalesced
<1>1. CASE i < a - 1
  <2>1. i \in 1..(a - 1) /\ i + 1 \in 1..(a - 1) /\ i \in 1..(n - 1)
    BY <1>1, SMTT(60)
  <2>2. r[i] = q[i] /\ r[i + 1] = q[i + 1]
    BY <2>1 DEF Kept
  <2> QED
    BY <2>1, <2>2 DEF Coalesced
<1>2. CASE i > c - 1
  <2>1. PICK e \in 1..(n - 1) : e = i + d /\ (i + 1) + d = e + 1
    <3>0. b \in Nat \ {0}
      BY SMTT(60)
    <3>1. i + d \in 1..(n - 1)
      BY <1>2, <3>0, Shifted
    <3> QED
      BY <3>1, SMTT(60)
  <2>2. i \in c..l /\ i + 1 \in c..l
    BY <1>2, SMTT(60)
  <2>3. r[i] = q[i + d]
    BY <2>2 DEF Kept
  <2>4. r[i + 1] = q[(i + 1) + d]
    BY <2>2 DEF Kept
  <2> QED
    BY <2>1, <2>3, <2>4 DEF Coalesced
<1> QED
  BY <1>1, <1>2, SMTT(60)

\* The new segments are no spans, and a span just before them is in use.
EdgeInUse(r, l, a, c) ==
  /\ \A i \in a..(c - 1) : ~IsSpan(r[i])
  /\ \A i \in 1..l : i = a - 1 /\ IsSpan(r[i]) =>
       r[i + 1].type = "allocated" \/ End(r[i + 1]) < End(r[i])

\* A span that stays is in use when the segment after it is not a new one.
LEMMA InUseReplaced ==
  ASSUME NEW q, NEW r, NEW n, NEW l, NEW a, NEW b, NEW c, NEW d,
         Kept(q, r, n, l, a, b, c, d),
         EdgeInUse(r, l, a, c), Tiled(r), InUse(q)
  PROVE  InUse(r)
<1> /\ n \in Nat /\ l \in Nat /\ n = Len(q) /\ l = Len(r)
    /\ a \in Nat \ {0} /\ b \in Nat /\ c \in Nat /\ d \in Int
    /\ a <= b /\ b <= n /\ a <= c /\ d = b + 1 - c /\ l = n - d
  BY DEF Kept
<1> SUFFICES ASSUME NEW i \in 1..l, i # a - 1, i \notin a..(c - 1), IsSpan(r[i])
             PROVE  r[i + 1].type = "allocated" \/ End(r[i + 1]) < End(r[i])
  BY DEF InUse, EdgeInUse
<1>0. i < l
  BY DEF Tiled, Opened
<1>1. CASE i < a - 1
  <2>1. i \in 1..(a - 1) /\ i + 1 \in 1..(a - 1) /\ i \in 1..n
    BY <1>1, SMTT(60)
  <2>2. r[i] = q[i] /\ r[i + 1] = q[i + 1]
    BY <2>1 DEF Kept
  <2> QED
    BY <2>1, <2>2 DEF InUse
<1>2. CASE i > c - 1
  <2>1. PICK e \in 1..(n - 1) : e = i + d /\ (i + 1) + d = e + 1
    <3>0. i \in 1..(l - 1) /\ b \in Nat \ {0}
      BY <1>0, SMTT(60)
    <3>1. i + d \in 1..(n - 1)
      BY <1>2, <3>0, Shifted
    <3> QED
      BY <3>1, SMTT(60)
  <2>2. i \in c..l /\ i + 1 \in c..l
    BY <1>0, <1>2, SMTT(60)
  <2>3. r[i] = q[i + d]
    BY <2>2 DEF Kept
  <2>4. r[i + 1] = q[(i + 1) + d]
    BY <2>2 DEF Kept
  <2>5. e \in 1..Len(q)
    BY SMTT(60)
  <2> QED
    BY <2>1, <2>3, <2>4, <2>5 DEF InUse
<1> QED
  BY <1>1, <1>2, SMTT(60)

-----------------------------------------------------------------------------
(* The free lists.                                                         *)

\* What the proofs use of the sizes of sets: every size has a list, and the sizes
\* of ranges that do not overlap add up.
Counting ==
  /\ Cardinality({}) = 0
  /\ \A n : Bucket(n) \in Buckets
  /\ \A C, b, n :
       /\ C \subseteq Addresses /\ b \in Nat /\ n \in Nat \ {0}
       /\ b..(b + n - 1) \subseteq Addresses /\ C \cap (b..(b + n - 1)) = {}
       => /\ Cardinality(C \cup (b..(b + n - 1))) = Cardinality(C) + n
          /\ Cardinality(C) \in Nat

FreeBases(U, k) == {s.base : s \in {t \in U : t.type = "free" /\ Bucket(t.size) = k}}

\* The lists fl hold the free segments of U.
Listed(fl, U) ==
  /\ fl \in [Buckets -> Seq(Addresses)]
  /\ \A k \in Buckets : IsInjective(fl[k]) /\ Range(fl[k]) = FreeBases(U, k)

\* Without takes one entry out of a list.
LEMMA WithoutOne ==
  ASSUME NEW S, NEW s \in Seq(S), IsInjective(s), NEW k \in Range(s)
  PROVE  /\ Without(s, k) \in Seq(S) /\ IsInjective(Without(s, k))
         /\ Range(Without(s, k)) = Range(s) \ {k}
<1> DEFINE i == CHOOSE j \in DOMAIN s : s[j] = k
           n == Len(s) - 1
           w == Without(s, k)
<1>1. Len(s) \in Nat /\ DOMAIN s = 1..Len(s) /\ i \in DOMAIN s /\ \A j \in 1..Len(s) : s[j] \in S
  BY SeqLength, SeqElement DEF Range
<1>2. n \in Nat /\ n = Len(s) - 1 /\ i \in 1..(n + 1) /\ DOMAIN s = 1..(n + 1) /\ s[i] = k
  BY <1>1, SMTT(60) DEF Range
<1>3. w = [j \in 1..n |-> IF j < i THEN s[j] ELSE s[j + 1]]
  BY DEF Without
<1> HIDE DEF i, n, w
<1>4. /\ DOMAIN w = 1..n
      /\ \A j \in 1..n : IF j < i THEN w[j] = s[j] ELSE w[j] = s[j + 1]
  BY <1>3
<1>5. \A j \in 1..n : j \in DOMAIN s /\ j + 1 \in DOMAIN s
  BY <1>1, <1>2, SMTT(60)
<1>6. \A j \in 1..n : w[j] \in S
  BY <1>1, <1>4, <1>5
<1>7. w \in [1..n -> S]
  BY <1>3, <1>4, <1>6
<1>8. w \in Seq(S)
  BY <1>2, <1>7, SeqFunction
<1>9. \A x, y \in DOMAIN s : s[x] = s[y] => x = y
  BY DEF IsInjective
<1>10. IsInjective(w)
  <2> SUFFICES ASSUME NEW a \in 1..n, NEW b \in 1..n, w[a] = w[b]
               PROVE  a = b
    BY <1>4 DEF IsInjective
  <2>1. i \in Nat
    BY <1>2, SMTT(60)
  <2> QED
    BY <1>4, <1>5, <1>9, <2>1, SMTT(60)
<1>11. ASSUME NEW a \in 1..n
       PROVE  w[a] \in Range(s) \ {k}
  <2>1. CASE a < i
    <3>1. w[a] = s[a] /\ a \in DOMAIN s /\ i \in DOMAIN s /\ a # i
      BY <1>2, <1>4, <1>5, <2>1, SMTT(60)
    <3> QED
      BY <1>2, <1>9, <3>1 DEF Range
  <2>2. CASE ~(a < i)
    <3>1. w[a] = s[a + 1] /\ a + 1 \in DOMAIN s /\ i \in DOMAIN s /\ a + 1 # i
      BY <1>2, <1>4, <1>5, <2>2, SMTT(60)
    <3> QED
      BY <1>2, <1>9, <3>1 DEF Range
  <2> QED
    BY <2>1, <2>2
<1>12. ASSUME NEW x \in DOMAIN s, s[x] # k
       PROVE  \E a \in 1..n : w[a] = s[x]
  <2>1. x \in 1..(n + 1) /\ x # i
    BY <1>2, <1>12
  <2>2. CASE x < i
    <3>1. x \in 1..n
      BY <1>2, <2>1, <2>2, SMTT(60)
    <3> QED
      BY <1>4, <2>2, <3>1
  <2>3. CASE x > i
    <3>1. PICK a \in 1..n : a = x - 1 /\ ~(a < i) /\ a + 1 = x
      <4>1. x - 1 \in 1..n /\ ~(x - 1 < i) /\ (x - 1) + 1 = x
        BY <1>2, <2>1, <2>3, SMTT(60)
      <4> QED
        BY <4>1
    <3> QED
      BY <1>4, <3>1
  <2> QED
    BY <1>2, <2>1, <2>2, <2>3, SMTT(60)
<1>13. Range(w) \subseteq Range(s) \ {k}
  <2> SUFFICES ASSUME NEW a \in DOMAIN w
               PROVE  w[a] \in Range(s) \ {k}
    BY DEF Range
  <2> QED
    BY <1>4, <1>11
<1>14. Range(s) \ {k} \subseteq Range(w)
  <2> SUFFICES ASSUME NEW x \in DOMAIN s, s[x] # k
               PROVE  s[x] \in Range(w)
    BY DEF Range
  <2>1. PICK a \in 1..n : w[a] = s[x]
    BY <1>12
  <2> QED
    BY <1>4, <2>1 DEF Range
<1> QED
  BY <1>8, <1>10, <1>13, <1>14 DEF w

\* A list with a new first entry.
LEMMA PushedOne ==
  ASSUME NEW S, NEW s \in Seq(S), IsInjective(s), NEW b \in S, b \notin Range(s)
  PROVE  /\ <<b>> \o s \in Seq(S) /\ IsInjective(<<b>> \o s)
         /\ Range(<<b>> \o s) = Range(s) \cup {b}
<1> DEFINE w == <<b>> \o s
<1>1. PICK n \in Nat : n = Len(s)
  BY SeqLength
<1>2. <<b>> \in Seq(S) /\ Len(<<b>>) = 1 /\ <<b>>[1] = b
  BY SMTT(60)
<1>3. w \in Seq(S) /\ Len(w) = Len(<<b>>) + Len(s)
  BY <1>2, ConcatAt, SMTT(60)
<1>4. \A j \in 1..Len(<<b>>) : w[j] = <<b>>[j]
  BY <1>2, ConcatAt, SMTT(60)
<1>5. \A j \in 1..Len(s) : w[Len(<<b>>) + j] = s[j]
  BY <1>2, ConcatAt, SMTT(60)
<1> HIDE DEF w
<1>6. DOMAIN w = 1..(n + 1) /\ w[1] = b
  BY <1>1, <1>2, <1>3, <1>4, SeqLength, SMTT(60)
<1>7. DOMAIN s = 1..n /\ \A j \in 1..n : w[1 + j] = s[j]
  BY <1>1, <1>2, <1>5, SeqLength
<1>8. ASSUME NEW j \in 1..(n + 1), j # 1
      PROVE  \E x \in DOMAIN s : j = 1 + x /\ w[j] = s[x]
  <2>1. j - 1 \in DOMAIN s /\ j = 1 + (j - 1)
    BY <1>7, <1>8, SMTT(60)
  <2> QED
    BY <1>7, <2>1
<1>9. IsInjective(w)
  <2> SUFFICES ASSUME NEW i \in 1..(n + 1), NEW j \in 1..(n + 1), w[i] = w[j]
               PROVE  i = j
    BY <1>6 DEF IsInjective
  <2>1. CASE i = 1 \/ j = 1
    BY <1>6, <1>8, <2>1 DEF Range
  <2>2. CASE i # 1 /\ j # 1
    BY <1>8, <2>2, SMTT(60) DEF IsInjective
  <2> QED
    BY <2>1, <2>2
<1>10. Range(w) \subseteq Range(s) \cup {b}
  BY <1>6, <1>8, SMTT(60) DEF Range
<1>11. ASSUME NEW x \in DOMAIN s
       PROVE  s[x] \in Range(w)
  <2>1. 1 + x \in DOMAIN w /\ w[1 + x] = s[x]
    BY <1>6, <1>7, SMTT(60)
  <2> QED
    BY <2>1 DEF Range
<1>12. b \in Range(w)
  <2>1. 1 \in DOMAIN w
    BY <1>6, SMTT(60)
  <2> QED
    BY <1>6, <2>1 DEF Range
<1>13. Range(w) = Range(s) \cup {b}
  BY <1>10, <1>11, <1>12 DEF Range
<1> QED
  BY <1>3, <1>9, <1>13 DEF w

\* vmem_add_to_freelist of a segment that no list holds.
LEMMA PushListed ==
  ASSUME Counting, NEW fl, NEW U, Listed(fl, U), NEW b \in Addresses, NEW n,
         \A t \in U : t.type = "free" => t.base # b
  PROVE  Listed(Push(fl, b, n), U \cup {Segment("free", b, n)})
<1>0. PICK s : s = Segment("free", b, n)
  OBVIOUS
<1>s. s.type = "free" /\ s.base = b /\ s.size = n
  BY <1>0 DEF Segment
<1> DEFINE V == U \cup {s}
<1>1. PICK k \in Buckets : k = Bucket(n)
  BY DEF Counting
<1>2. PICK w : w = <<b>> \o fl[k]
  OBVIOUS
<1>3. fl \in [Buckets -> Seq(Addresses)] /\ Push(fl, b, n) = [fl EXCEPT ![k] = w]
  BY <1>1, <1>2 DEF Listed, Push
<1>4. \A j \in Buckets : IsInjective(fl[j]) /\ Range(fl[j]) = FreeBases(U, j)
  BY DEF Listed
<1>5. fl[k] \in Seq(Addresses) /\ b \notin Range(fl[k])
  BY <1>3, <1>4, SMTT(60) DEF FreeBases
<1>6. w \in Seq(Addresses) /\ IsInjective(w) /\ Range(w) = Range(fl[k]) \cup {b}
  BY <1>2, <1>4, <1>5, PushedOne, SMTT(60)
<1>7. ASSUME NEW j \in Buckets
      PROVE  FreeBases(V, j) = IF j = k THEN FreeBases(U, j) \cup {b} ELSE FreeBases(U, j)
  BY <1>s, <1>1 DEF FreeBases
<1> HIDE DEF V
<1>8. Listed(Push(fl, b, n), V)
  BY <1>3, <1>4, <1>6, <1>7 DEF Listed
<1> QED
  BY <1>0, <1>8 DEF V

\* LIST_REMOVE of a free segment, when no other one has its base.
LEMMA UnlinkListed ==
  ASSUME Counting, NEW fl, NEW U, Listed(fl, U), NEW s \in U, s.type = "free",
         \A t \in U : t.type = "free" /\ t.base = s.base => t = s
  PROVE  Listed(Unlink(fl, s), U \ {s})
<1> DEFINE V == U \ {s}
<1>1. PICK k \in Buckets : k = Bucket(s.size)
  BY DEF Counting
<1>2. PICK w : w = Without(fl[k], s.base)
  OBVIOUS
<1>3. fl \in [Buckets -> Seq(Addresses)] /\ Unlink(fl, s) = [fl EXCEPT ![k] = w]
  BY <1>1, <1>2 DEF Listed, Unlink
<1>4. \A j \in Buckets : IsInjective(fl[j]) /\ Range(fl[j]) = FreeBases(U, j)
  BY DEF Listed
<1>5. fl[k] \in Seq(Addresses) /\ s.base \in Range(fl[k])
  BY <1>1, <1>3, <1>4 DEF FreeBases
<1>6. w \in Seq(Addresses) /\ IsInjective(w) /\ Range(w) = Range(fl[k]) \ {s.base}
  BY <1>2, <1>4, <1>5, WithoutOne, SMTT(60)
<1>7. ASSUME NEW j \in Buckets
      PROVE  FreeBases(V, j) = IF j = k THEN FreeBases(U, j) \ {s.base} ELSE FreeBases(U, j)
  BY <1>1 DEF FreeBases
<1> HIDE DEF V
<1>8. Listed(Unlink(fl, s), V)
  BY <1>3, <1>4, <1>6, <1>7 DEF Listed
<1> QED
  BY <1>8 DEF V

\* Segments that are not free are in no list.
LEMMA ListedSame ==
  ASSUME NEW fl, NEW U, NEW V, Listed(fl, U),
         \A t : t.type = "free" => (t \in U <=> t \in V)
  PROVE  Listed(fl, V)
<1>1. \A k \in Buckets : FreeBases(U, k) = FreeBases(V, k)
  BY DEF FreeBases
<1> QED
  BY <1>1 DEF Listed

\* The set of what FreeFrom makes.
FreeSet(a, b) == IF a = b THEN {} ELSE {Segment("free", a, b - a)}

\* The free segment that PushFrom puts into the lists is the one of FreeFrom.
LEMMA PushFromListed ==
  ASSUME Counting, NEW fl, NEW U, Listed(fl, U), NEW a, NEW b, a # b => a \in Addresses,
         a # b => \A t \in U : t.type = "free" => t.base # a
  PROVE  Listed(PushFrom(fl, a, b), U \cup FreeSet(a, b))
<1>1. CASE a = b
  <2>1. PushFrom(fl, a, b) = fl
    BY <1>1 DEF PushFrom
  <2>2. U \cup FreeSet(a, b) = U
    BY <1>1 DEF FreeSet
  <2> QED
    BY <2>1, <2>2
<1>2. CASE a # b
  <2>1. PushFrom(fl, a, b) = Push(fl, a, b - a)
    BY <1>2 DEF PushFrom
  <2>2. Listed(Push(fl, a, b - a), U \cup {Segment("free", a, b - a)})
    BY <1>2, PushListed
  <2>3. FreeSet(a, b) = {Segment("free", a, b - a)}
    BY <1>2 DEF FreeSet
  <2> QED
    BY <2>1, <2>2, <2>3
<1> QED
  BY <1>1, <1>2

-----------------------------------------------------------------------------
(* Addresses in use.                                                       *)

\* An aligned start lies at or above the base.
LEMMA AlignUpAbove ==
  ASSUME NEW n \in Nat, NEW align \in Nat \ {0}
  PROVE  AlignUp(n, align) \in Nat /\ AlignUp(n, align) >= n
<1>1. PICK x \in Int : x = n + align - 1
  BY SMTT(60)
<1>2. PICK y : y = x \div align
  OBVIOUS
<1>3. PICK z : z = x % align
  OBVIOUS
<1>4. y \in Int /\ z \in 0..(align - 1) /\ x = align * y + z
  BY <1>1, <1>2, <1>3, SMTT(60)
<1>5. AlignUp(n, align) = y * align
  BY <1>1, <1>2 DEF AlignUp
<1>6. y * align = align * y /\ align * y \in Int
  BY <1>4, SMTT(60)
<1>7. align * y >= n
  BY <1>1, <1>4, <1>6, SMTT(60)
<1> QED
  BY <1>5, <1>6, <1>7, SMTT(60)

Covered(H) == UNION {h[1]..(h[1] + h[2] - 1) : h \in H}

\* A range that overlaps none in use adds its size to the addresses in use.
LEMMA CoveredMore ==
  ASSUME Counting, NEW H, Covered(H) \subseteq Addresses, NEW b \in Nat, NEW n \in Nat \ {0},
         b..(b + n - 1) \subseteq Addresses,
         \A h \in H : (h[1]..(h[1] + h[2] - 1)) \cap (b..(b + n - 1)) = {}
  PROVE  /\ Cardinality(Covered(H \cup {<<b, n>>})) = Cardinality(Covered(H)) + n
         /\ Cardinality(Covered(H)) \in Nat
<1> DEFINE C == Covered(H)
           R == b..(b + n - 1)
<1>1. Covered(H \cup {<<b, n>>}) = C \cup R
  <2>1. PICK g : g = <<b, n>>
    OBVIOUS
  <2>2. g[1]..(g[1] + g[2] - 1) = R
    BY <2>1
  <2>3. Covered(H \cup {g}) = C \cup (g[1]..(g[1] + g[2] - 1))
    BY DEF Covered
  <2> QED
    BY <2>1, <2>2, <2>3
<1>2. C \cap R = {}
  BY DEF Covered
<1> HIDE DEF C
<1>3. /\ Cardinality(C \cup (b..(b + n - 1))) = Cardinality(C) + n
      /\ Cardinality(C) \in Nat
  BY <1>2 DEF Counting, C
<1> QED
  BY <1>1, <1>3 DEF C

\* A range that goes back takes its size off.
LEMMA CoveredLess ==
  ASSUME Counting, NEW H, Covered(H) \subseteq Addresses, NEW b \in Nat, NEW n \in Nat \ {0},
         <<b, n>> \in H,
         \A h \in H \ {<<b, n>>} : (h[1]..(h[1] + h[2] - 1)) \cap (b..(b + n - 1)) = {}
  PROVE  /\ Cardinality(Covered(H)) = Cardinality(Covered(H \ {<<b, n>>})) + n
         /\ Cardinality(Covered(H \ {<<b, n>>})) \in Nat
<1>1. PICK G : G = H \ {<<b, n>>}
  OBVIOUS
<1>2. G \cup {<<b, n>>} = H
  BY <1>1
<1>3. Covered(G) \subseteq Addresses /\ b..(b + n - 1) \subseteq Addresses
  BY <1>1, SMTT(60) DEF Covered
<1>4. \A h \in G : (h[1]..(h[1] + h[2] - 1)) \cap (b..(b + n - 1)) = {}
  BY <1>1
<1>5. /\ Cardinality(Covered(G \cup {<<b, n>>})) = Cardinality(Covered(G)) + n
      /\ Cardinality(Covered(G)) \in Nat
  BY <1>3, <1>4, CoveredMore
<1> QED
  BY <1>1, <1>2, <1>5

-----------------------------------------------------------------------------
(* Segments that fill the place of others.                                 *)

\* The segments of new fill the addresses from lo to hi.
Fills(new, lo, hi) ==
  /\ new \in Seq(Bounded) /\ Len(new) \in Nat \ {0}
  /\ \A j \in 1..Len(new) : ~IsSpan(new[j]) /\ lo <= new[j].base /\ End(new[j]) <= hi
  /\ new[1].base = lo /\ End(new[Len(new)]) = hi
  /\ \A j \in 1..(Len(new) - 1) : End(new[j]) = new[j + 1].base
  /\ \A j, k \in 1..Len(new) : j < k => Apart(new[j], new[k])

\* What vmem_xalloc makes of the free segment s.
Pieces(s, start, n) ==
  FreeFrom(s.base, start) \o <<Segment("allocated", start, n)>> \o FreeFrom(start + n, End(s))

\* A segment within a segment is one.
LEMMA SegmentIn ==
  ASSUME NEW s \in Bounded, NEW a \in Nat, NEW b \in Nat, s.base <= a, a < b, b <= End(s),
         NEW ty \in {"free", "allocated"}, NEW x, x = Segment(ty, a, b - a)
  PROVE  /\ x \in Bounded /\ x.type = ty /\ x.base = a /\ x.size = b - a /\ End(x) = b
         /\ ~IsSpan(x)
<1>1. s \in Segs /\ End(s) <= SpanSize /\ SpanSize \in Nat
  BY ArenaAssumption DEF Bounded
<1>2. s.base \in Nat /\ End(s) \in Nat
  BY <1>1, SegTypes
<1>3. x.type = ty /\ x.base = a /\ x.size = b - a
  BY DEF Segment
<1>4. End(x) = b
  BY <1>3, SMTT(60) DEF End
<1>5. a \in Addresses /\ b - a \in 1..SpanSize
  BY <1>1, <1>2, SMTT(60) DEF Addresses
<1>6. x \in Segs
  BY <1>5 DEF Segs, Segment
<1> QED
  BY <1>1, <1>2, <1>3, <1>4, <1>6, SMTT(60) DEF Bounded, IsSpan

\* Two and three segments in a row.
LEMMA Joined ==
  ASSUME NEW S, NEW x \in S, NEW y \in S, NEW z \in S
  PROVE  <<x>> \o <<y>> = <<x, y>> /\ <<x, y>> \o <<z>> = <<x, y, z>>
<1>1. <<x>> \o <<y>> = <<x, y>>
  <2>1. <<x>> \in Seq(S) /\ <<y>> \in Seq(S) /\ <<x, y>> \in Seq(S)
    BY SMTT(60)
  <2>2. Len(<<x>>) = 1 /\ Len(<<y>>) = 1 /\ <<x>>[1] = x /\ <<y>>[1] = y
    OBVIOUS
  <2>3. PICK v : v = <<x>> \o <<y>>
    OBVIOUS
  <2>4. v \in Seq(S) /\ Len(v) = Len(<<x>>) + Len(<<y>>)
    BY <2>1, <2>3, ConcatAt
  <2>5. \A j \in 1..Len(<<x>>) : v[j] = <<x>>[j]
    BY <2>1, <2>3, ConcatAt, SMTT(60)
  <2>6. \A j \in 1..Len(<<y>>) : v[Len(<<x>>) + j] = <<y>>[j]
    BY <2>1, <2>3, ConcatAt, SMTT(60)
  <2>a. v[1] = x
    BY <2>2, <2>5, SMTT(60)
  <2>b. v[Len(<<x>>) + 1] = y
    BY <2>2, <2>6, SMTT(60)
  <2>7. Len(v) = 2 /\ v[1] = x /\ v[2] = y
    BY <2>2, <2>4, <2>a, <2>b, SMTT(60)
  <2>8. PICK w : w = <<x, y>>
    OBVIOUS
  <2>9. w \in Seq(S) /\ Len(w) = 2 /\ w[1] = x /\ w[2] = y
    BY <2>8, SMTT(60)
  <2>10. \A j \in 1..Len(v) : v[j] = w[j]
    BY <2>7, <2>9, SMTT(60)
  <2>11. v = w
    BY <2>4, <2>7, <2>9, <2>10, SeqSame
  <2> QED
    BY <2>3, <2>8, <2>11
<1>2. <<x, y>> \o <<z>> = <<x, y, z>>
  <2>1. PICK u : u = <<x, y>>
    OBVIOUS
  <2>2. u \in Seq(S) /\ Len(u) = 2 /\ u[1] = x /\ u[2] = y
    BY <2>1, SMTT(60)
  <2>3. <<z>> \in Seq(S) /\ Len(<<z>>) = 1 /\ <<z>>[1] = z
    BY SMTT(60)
  <2>4. PICK v : v = u \o <<z>>
    OBVIOUS
  <2>5. v \in Seq(S) /\ Len(v) = Len(u) + Len(<<z>>)
    BY <2>2, <2>3, <2>4, ConcatAt, SMTT(60)
  <2>6. \A j \in 1..Len(u) : v[j] = u[j]
    BY <2>2, <2>3, <2>4, ConcatAt, SMTT(60)
  <2>7. \A j \in 1..Len(<<z>>) : v[Len(u) + j] = <<z>>[j]
    BY <2>2, <2>3, <2>4, ConcatAt, SMTT(60)
  <2>8. Len(v) = 3 /\ v[1] = x /\ v[2] = y /\ v[3] = z
    BY <2>2, <2>3, <2>5, <2>6, <2>7, SMTT(60)
  <2>9. PICK w : w = <<x, y, z>>
    OBVIOUS
  <2>10. w \in Seq(S) /\ Len(w) = 3 /\ w[1] = x /\ w[2] = y /\ w[3] = z
    BY <2>9, SMTT(60)
  <2>11. \A j \in 1..Len(v) : v[j] = w[j]
    BY <2>8, <2>10, SMTT(60)
  <2>12. v = w
    BY <2>5, <2>8, <2>10, <2>11, SeqSame
  <2> QED
    BY <2>1, <2>4, <2>9, <2>12
<1> QED
  BY <1>1, <1>2

\* The split segment: what lies before the range, the range and what is left
\* fill it, are not free side by side, and only the first of them starts at its
\* base.
LEMMA PiecesFill ==
  ASSUME NEW s \in Bounded, NEW start \in Nat, NEW n \in Nat \ {0},
         s.base <= start, start + n <= End(s),
         NEW new, new = Pieces(s, start, n)
  PROVE  /\ Fills(new, s.base, End(s))
         /\ \A j \in 1..(Len(new) - 1) : ~(new[j].type = "free" /\ new[j + 1].type = "free")
         /\ new[1].type = "allocated" \/ End(new[1]) < End(s)
         /\ Part(new, 1..Len(new))
              = {Segment("allocated", start, n)} \cup FreeSet(s.base, start) \cup FreeSet(start + n, End(s))
         /\ Len(new) = 1 + KeptTags(FreeFrom(s.base, start), FreeFrom(start + n, End(s)))
<1>1. s \in Segs /\ End(s) <= SpanSize /\ SpanSize \in Nat
  BY ArenaAssumption DEF Bounded
<1>2. s.base \in Nat /\ End(s) \in Nat /\ s.base < End(s)
  BY <1>1, SegTypes
<1>3. PICK x : x = Segment("free", s.base, start - s.base)
  OBVIOUS
<1>4. PICK y : y = Segment("allocated", start, n)
  OBVIOUS
<1>5. PICK z : z = Segment("free", start + n, End(s) - (start + n))
  OBVIOUS
<1>6. /\ y \in Bounded /\ y.type = "allocated" /\ y.base = start /\ End(y) = start + n
      /\ ~IsSpan(y)
  <2>1. y = Segment("allocated", start, (start + n) - start) /\ start < start + n /\ start + n \in Nat
    BY <1>4, SMTT(60)
  <2> QED
    BY <2>1, SegmentIn, SMTT(60)
<1>7. ASSUME s.base # start
      PROVE  /\ x \in Bounded /\ x.type = "free" /\ x.base = s.base /\ End(x) = start
             /\ ~IsSpan(x) /\ s.base < start
  <2>1. s.base < start /\ start <= End(s)
    BY <1>2, <1>7, SMTT(60)
  <2> QED
    BY <1>2, <1>3, <2>1, SegmentIn, SMTT(60)
<1>8. ASSUME start + n # End(s)
      PROVE  /\ z \in Bounded /\ z.type = "free" /\ z.base = start + n /\ End(z) = End(s)
             /\ ~IsSpan(z) /\ start + n < End(s)
  <2>1. start + n < End(s) /\ s.base <= start + n /\ start + n \in Nat
    BY <1>2, <1>8, SMTT(60)
  <2> QED
    BY <1>2, <1>5, <2>1, SegmentIn, SMTT(60)
<1>9. CASE s.base = start /\ start + n = End(s)
  <2>1. FreeFrom(s.base, start) = <<>> /\ FreeFrom(start + n, End(s)) = <<>>
    BY <1>9 DEF FreeFrom
  <2>2. new = <<y>>
    <3>1. <<>> \o <<y>> \o <<>> = <<y>>
      BY SMTT(60)
    <3> QED
      BY <1>4, <2>1, <3>1 DEF Pieces
  <2>3. FreeSet(s.base, start) = {} /\ FreeSet(start + n, End(s)) = {}
    BY <1>9 DEF FreeSet
  <2>4. Len(new) = 1 /\ new[1] = y /\ new \in Seq(Bounded)
    BY <1>6, <2>2, SMTT(60)
  <2>5. Fills(new, s.base, End(s))
    BY <1>6, <1>9, <2>4, SMTT(60) DEF Fills
  <2>6. Part(new, 1..Len(new)) = {y}
    BY <2>4, SMTT(60) DEF Part
  <2>7. Len(new) = 1 + KeptTags(FreeFrom(s.base, start), FreeFrom(start + n, End(s)))
    BY <2>1, <2>4, SMTT(60) DEF KeptTags
  <2> QED
    BY <1>4, <1>6, <2>3, <2>4, <2>5, <2>6, <2>7, SMTT(60)
<1>10. CASE s.base # start /\ start + n = End(s)
  <2>1. FreeFrom(s.base, start) = <<x>> /\ FreeFrom(start + n, End(s)) = <<>>
    BY <1>3, <1>10 DEF FreeFrom
  <2>2. new = <<x, y>>
    <3>1. <<x>> \o <<y>> = <<x, y>>
      BY <1>6, <1>7, <1>10, Joined
    <3>2. <<x, y>> \o <<>> = <<x, y>>
      BY <1>6, <1>7, <1>10, ConcatEmpty, SMTT(60)
    <3> QED
      BY <1>4, <2>1, <3>1, <3>2 DEF Pieces
  <2>3. FreeSet(s.base, start) = {x} /\ FreeSet(start + n, End(s)) = {}
    BY <1>3, <1>10 DEF FreeSet
  <2>4. Len(new) = 2 /\ new[1] = x /\ new[2] = y /\ new \in Seq(Bounded)
    BY <1>6, <1>7, <1>10, <2>2, SMTT(60)
  <2>5. Fills(new, s.base, End(s))
    BY <1>2, <1>6, <1>7, <1>10, <2>4, SMTT(60) DEF Fills, Apart
  <2>6. Part(new, 1..Len(new)) = {x, y}
    BY <2>4, SMTT(60) DEF Part
  <2>7. Len(new) = 1 + KeptTags(FreeFrom(s.base, start), FreeFrom(start + n, End(s)))
    BY <2>1, <2>4, SMTT(60) DEF KeptTags
  <2>8. End(new[1]) < End(s)
    BY <1>2, <1>7, <1>10, <2>4, SMTT(60)
  <2>9. \A j \in 1..(Len(new) - 1) : ~(new[j].type = "free" /\ new[j + 1].type = "free")
    BY <1>6, <2>4, SMTT(60)
  <2>10. new[1].type = "allocated" \/ End(new[1]) < End(s)
    BY <2>8
  <2> QED
    BY <1>4, <2>3, <2>5, <2>6, <2>7, <2>9, <2>10
<1>11. CASE s.base = start /\ start + n # End(s)
  <2>1. FreeFrom(s.base, start) = <<>> /\ FreeFrom(start + n, End(s)) = <<z>>
    BY <1>5, <1>11 DEF FreeFrom
  <2>2. new = <<y, z>>
    <3>1. <<y>> \o <<z>> = <<y, z>>
      BY <1>6, <1>8, <1>11, Joined
    <3>2. <<>> \o <<y>> = <<y>>
      BY SMTT(60)
    <3> QED
      BY <1>4, <2>1, <3>1, <3>2 DEF Pieces
  <2>3. FreeSet(s.base, start) = {} /\ FreeSet(start + n, End(s)) = {z}
    BY <1>5, <1>11 DEF FreeSet
  <2>4. Len(new) = 2 /\ new[1] = y /\ new[2] = z /\ new \in Seq(Bounded)
    BY <1>6, <1>8, <1>11, <2>2, SMTT(60)
  <2>5. Fills(new, s.base, End(s))
    BY <1>2, <1>6, <1>8, <1>11, <2>4, SMTT(60) DEF Fills, Apart
  <2>6. Part(new, 1..Len(new)) = {y, z}
    BY <2>4, SMTT(60) DEF Part
  <2>7. Len(new) = 1 + KeptTags(FreeFrom(s.base, start), FreeFrom(start + n, End(s)))
    <3>1. KeptTags(<<>>, <<z>>) = 1
      BY SMTT(60) DEF KeptTags
    <3> QED
      BY <2>1, <2>4, <3>1, SMTT(60)
  <2>9. \A j \in 1..(Len(new) - 1) : ~(new[j].type = "free" /\ new[j + 1].type = "free")
    BY <1>6, <2>4, SMTT(60)
  <2>10. new[1].type = "allocated" \/ End(new[1]) < End(s)
    BY <1>6, <2>4
  <2> QED
    BY <1>4, <2>3, <2>5, <2>6, <2>7, <2>9, <2>10
<1>12. CASE s.base # start /\ start + n # End(s)
  <2>1. FreeFrom(s.base, start) = <<x>> /\ FreeFrom(start + n, End(s)) = <<z>>
    BY <1>3, <1>5, <1>12 DEF FreeFrom
  <2>2. new = <<x, y, z>>
    <3>1. <<x>> \o <<y>> = <<x, y>> /\ <<x, y>> \o <<z>> = <<x, y, z>>
      BY <1>6, <1>7, <1>8, <1>12, Joined, SMTT(60)
    <3> QED
      BY <1>4, <2>1, <3>1 DEF Pieces
  <2>3. FreeSet(s.base, start) = {x} /\ FreeSet(start + n, End(s)) = {z}
    BY <1>3, <1>5, <1>12 DEF FreeSet
  <2>4. Len(new) = 3 /\ new[1] = x /\ new[2] = y /\ new[3] = z /\ new \in Seq(Bounded)
    BY <1>6, <1>7, <1>8, <1>12, <2>2, SMTT(60)
  <2>5. Fills(new, s.base, End(s))
    BY <1>2, <1>6, <1>7, <1>8, <1>12, <2>4, SMTT(60) DEF Fills, Apart
  <2>6. Part(new, 1..Len(new)) = {x, y, z}
    BY <2>4, SMTT(60) DEF Part
  <2>7. Len(new) = 1 + KeptTags(FreeFrom(s.base, start), FreeFrom(start + n, End(s)))
    <3>1. KeptTags(<<x>>, <<z>>) = 2
      BY SMTT(60) DEF KeptTags
    <3> QED
      BY <2>1, <2>4, <3>1, SMTT(60)
  <2>8. End(new[1]) < End(s)
    BY <1>2, <1>7, <1>12, <2>4, SMTT(60)
  <2>9. \A j \in 1..(Len(new) - 1) : ~(new[j].type = "free" /\ new[j + 1].type = "free")
    BY <1>6, <2>4, SMTT(60)
  <2>10. new[1].type = "allocated" \/ End(new[1]) < End(s)
    BY <2>8
  <2> QED
    BY <1>4, <2>3, <2>5, <2>6, <2>7, <2>9, <2>10
<1> QED
  BY <1>9, <1>10, <1>11, <1>12

\* The segments of new stand in r from a on.
StandAt(r, new, a) ==
  /\ \A j \in 1..Len(new) : r[a - 1 + j] = new[j]
  /\ \A i \in a..(a + Len(new) - 1) : \E j \in 1..Len(new) : r[i] = new[j] /\ i = a - 1 + j

\* What Replaced keeps, and where it puts the new segments.
LEMMA KeptReplaced ==
  ASSUME NEW S, NEW q \in Seq(S), NEW new \in Seq(S), NEW a \in Nat \ {0}, NEW b \in Nat,
         a <= b, b <= Len(q), NEW r, r = Replaced(q, a, b, new), NEW m, m = Len(new)
  PROVE  /\ r \in Seq(S)
         /\ Kept(q, r, Len(q), Len(r), a, b, a + m, b + 1 - (a + m))
         /\ StandAt(r, new, a)
<1> DEFINE x == SubSeq(q, 1, a - 1)
           y == SubSeq(q, b + 1, Len(q))
           z == x \o new
<1>1. Len(q) \in Nat /\ Len(new) \in Nat /\ \A j \in 1..Len(q) : q[j] \in S
  BY SeqLength, SeqElement
<1>2. x \in Seq(S) /\ Len(x) = a - 1 /\ \A j \in 1..(a - 1) : x[j] = q[j]
  BY <1>1, SubSeqAt, SMTT(60)
<1>3. y \in Seq(S) /\ Len(y) = Len(q) - b /\ \A j \in 1..(Len(q) - b) : y[j] = q[b + j]
  BY <1>1, SubSeqAt, SMTT(60)
<1> HIDE DEF x, y
<1>4. /\ z \in Seq(S) /\ Len(z) = Len(x) + Len(new)
      /\ \A j \in 1..Len(x) : z[j] = x[j]
      /\ \A j \in 1..Len(new) : z[Len(x) + j] = new[j]
  <2>1. x \in Seq(S)
    BY <1>2
  <2>2. z \in Seq(S) /\ Len(z) = Len(x) + Len(new)
    BY <2>1, ConcatAt
  <2>3. \A j \in 1..Len(x) : z[j] = x[j]
    BY <2>1, ConcatAt, SMTT(60)
  <2>4. \A j \in 1..Len(new) : z[Len(x) + j] = new[j]
    BY <2>1, ConcatAt, SMTT(60)
  <2> QED
    BY <2>2, <2>3, <2>4
<1>5. r = z \o y
  BY DEF Replaced, x, y, z
<1> HIDE DEF z
<1>6. /\ r \in Seq(S) /\ Len(r) = Len(z) + Len(y)
      /\ \A j \in 1..Len(z) : r[j] = z[j]
      /\ \A j \in 1..Len(y) : r[Len(z) + j] = y[j]
  <2>1. z \in Seq(S) /\ y \in Seq(S)
    BY <1>3, <1>4
  <2>2. r \in Seq(S) /\ Len(r) = Len(z) + Len(y)
    BY <1>5, <2>1, ConcatAt
  <2>3. \A j \in 1..Len(z) : r[j] = z[j]
    BY <1>5, <2>1, ConcatAt, SMTT(60)
  <2>4. \A j \in 1..Len(y) : r[Len(z) + j] = y[j]
    BY <1>5, <2>1, ConcatAt, SMTT(60)
  <2> QED
    BY <2>2, <2>3, <2>4
<1>7. Len(r) = (a - 1) + Len(new) + (Len(q) - b)
  BY <1>1, <1>2, <1>3, <1>4, <1>6
<1>8. \A j \in 1..(a - 1) : r[j] = q[j]
  BY <1>1, <1>2, <1>4, <1>6, SMTT(60)
<1>9. ASSUME NEW j \in 1..Len(new)
      PROVE  r[a - 1 + j] = new[j]
  <2>1. a - 1 + j \in 1..Len(z)
    BY <1>1, <1>2, <1>4, SMTT(60)
  <2>2. z[a - 1 + j] = new[j]
    BY <1>2, <1>4
  <2> QED
    BY <1>6, <2>1, <2>2
<1>10. ASSUME NEW j \in 1..(Len(q) - b)
       PROVE  r[a - 1 + Len(new) + j] = q[b + j]
  <2>1. j \in 1..Len(y) /\ Len(z) + j = a - 1 + Len(new) + j
    BY <1>1, <1>2, <1>3, <1>4
  <2> QED
    BY <1>3, <1>6, <2>1
<1>11. PICK n \in Nat : n = Len(q)
  BY <1>1
<1>12. m \in Nat
  BY <1>1
<1>13. PICK l \in Nat : l = Len(r) /\ l = (a - 1) + m + (n - b)
  <2>1. Len(r) = (a - 1) + m + (n - b)
    BY <1>7, <1>11
  <2>2. (a - 1) + m + (n - b) \in Nat
    BY <1>11, <1>12, SMTT(60)
  <2> QED
    BY <2>1, <2>2
<1>14. ASSUME NEW i \in a..(a + m - 1)
       PROVE  \E j \in 1..m : r[i] = new[j] /\ i = a - 1 + j
  <2>1. PICK j \in 1..m : i = a - 1 + j
    <3>1. i - (a - 1) \in 1..m /\ i = a - 1 + (i - (a - 1))
      BY <1>12, SMTT(60)
    <3> QED
      BY <3>1
  <2>2. r[a - 1 + j] = new[j]
    BY <1>9
  <2> QED
    BY <2>1, <2>2
<1>15. ASSUME NEW i \in (a + m)..l
       PROVE  r[i] = q[i + (b + 1 - (a + m))]
  <2>1. PICK j \in 1..(n - b) : i = a - 1 + m + j /\ i + (b + 1 - (a + m)) = b + j
    <3>1. i - (a - 1 + m) \in 1..(n - b) /\ i = a - 1 + m + (i - (a - 1 + m))
          /\ i + (b + 1 - (a + m)) = b + (i - (a - 1 + m))
      BY <1>11, <1>12, <1>13, SMTT(60)
    <3> QED
      BY <3>1
  <2>2. r[a - 1 + m + j] = q[b + j]
    BY <1>10, <1>11
  <2> QED
    BY <2>1, <2>2
<1>16. Kept(q, r, n, l, a, b, a + m, b + 1 - (a + m))
  BY <1>8, <1>11, <1>12, <1>13, <1>15, SMTT(60) DEF Kept
<1>17. StandAt(r, new, a)
  BY <1>9, <1>14 DEF StandAt
<1> QED
  BY <1>6, <1>11, <1>13, <1>16, <1>17

\* The segments from a to b lie between lo and hi, and no other one does.
Hull(q, a, b) ==
  /\ a \in Nat \ {0} /\ b \in Nat /\ a <= b /\ b <= Len(q)
  /\ \A i \in a..b : ~IsSpan(q[i])
  /\ \A k \in 1..Len(q) : k \notin a..b /\ ~IsSpan(q[k]) =>
       End(q[k]) <= q[a].base \/ End(q[b]) <= q[k].base

\* A queue stays tiled and disjoint when new segments fill the place of old ones.
LEMMA QueueFilled ==
  ASSUME NEW q \in Seq(Bounded), Tiled(q), Disjoint(q), NEW a, NEW b, Hull(q, a, b),
         NEW new, Fills(new, q[a].base, End(q[b])), NEW r, r = Replaced(q, a, b, new)
  PROVE  Tiled(r) /\ Disjoint(r)
<1>1. /\ a \in Nat \ {0} /\ b \in Nat /\ a <= b /\ b <= Len(q)
      /\ \A i \in a..b : ~IsSpan(q[i])
  BY DEF Hull
<1>2. \A k \in 1..Len(q) : k \notin a..b /\ ~IsSpan(q[k]) =>
        End(q[k]) <= q[a].base \/ End(q[b]) <= q[k].base
  BY DEF Hull
<1>3. PICK m \in Nat \ {0} : m = Len(new)
  BY DEF Fills
<1>4. /\ new \in Seq(Bounded) /\ new[1].base = q[a].base /\ End(new[m]) = End(q[b])
      /\ \A j \in 1..m : ~IsSpan(new[j]) /\ q[a].base <= new[j].base /\ End(new[j]) <= End(q[b])
  BY <1>3 DEF Fills
<1>5. \A j \in 1..(m - 1) : End(new[j]) = new[j + 1].base
  BY <1>3 DEF Fills
<1>6. \A j, k \in 1..m : j < k => Apart(new[j], new[k])
  BY <1>3 DEF Fills
<1>7. PICK c \in Nat : c = a + m
  BY <1>1, <1>3, SMTT(60)
<1>8. PICK d \in Int : d = b + 1 - c
  BY <1>1, <1>7, SMTT(60)
<1>9. r \in Seq(Bounded) /\ Kept(q, r, Len(q), Len(r), a, b, a + m, b + 1 - (a + m))
  BY <1>1, <1>3, <1>4, KeptReplaced
<1>10. StandAt(r, new, a)
  BY <1>1, <1>3, <1>4, KeptReplaced
<1>11. \A j \in 1..m : r[a - 1 + j] = new[j]
  BY <1>3, <1>10 DEF StandAt
<1>12. PICK n \in Nat : n = Len(q)
  BY SeqLength
<1>13. PICK l \in Nat : l = Len(r)
  BY <1>9, SeqLength
<1>14. Kept(q, r, n, l, a, b, c, d)
  BY <1>7, <1>8, <1>9, <1>12, <1>13
<1>15. l = n - d /\ a < c
  BY <1>1, <1>3, <1>7, <1>14, SMTT(60) DEF Kept
<1>16. \A i \in a..(c - 1) : \E j \in 1..m : r[i] = new[j] /\ i = a - 1 + j
  <2>1. a..(c - 1) = a..(a + m - 1)
    BY <1>1, <1>7, SMTT(60)
  <2> QED
    BY <1>3, <1>10, <2>1 DEF StandAt
<1>17. (\A i \in 1..n : q[i] \in Segs) /\ (\A i \in 1..l : r[i] \in Segs)
  BY <1>9, <1>12, <1>13, SeqElement DEF Bounded
<1>18. Filled(q, r, a, b, c)
  <2>2. \A i \in a..(c - 1) : /\ ~IsSpan(r[i])
                              /\ q[a].base <= r[i].base /\ End(r[i]) <= End(q[b])
    BY <1>4, <1>16
  <2>3. r[a].base = q[a].base
    <3>1. 1 \in 1..m /\ a - 1 + 1 = a
      BY <1>1, <1>3, SMTT(60)
    <3>2. r[a - 1 + 1] = new[1]
      BY <1>11, <3>1
    <3> QED
      BY <1>4, <3>1, <3>2
  <2>4. End(r[c - 1]) = End(q[b])
    <3>1. m \in 1..m /\ a - 1 + m = c - 1
      BY <1>1, <1>3, <1>7, SMTT(60)
    <3>2. r[a - 1 + m] = new[m]
      BY <1>11, <3>1
    <3> QED
      BY <1>4, <3>1, <3>2
  <2>5. ASSUME NEW i \in a..(c - 2)
        PROVE  End(r[i]) = r[i + 1].base
    <3>1. PICK j \in 1..(m - 1) : i = a - 1 + j /\ i + 1 = a - 1 + (j + 1) /\ j + 1 \in 1..m /\ j \in 1..m
      <4>1. i - (a - 1) \in 1..(m - 1) /\ i = a - 1 + (i - (a - 1))
        BY <1>1, <1>3, <1>7, SMTT(60)
      <4> QED
        BY <1>1, <1>3, <4>1, SMTT(60)
    <3>2. r[a - 1 + j] = new[j]
      BY <1>11, <3>1
    <3>3. r[a - 1 + (j + 1)] = new[j + 1]
      BY <1>11, <3>1
    <3>4. End(new[j]) = new[j + 1].base
      BY <1>5
    <3> QED
      BY <3>1, <3>2, <3>3, <3>4
  <2> QED
    BY <1>1, <1>12, <1>13, <1>17, <2>2, <2>3, <2>4, <2>5 DEF Filled
<1>19. Tiled(r)
  BY <1>14, <1>15, <1>18, TiledFilled
<1>20. Fresh(q, r, a, b, c)
  <2> SUFFICES ASSUME NEW i \in a..(c - 1)
               PROVE  /\ ~IsSpan(r[i])
                      /\ \A j \in a..(c - 1) : i # j => Apart(r[i], r[j])
                      /\ \A k \in 1..Len(q) : k \notin a..b /\ ~IsSpan(q[k]) => Apart(r[i], q[k])
    BY DEF Fresh
  <2>1. PICK x \in 1..m : r[i] = new[x] /\ i = a - 1 + x
    BY <1>16
  <2>2. ASSUME NEW j \in a..(c - 1), i # j
        PROVE  Apart(r[i], r[j])
    <3>1. PICK y \in 1..m : r[j] = new[y] /\ j = a - 1 + y
      BY <1>16
    <3>2. x < y \/ y < x
      BY <1>1, <2>1, <2>2, <3>1, SMTT(60)
    <3> QED
      BY <1>6, <2>1, <3>1, <3>2, ApartSymmetric
  <2>3. ASSUME NEW k \in 1..Len(q), k \notin a..b, ~IsSpan(q[k])
        PROVE  Apart(r[i], q[k])
    <3>1. End(q[k]) <= q[a].base \/ End(q[b]) <= q[k].base
      BY <1>2, <2>3
    <3>2. q[a].base <= r[i].base /\ End(r[i]) <= End(q[b])
      BY <1>4, <2>1
    <3>3. /\ q[a].base \in Nat /\ r[i].base \in Nat /\ q[k].base \in Nat
          /\ End(q[k]) \in Nat /\ End(q[b]) \in Nat /\ End(r[i]) \in Nat
      <4>1. q[a] \in Segs /\ q[b] \in Segs /\ q[k] \in Segs
        BY <1>1, <1>12, <1>17, SMTT(60)
      <4>2. r[i] \in Segs
        BY <1>4, <2>1, <1>3, SeqElement, SMTT(60) DEF Bounded
      <4> QED
        BY <4>1, <4>2, SegTypes
    <3>4. \A x1, y1, z1 \in Nat : x1 <= y1 /\ y1 <= z1 => x1 <= z1
      BY SMTT(60)
    <3> QED
      BY <3>1, <3>2, <3>3, <3>4 DEF Apart
  <2> QED
    BY <1>4, <2>1, <2>2, <2>3
<1>21. Disjoint(r)
  BY <1>14, <1>20, DisjointReplaced
<1> QED
  BY <1>19, <1>21

=============================================================================
