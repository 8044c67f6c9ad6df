----------------------------- MODULE VmemProofs -----------------------------
(***************************************************************************)
(* An arena of any size, for any sizes and alignments: the segments of     *)
(* every span tile it, the free lists hold the free segments and nothing   *)
(* else, an imported span is given back when it becomes free, and no range *)
(* is handed out that overlaps one in use.                                 *)
(***************************************************************************)
EXTENDS VmemQueues

\* Steps are by Zenon, but those that cite the SMT solver.
USE ZenonT(60)

-----------------------------------------------------------------------------
(* The inductive invariant.                                                *)

QueueOK ==
  /\ segq \in Seq(Bounded)
  /\ Tiled(segq) /\ Coalesced(segq) /\ Disjoint(segq)
  /\ hasSource => InUse(segq)

\* What the callers have is what is marked as allocated.
Allocated(U) == {<<s.base, s.size>> : s \in {t \in U : t.type = "allocated"}}
HeldOK == held = Allocated(Range(segq))

IInv == TypeOK /\ QueueOK /\ HeldOK /\ FreeListsExact

-----------------------------------------------------------------------------
(* What the invariant says of the segments.                                *)

\* No two places of a queue hold the same segment.
LEMMA DisjointInjective ==
  ASSUME NEW q \in Seq(Bounded), Disjoint(q)
  PROVE  \A i, j \in 1..Len(q) : q[i] = q[j] => i = j
<1> SUFFICES ASSUME NEW i \in 1..Len(q), NEW j \in 1..Len(q), q[i] = q[j], i # j
             PROVE  FALSE
  OBVIOUS
<1>1. Apart(q[i], q[i])
  BY DEF Disjoint
<1>2. q[i] \in Segs
  BY SeqElement DEF Bounded
<1>3. q[i].base \in Nat /\ End(q[i]) \in Nat /\ q[i].base < End(q[i])
  BY <1>2, SegTypes
<1> QED
  BY <1>1, <1>3, SMTT(60) DEF Apart

\* Taking segments out of a queue takes them out of its set.
LEMMA RangeMinus ==
  ASSUME NEW q \in Seq(Bounded), Disjoint(q), NEW a \in Nat \ {0}, NEW b \in Nat,
         b <= Len(q)
  PROVE  Part(q, (1..Len(q)) \ (a..b)) = Range(q) \ Part(q, a..b)
<1>1. \A i, j \in 1..Len(q) : q[i] = q[j] => i = j
  BY DisjointInjective
<1>2. Len(q) \in Nat /\ DOMAIN q = 1..Len(q)
  BY SeqLength
<1>3. \A k \in a..b : k \in 1..Len(q)
  BY <1>2, SMTT(60)
<1>4. Range(q) = {q[k] : k \in 1..Len(q)}
  BY <1>2 DEF Range
<1> QED
  BY <1>1, <1>3, <1>4, SMTT(60) DEF Part

\* The queue and its segments.
LEMMA QueueFacts ==
  ASSUME IInv
  PROVE  /\ segq \in Seq(Bounded) /\ Tiled(segq) /\ Coalesced(segq) /\ Disjoint(segq)
         /\ Len(segq) \in Nat /\ DOMAIN segq = 1..Len(segq)
         /\ \A i \in 1..Len(segq) : segq[i] \in Bounded /\ segq[i] \in Range(segq)
         /\ Range(segq) \subseteq Bounded
         /\ Listed(freelist, Range(segq))
<1>1. segq \in Seq(Bounded) /\ Tiled(segq) /\ Coalesced(segq) /\ Disjoint(segq)
  BY DEF IInv, QueueOK
<1>2. Len(segq) \in Nat /\ DOMAIN segq = 1..Len(segq)
  BY <1>1, SeqLength
<1>3. \A i \in 1..Len(segq) : segq[i] \in Bounded /\ segq[i] \in Range(segq)
  BY <1>1, <1>2, SeqElement DEF Range
<1>4. Range(segq) \subseteq Bounded
  BY <1>2, <1>3 DEF Range
<1>5. Listed(freelist, Range(segq))
  BY DEF IInv, TypeOK, FreeListsExact, Listed, FreeBases
<1> QED
  BY <1>1, <1>2, <1>3, <1>4, <1>5

\* Two segments that are not spans share no address.
LEMMA SegmentsApart ==
  ASSUME IInv, NEW s \in Range(segq), NEW t \in Range(segq), ~IsSpan(s), ~IsSpan(t), s # t
  PROVE  Apart(s, t)
<1>1. PICK i \in DOMAIN segq : s = segq[i]
  BY DEF Range
<1>2. PICK j \in DOMAIN segq : t = segq[j]
  BY DEF Range
<1>3. i \in 1..Len(segq) /\ j \in 1..Len(segq) /\ i # j
  BY <1>1, <1>2, QueueFacts
<1> QED
  BY <1>1, <1>2, <1>3, QueueFacts DEF Disjoint

\* A base belongs to one segment that is not a span.
LEMMA OneBase ==
  ASSUME IInv, NEW s \in Range(segq), NEW t \in Range(segq), ~IsSpan(s), ~IsSpan(t),
         s.base = t.base
  PROVE  s = t
<1> SUFFICES ASSUME s # t
             PROVE  FALSE
  OBVIOUS
<1>1. Apart(s, t)
  BY SegmentsApart
<1>2. s \in Segs /\ t \in Segs
  BY QueueFacts DEF Bounded
<1>3. s.base \in Nat /\ s.base < End(s) /\ End(s) \in Nat /\ t.base < End(t) /\ End(t) \in Nat
  BY <1>2, SegTypes
<1> QED
  BY <1>1, <1>3, SMTT(60) DEF Apart

\* What is handed out lies in the address space, and what lies in a segment that
\* is not allocated is not handed out.
LEMMA HeldApart ==
  ASSUME IInv
  PROVE  /\ Covered(held) \subseteq Addresses
         /\ \A h \in held : \E t \in Range(segq) :
              t.type = "allocated" /\ t \in Bounded /\ h = <<t.base, t.size>>
<1>1. \A h \in held : \E t \in Range(segq) :
        t.type = "allocated" /\ t \in Bounded /\ h = <<t.base, t.size>>
  BY QueueFacts DEF IInv, HeldOK, Allocated
<1>2. ASSUME NEW h \in held, NEW x \in h[1]..(h[1] + h[2] - 1)
      PROVE  x \in Addresses
  <2>1. PICK t \in Bounded : h = <<t.base, t.size>>
    BY <1>1
  <2>2. t \in Segs /\ End(t) <= SpanSize /\ SpanSize \in Nat
    BY ArenaAssumption DEF Bounded
  <2>3. t.base \in Nat /\ t.size \in Nat
    BY <2>2, SegTypes
  <2>4. h[1] = t.base /\ h[2] = t.size
    BY <2>1
  <2> QED
    BY <1>2, <2>2, <2>3, <2>4, SMTT(60) DEF Addresses, End
<1> QED
  BY <1>1, <1>2 DEF Covered

\* The span a segment lies in, when it is the one just before it.
LEMMA SpanBefore ==
  ASSUME NEW q, Tiled(q), NEW i \in 2..Len(q), Len(q) \in Nat, ~IsSpan(q[i]), IsSpan(q[i - 1])
  PROVE  Inside(q[i], q[i - 1])
<1>1. i \in 1..Len(q)
  BY SMTT(60)
<1>2. PICK o \in 1..(i - 1) : SpanIn(q, o, i) /\ Inside(q[i], q[o])
  BY <1>1 DEF Tiled, Placed
<1>3. \A k \in (o + 1)..i : ~IsSpan(q[k])
  BY <1>2 DEF SpanIn
<1>4. o = i - 1
  BY <1>3, SMTT(60)
<1> QED
  BY <1>2, <1>4

-----------------------------------------------------------------------------
(* vmem_xalloc takes a range out of a free segment.                        *)

\* The range at start, of size n, fits the free segment s at i.
Takes(i, s, start, n) ==
  /\ i \in 1..Len(segq) /\ s = segq[i] /\ s.type = "free"
  /\ start \in Nat /\ n \in Nat \ {0} /\ s.base <= start /\ start + n <= End(s)

\* The queue after a split, and the set of its segments.
LEMMA CarveQueue ==
  ASSUME IInv, NEW i, NEW s, NEW start, NEW n, Takes(i, s, start, n),
         segq' = Replaced(segq, i, i, Pieces(s, start, n)), hasSource' = hasSource
  PROVE  /\ QueueOK'
         /\ Range(segq') = (Range(segq) \ {s}) \cup {Segment("allocated", start, n)}
                             \cup FreeSet(s.base, start) \cup FreeSet(start + n, End(s))
         /\ Len(segq') = Len(segq)
                           + KeptTags(FreeFrom(s.base, start), FreeFrom(start + n, End(s)))
<1> /\ i \in 1..Len(segq) /\ s = segq[i] /\ s.type = "free"
    /\ start \in Nat /\ n \in Nat \ {0} /\ s.base <= start /\ start + n <= End(s)
  BY DEF Takes
<1>1. PICK q : q = segq
  OBVIOUS
<1>2. PICK r : r = segq'
  OBVIOUS
<1>3. PICK new : new = Pieces(s, start, n)
  OBVIOUS
<1>4. /\ q \in Seq(Bounded) /\ Tiled(q) /\ Coalesced(q) /\ Disjoint(q) /\ Len(q) \in Nat
      /\ i \in 1..Len(q) /\ s = q[i] /\ \A k \in 1..Len(q) : q[k] \in Bounded
  BY <1>1, QueueFacts
<1>5. s \in Bounded /\ s \in Segs /\ ~IsSpan(s)
  BY <1>4 DEF Bounded, IsSpan
<1>6. s.base \in Nat /\ End(s) \in Nat
  BY <1>5, SegTypes
<1>7. Fills(new, s.base, End(s))
  BY <1>3, <1>5, PiecesFill
<1>8. \A j \in 1..(Len(new) - 1) : ~(new[j].type = "free" /\ new[j + 1].type = "free")
  BY <1>3, <1>5, PiecesFill, SMTT(60)
<1>9. new[1].type = "allocated" \/ End(new[1]) < End(s)
  BY <1>3, <1>5, PiecesFill
<1>10. Part(new, 1..Len(new))
         = {Segment("allocated", start, n)} \cup FreeSet(s.base, start) \cup FreeSet(start + n, End(s))
  BY <1>3, <1>5, PiecesFill, SMTT(60)
<1>11. Len(new) = 1 + KeptTags(FreeFrom(s.base, start), FreeFrom(start + n, End(s)))
  BY <1>3, <1>5, PiecesFill, SMTT(60)
<1>12. Hull(q, i, i)
  <2>1. ASSUME NEW k \in 1..Len(q), k \notin i..i, ~IsSpan(q[k])
        PROVE  End(q[k]) <= q[i].base \/ End(q[i]) <= q[k].base
    BY <1>4, <1>5, <2>1, SMTT(60) DEF Disjoint, Apart
  <2> QED
    BY <1>4, <1>5, <2>1, SMTT(60) DEF Hull
<1>13. r = Replaced(q, i, i, new)
  BY <1>1, <1>2, <1>3
<1>14. Tiled(r) /\ Disjoint(r)
  BY <1>4, <1>7, <1>12, <1>13, QueueFilled
<1>15. PICK m \in Nat \ {0} : m = Len(new)
  BY <1>7 DEF Fills
<1>16. i \in Nat \ {0} /\ i <= i /\ i <= Len(q) /\ new \in Seq(Bounded)
  BY <1>4, <1>7, SMTT(60) DEF Fills
<1>17. r \in Seq(Bounded) /\ Kept(q, r, Len(q), Len(r), i, i, i + m, i + 1 - (i + m))
  BY <1>4, <1>13, <1>15, <1>16, KeptReplaced
<1>18. StandAt(r, new, i)
  BY <1>4, <1>13, <1>15, <1>16, KeptReplaced
<1>19. PICK c \in Nat : c = i + m
  BY <1>16, SMTT(60)
<1>20. PICK d \in Int : d = 1 - m /\ d = i + 1 - (i + m)
  BY <1>16, SMTT(60)
<1>21. PICK l \in Nat : l = Len(r)
  BY <1>17, SeqLength
<1>22. Kept(q, r, Len(q), l, i, i, c, d)
  BY <1>17, <1>19, <1>20, <1>21
<1>23. /\ \A k \in 1..(i - 1) : r[k] = q[k]
       /\ \A k \in c..l : r[k] = q[k + d]
  BY <1>21, <1>22 DEF Kept
<1>24. l = Len(q) - 1 + m
  <2>1. l = Len(q) - d
    BY <1>22 DEF Kept
  <2> QED
    BY <1>4, <1>20, <2>1, SMTT(60)
<1>25. \A j \in 1..m : r[i - 1 + j] = new[j]
  BY <1>15, <1>18 DEF StandAt
<1>26. \A k \in i..(c - 1) : \E j \in 1..m : r[k] = new[j] /\ k = i - 1 + j
  <2>1. i..(c - 1) = i..(i + m - 1)
    BY <1>16, <1>19, SMTT(60)
  <2> QED
    BY <1>15, <1>18, <2>1 DEF StandAt
<1>27. Coalesced(r)
  <2>1. ASSUME NEW k \in 1..(l - 1), k \in (i - 1)..(c - 1)
        PROVE  ~(r[k].type = "free" /\ r[k + 1].type = "free")
    <3>1. CASE k = i - 1
      <4>1. r[k] = q[k] /\ k \in 1..(Len(q) - 1) /\ k + 1 = i
        BY <1>4, <1>23, <3>1, SMTT(60)
      <4> QED
        BY <1>4, <4>1 DEF Coalesced
    <3>2. CASE k \in i..(c - 2)
      <4>1. PICK j \in 1..(m - 1) : k = i - 1 + j /\ k + 1 = i - 1 + (j + 1) /\ j \in 1..m /\ j + 1 \in 1..m
        <5>1. PICK j \in Int : j = k - (i - 1)
          BY <1>16, SMTT(60)
        <5>2. /\ j \in 1..(m - 1) /\ k = i - 1 + j /\ k + 1 = i - 1 + (j + 1)
              /\ j \in 1..m /\ j + 1 \in 1..m
          BY <1>16, <1>19, <3>2, <5>1, SMTT(60)
        <5> QED
          BY <5>2
      <4>2. r[i - 1 + j] = new[j]
        BY <1>25, <4>1
      <4>3. r[i - 1 + (j + 1)] = new[j + 1]
        BY <1>25, <4>1
      <4> QED
        BY <1>8, <1>15, <4>1, <4>2, <4>3
    <3>3. CASE k = c - 1
      <4>1. k + 1 \in c..l /\ (k + 1) + d = i + 1 /\ i \in 1..(Len(q) - 1)
        BY <1>4, <1>16, <1>19, <1>20, <1>24, <2>1, <3>3, SMTT(60)
      <4>2. r[k + 1] = q[(k + 1) + d]
        BY <1>23, <4>1
      <4> QED
        BY <1>4, <4>1, <4>2 DEF Coalesced
    <3>4. k = i - 1 \/ k \in i..(c - 2) \/ k = c - 1
      <4>1. k \in (i - 1)..(c - 1) /\ i \in Nat /\ c \in Nat
        BY <1>16, <1>19, <2>1
      <4> QED
        BY <4>1, SMTT(60)
    <3> QED
      BY <3>1, <3>2, <3>3, <3>4
  <2> QED
    BY <1>4, <1>22, <2>1, CoalescedReplaced
<1>28. ASSUME InUse(q)
       PROVE  InUse(r)
  <2>1. \A k \in i..(c - 1) : ~IsSpan(r[k])
    BY <1>7, <1>15, <1>26 DEF Fills
  <2>2. ASSUME NEW k \in 1..l, k = i - 1, IsSpan(r[k])
        PROVE  r[k + 1].type = "allocated" \/ End(r[k + 1]) < End(r[k])
    <3>1. r[k] = q[i - 1] /\ i \in 2..Len(q)
      BY <1>4, <1>23, <2>2, SMTT(60)
    <3>2. Inside(s, q[i - 1])
      BY <1>4, <1>5, <2>2, <3>1, SpanBefore
    <3>3. r[k + 1] = new[1]
      <4>1. 1 \in 1..m /\ k + 1 = i - 1 + 1
        BY <1>16, <2>2, SMTT(60)
      <4>2. r[i - 1 + 1] = new[1]
        BY <1>25, <4>1
      <4> QED
        BY <4>1, <4>2
    <3>4. new[1] \in Segs /\ q[i - 1] \in Segs
      BY <1>4, <1>15, <1>16, <3>1, SeqElement, SMTT(60) DEF Bounded
    <3>5. End(new[1]) \in Nat /\ End(q[i - 1]) \in Nat
      BY <3>4, SegTypes
    <3> QED
      BY <1>6, <1>9, <3>1, <3>2, <3>3, <3>5, SMTT(60) DEF Inside
  <2> QED
    <3>1. EdgeInUse(r, l, i, c)
      BY <2>1, <2>2 DEF EdgeInUse
    <3> QED
      BY <1>14, <1>22, <1>28, <3>1, InUseReplaced
<1>29. QueueOK'
  BY <1>1, <1>2, <1>14, <1>17, <1>27, <1>28 DEF IInv, QueueOK
<1>30. Range(r) = (Range(q) \ {s}) \cup Part(new, 1..m)
  <2>1. Range(r) = Part(r, 1..l)
    BY <1>17, <1>21, SeqLength DEF Range, Part
  <2>2. Part(r, 1..l) = Part(q, (1..Len(q)) \ (i..i)) \cup Part(r, i..(c - 1))
    <3>1. StayOrNew(q, r, Len(q), l, i, i, c)
      BY <1>22, RangeReplaced
    <3> QED
      BY <3>1 DEF StayOrNew
  <2>3. Part(q, (1..Len(q)) \ (i..i)) = Range(q) \ Part(q, i..i)
    <3>1. i \in Nat
      BY <1>16
    <3> QED
      BY <1>4, <1>16, <3>1, RangeMinus
  <2>4. Part(q, i..i) = {s}
    BY <1>4, <1>16, SMTT(60) DEF Part
  <2>5. Part(r, i..(c - 1)) = Part(new, 1..m)
    <3>1. \A j \in 1..m : i - 1 + j \in i..(c - 1)
      BY <1>16, <1>19, SMTT(60)
    <3>2. \A j \in 1..m : new[j] \in Part(r, i..(c - 1))
      BY <1>25, <3>1 DEF Part
    <3>3. \A k \in i..(c - 1) : r[k] \in Part(new, 1..m)
      BY <1>26 DEF Part
    <3> QED
      BY <3>2, <3>3 DEF Part
  <2> QED
    BY <2>1, <2>2, <2>3, <2>4, <2>5
<1>31. Len(r) = Len(q) + KeptTags(FreeFrom(s.base, start), FreeFrom(start + n, End(s)))
  <2>1. Len(FreeFrom(s.base, start)) \in Nat /\ Len(FreeFrom(start + n, End(s))) \in Nat
    BY DEF FreeFrom
  <2> QED
    BY <1>4, <1>11, <1>15, <1>21, <1>24, <2>1, SMTT(60) DEF KeptTags
<1> QED
  BY <1>1, <1>2, <1>10, <1>15, <1>29, <1>30, <1>31

\* A range that fits, by seg_fit, is one that can be taken.
LEMMA FitsTakes ==
  ASSUME IInv, NEW n \in Sizes, NEW align \in Aligns, NEW i \in DOMAIN segq,
         segq[i].type = "free", Fits(segq[i], n, align)
  PROVE  Takes(i, segq[i], FitStart(segq[i], align), n)
<1>1. i \in 1..Len(segq) /\ segq[i] \in Segs
  BY QueueFacts DEF Bounded
<1>2. segq[i].base \in Nat
  BY <1>1, SegTypes
<1>3. n \in Nat \ {0} /\ align \in Nat \ {0}
  BY ArenaAssumption
<1>4. FitStart(segq[i], align) \in Nat /\ segq[i].base <= FitStart(segq[i], align)
  BY <1>2, <1>3, AlignUpAbove DEF FitStart
<1> QED
  BY <1>1, <1>3, <1>4 DEF Takes, Fits

\* A range taken from a free segment lies in the address space and overlaps
\* none that is handed out.
LEMMA TakesApart ==
  ASSUME IInv, NEW i, NEW s, NEW start, NEW n, Takes(i, s, start, n)
  PROVE  /\ start \in Addresses /\ start..(start + n - 1) \subseteq Addresses
         /\ \A h \in held : (h[1]..(h[1] + h[2] - 1)) \cap (start..(start + n - 1)) = {}
<1> /\ i \in 1..Len(segq) /\ s = segq[i] /\ s.type = "free"
    /\ start \in Nat /\ n \in Nat \ {0} /\ s.base <= start /\ start + n <= End(s)
  BY DEF Takes
<1>1. s \in Range(segq) /\ s \in Segs /\ End(s) <= SpanSize /\ ~IsSpan(s)
  BY QueueFacts DEF Bounded, IsSpan
<1>2. s.base \in Nat /\ End(s) \in Nat /\ SpanSize \in Nat
  BY <1>1, SegTypes, ArenaAssumption
<1>3. start \in Addresses /\ start..(start + n - 1) \subseteq Addresses
  BY <1>1, <1>2, SMTT(60) DEF Addresses
<1>4. ASSUME NEW h \in held
      PROVE  (h[1]..(h[1] + h[2] - 1)) \cap (start..(start + n - 1)) = {}
  <2>1. PICK t \in Range(segq) : t.type = "allocated" /\ t \in Bounded /\ h = <<t.base, t.size>>
    BY HeldApart
  <2>2. t \in Segs /\ t # s /\ ~IsSpan(t)
    BY <2>1 DEF Bounded, IsSpan
  <2>3. Apart(s, t)
    BY <1>1, <2>1, <2>2, SegmentsApart
  <2>4. t.base \in Nat /\ t.size \in Nat
    BY <2>2, SegTypes
  <2>5. h[1] = t.base /\ h[2] = t.size
    BY <2>1
  <2>6. t.base + t.size <= start \/ start + n <= t.base
    BY <1>2, <2>3, <2>4, SMTT(60) DEF Apart, End
  <2> QED
    BY <2>4, <2>5, <2>6, SMTT(60)
<1> QED
  BY <1>3, <1>4

\* The free lists after a split.
LEMMA CarveLists ==
  ASSUME Counting, IInv, NEW i, NEW s, NEW start, NEW n, Takes(i, s, start, n),
         Range(segq') = (Range(segq) \ {s}) \cup {Segment("allocated", start, n)}
                          \cup FreeSet(s.base, start) \cup FreeSet(start + n, End(s)),
         freelist' = PushFrom(PushFrom(Unlink(freelist, s), s.base, start), start + n, End(s))
  PROVE  Listed(freelist', Range(segq'))
<1> /\ i \in 1..Len(segq) /\ s = segq[i] /\ s.type = "free"
    /\ start \in Nat /\ n \in Nat \ {0} /\ s.base <= start /\ start + n <= End(s)
  BY DEF Takes
<1>1. PICK U : U = Range(segq)
  OBVIOUS
<1>2. PICK V : V = Range(segq')
  OBVIOUS
<1>3. s \in U /\ s \in Segs /\ End(s) <= SpanSize /\ ~IsSpan(s) /\ Listed(freelist, U) /\ U \subseteq Segs
  BY <1>1, QueueFacts DEF Bounded, IsSpan
<1>4. s.base \in Nat /\ End(s) \in Nat /\ SpanSize \in Nat /\ s.base \in Addresses
  BY <1>3, SegTypes, ArenaAssumption DEF Segs
<1>5. ASSUME NEW t \in U, t.type = "free", t # s
      PROVE  t.base # s.base /\ (t.base # start + n \/ start + n = End(s))
  <2>1. Apart(s, t)
    BY <1>1, <1>3, <1>5, SegmentsApart DEF IsSpan
  <2>2. t.base \in Nat /\ End(t) \in Nat /\ t.base < End(t)
    BY <1>3, SegTypes
  <2> QED
    BY <1>3, <1>4, <2>1, <2>2, SegTypes, SMTT(60) DEF Apart
<1>6. Listed(Unlink(freelist, s), U \ {s})
  BY <1>3, <1>5, UnlinkListed
<1>7. PICK f : f = Unlink(freelist, s)
  OBVIOUS
<1>8. PICK W : W = (U \ {s}) \cup FreeSet(s.base, start)
  OBVIOUS
<1>9. Listed(PushFrom(f, s.base, start), W)
  <2>1. Listed(f, U \ {s}) /\ \A t \in U \ {s} : t.type = "free" => t.base # s.base
    BY <1>5, <1>6, <1>7
  <2> QED
    BY <1>4, <1>8, <2>1, PushFromListed
<1>10. PICK g : g = PushFrom(f, s.base, start)
  OBVIOUS
<1>11. ASSUME start + n # End(s)
       PROVE  start + n \in Addresses /\ \A t \in W : t.type = "free" => t.base # start + n
  <2>1. start + n \in Addresses
    BY <1>3, <1>4, <1>11, SMTT(60) DEF Addresses
  <2>2. ASSUME NEW t \in FreeSet(s.base, start)
        PROVE  t.base # start + n
    <3>1. t.base = s.base
      BY <2>2, SMTT(60) DEF FreeSet, Segment
    <3> QED
      BY <1>4, <3>1, SMTT(60)
  <2> QED
    BY <1>5, <1>8, <1>11, <2>1, <2>2
<1>12. Listed(PushFrom(g, start + n, End(s)), W \cup FreeSet(start + n, End(s)))
  BY <1>9, <1>10, <1>11, PushFromListed
<1>13. PICK x : x = Segment("allocated", start, n)
  OBVIOUS
<1>14. x.type = "allocated"
  BY <1>13 DEF Segment
<1>15. V = W \cup FreeSet(start + n, End(s)) \cup {x}
  BY <1>1, <1>2, <1>8, <1>13
<1>16. \A t : t.type = "free" => (t \in W \cup FreeSet(start + n, End(s)) <=> t \in V)
  BY <1>14, <1>15
<1>17. Listed(PushFrom(g, start + n, End(s)), V)
  BY <1>12, <1>16, ListedSame
<1> QED
  BY <1>2, <1>7, <1>10, <1>17

\* vmem_xalloc has the boundary tags it needs.
LEMMA TagsSuffice ==
  ASSUME IInv
  PROVE  /\ Repopulated(nfreesegs) - 2 \in Nat /\ Repopulated(ntags) \in Nat
         /\ Repopulated(nfreesegs) \in Nat
         /\ Repopulated(nfreesegs) + Len(segq) = Repopulated(ntags)
<1>1. /\ nfreesegs \in Nat /\ ntags \in Nat /\ Len(segq) \in Nat
      /\ nfreesegs + Len(segq) = ntags
  BY QueueFacts DEF IInv, TypeOK, FreeListsExact
<1>2. Refill \in Nat \ {0, 1} /\ RefillBelow \in Nat \ {0, 1}
  BY ArenaAssumption
<1>3. CASE nfreesegs < RefillBelow
  BY <1>1, <1>2, <1>3, SMTT(60) DEF Repopulated
<1>4. CASE ~(nfreesegs < RefillBelow)
  BY <1>1, <1>2, <1>4, SMTT(60) DEF Repopulated
<1> QED
  BY <1>3, <1>4

\* The invariant, from what each action shows of the queue and of the accounts.
LEMMA IInvFrom ==
  ASSUME QueueOK', HeldOK', Listed(freelist', Range(segq')),
         hasSource' \in BOOLEAN, nfreesegs' \in Nat, ntags' \in Nat, in_use' \in Nat, total' \in Nat,
         held' \subseteq Addresses \X Sizes, panic' \in {"none", "Allocation failed"},
         in_use' = Cardinality(Covered(held')), nfreesegs' + Len(segq') = ntags'
  PROVE  IInv'
<1>1. segq' \in Seq(Segs)
  <2>1. segq' \in Seq(Bounded) /\ Bounded \subseteq Segs
    BY DEF QueueOK, Bounded
  <2>2. Len(segq') \in Nat /\ segq' \in [1..Len(segq') -> Bounded]
    BY <2>1, SeqLength
  <2>3. segq' \in [1..Len(segq') -> Segs]
    BY <2>1, <2>2
  <2> QED
    <3>1. PICK q : q = segq'
      OBVIOUS
    <3>2. \E m \in Nat : q \in [1..m -> Segs]
      BY <2>2, <2>3, <3>1
    <3>3. q \in Seq(Segs)
      BY <3>2, SeqFunction
    <3> QED
      BY <3>1, <3>3
<1>2. TypeOK'
  BY <1>1 DEF TypeOK, Listed, Segs
<1>3. FreeListsExact'
  BY DEF FreeListsExact, Listed, FreeBases, Covered
<1> QED
  BY <1>2, <1>3 DEF IInv

\* Taking a range out of a free segment keeps the invariant.
LEMMA CarveIInv ==
  ASSUME Counting, IInv, NEW n \in Sizes, NEW align \in Aligns, NEW i \in DOMAIN segq,
         segq[i].type = "free", Fits(segq[i], n, align), Carve(i, n, align)
  PROVE  IInv'
<1>1. PICK s : s = segq[i]
  OBVIOUS
<1>2. PICK start : start = FitStart(s, align)
  OBVIOUS
<1>3. Takes(i, s, start, n)
  BY <1>1, <1>2, FitsTakes
<1>4. PICK tags : tags = KeptTags(FreeFrom(s.base, start), FreeFrom(start + n, End(s)))
  OBVIOUS
<1>5. /\ segq' = Replaced(segq, i, i, Pieces(s, start, n))
      /\ freelist' = PushFrom(PushFrom(Unlink(freelist, s), s.base, start), start + n, End(s))
      /\ nfreesegs' = Repopulated(nfreesegs) - tags /\ ntags' = Repopulated(ntags)
      /\ in_use' = in_use + n /\ total' = total /\ held' = held \cup {<<start, n>>}
      /\ hasSource' = hasSource /\ panic' = panic
  BY <1>1, <1>2, <1>4 DEF Carve, Pieces, Account
<1>6. QueueOK'
  BY <1>3, <1>5, CarveQueue
<1>7. Range(segq') = (Range(segq) \ {s}) \cup {Segment("allocated", start, n)}
                       \cup FreeSet(s.base, start) \cup FreeSet(start + n, End(s))
  BY <1>3, <1>5, CarveQueue
<1>8. Len(segq') = Len(segq) + tags
  BY <1>3, <1>4, <1>5, CarveQueue, SMTT(60)
<1>9. Listed(freelist', Range(segq'))
  BY <1>3, <1>5, <1>7, CarveLists
<1>10. HeldOK'
  <2>1. PICK x : x = Segment("allocated", start, n)
    OBVIOUS
  <2>2. x.type = "allocated" /\ x.base = start /\ x.size = n
    BY <2>1 DEF Segment
  <2>3. s.type = "free"
    BY <1>1
  <2>4. \A t \in FreeSet(s.base, start) \cup FreeSet(start + n, End(s)) : t.type # "allocated"
    BY SMTT(60) DEF FreeSet, Segment
  <2>5. {t \in Range(segq') : t.type = "allocated"} = {t \in Range(segq) : t.type = "allocated"} \cup {x}
    BY <1>7, <2>1, <2>2, <2>3, <2>4
  <2>6. Allocated(Range(segq')) = Allocated(Range(segq)) \cup {<<x.base, x.size>>}
    BY <2>5 DEF Allocated
  <2> QED
    BY <1>5, <2>2, <2>6 DEF IInv, HeldOK
<1>11. /\ n \in Nat \ {0} /\ start \in Nat
       /\ start \in Addresses /\ start..(start + n - 1) \subseteq Addresses
       /\ \A h \in held : (h[1]..(h[1] + h[2] - 1)) \cap (start..(start + n - 1)) = {}
  BY <1>3, TakesApart DEF Takes
<1>12. in_use' = Cardinality(Covered(held')) /\ in_use' \in Nat
  <2>1. Covered(held) \subseteq Addresses
    BY HeldApart
  <2>2. /\ Cardinality(Covered(held \cup {<<start, n>>})) = Cardinality(Covered(held)) + n
        /\ Cardinality(Covered(held)) \in Nat
    BY <1>11, <2>1, CoveredMore
  <2>3. in_use = Cardinality(Covered(held))
    BY DEF IInv, FreeListsExact, Covered
  <2> QED
    BY <1>5, <1>11, <2>2, <2>3, SMTT(60)
<1>13. tags \in {0, 1, 2}
  BY <1>4, SMTT(60) DEF KeptTags, FreeFrom
<1>14. nfreesegs' \in Nat /\ ntags' \in Nat /\ nfreesegs' + Len(segq') = ntags'
  <2>1. /\ Repopulated(nfreesegs) - 2 \in Nat /\ Repopulated(ntags) \in Nat
        /\ Repopulated(nfreesegs) + Len(segq) = Repopulated(ntags)
    BY TagsSuffice
  <2>2. Repopulated(nfreesegs) \in Nat
    BY TagsSuffice
  <2>3. Len(segq) \in Nat
    BY QueueFacts
  <2> QED
    BY <1>5, <1>8, <1>13, <2>1, <2>2, <2>3, SMTT(60)
<1>15. /\ hasSource' \in BOOLEAN /\ total' \in Nat /\ panic' \in {"none", "Allocation failed"}
       /\ held' \subseteq Addresses \X Sizes
  <2>1. held' \subseteq Addresses \X Sizes
    <3>1. <<start, n>> \in Addresses \X Sizes /\ held \subseteq Addresses \X Sizes
      BY <1>11 DEF IInv, TypeOK
    <3> QED
      BY <1>5, <3>1
  <2>2. hasSource' \in BOOLEAN
    BY <1>5 DEF IInv, TypeOK
  <2>3. total' \in Nat /\ panic' \in {"none", "Allocation failed"}
    BY <1>5 DEF IInv, TypeOK
  <2> QED
    BY <2>1, <2>2, <2>3
<1> QED
  BY <1>6, <1>9, <1>10, <1>12, <1>14, <1>15, IInvFrom

\* The segment that the search stops at is free and has room.
LEMMA AllocCarves ==
  ASSUME Counting, IInv, NEW n \in Sizes, NEW align \in Aligns, Alloc(n, align)
  PROVE  \E i \in DOMAIN segq :
           segq[i].type = "free" /\ Fits(segq[i], n, align) /\ Carve(i, n, align)
<1>0. PICK k \in Bucket(n)..SpanSize : \E j \in DOMAIN freelist[k] :
        HasRoom(k, j, n, align) /\ Carve(FreeAt(freelist[k][j]), n, align)
  BY DEF Alloc, StopsAt
<1>1. PICK j \in DOMAIN freelist[k] :
        HasRoom(k, j, n, align) /\ Carve(FreeAt(freelist[k][j]), n, align)
  BY <1>0
<1>2. k \in Buckets
  <2>1. Bucket(n) \in Buckets /\ SpanSize \in Nat
    BY ArenaAssumption DEF Counting
  <2> QED
    BY <2>1, SMTT(60) DEF Buckets
<1>3. PICK b : b = freelist[k][j]
  OBVIOUS
<1>4. b \in FreeBases(Range(segq), k)
  <2>1. Range(freelist[k]) = FreeBases(Range(segq), k)
    BY <1>2, QueueFacts DEF Listed
  <2> QED
    BY <1>3, <2>1 DEF Range
<1>5. \E i \in DOMAIN segq : segq[i].type = "free" /\ segq[i].base = b
  BY <1>4 DEF FreeBases, Range
<1>6. FreeAt(b) \in DOMAIN segq /\ segq[FreeAt(b)].type = "free"
  BY <1>5 DEF FreeAt
<1> QED
  BY <1>1, <1>3, <1>6 DEF HasRoom

-----------------------------------------------------------------------------
(* vmem_import adds a span of the source.                                  *)

\* The queue with an imported span, all of it allocated.
LEMMA ImportQueue ==
  ASSUME IInv, NEW n \in Sizes, NEW b \in SourceAddresses, Importable(b, n),
         NEW x, x = Segment("span", b, n), NEW y, y = Segment("allocated", b, n),
         segq' = segq \o <<x, y>>, hasSource' = hasSource
  PROVE  /\ QueueOK' /\ Range(segq') = Range(segq) \cup {x, y} /\ Len(segq') = Len(segq) + 2
         /\ b \in Addresses /\ b..(b + n - 1) \subseteq Addresses
         /\ \A t \in Range(segq) : ~IsSpan(t) => Apart(y, t)
<1>1. n \in Nat \ {0} /\ SpanSize \in Nat /\ b..(b + n - 1) \subseteq Addresses /\ b \in Addresses
  BY ArenaAssumption DEF Importable
<1>2. b \in Nat /\ b + n <= SpanSize
  <2>1. b \in Nat
    BY <1>1, SMTT(60) DEF Addresses
  <2>2. b + n - 1 \in Addresses
    BY <1>1, <2>1, SMTT(60)
  <2> QED
    BY <1>1, <2>1, <2>2, SMTT(60) DEF Addresses
<1>3. /\ x.type = "span" /\ x.base = b /\ x.size = n /\ End(x) = b + n
      /\ y.type = "allocated" /\ y.base = b /\ y.size = n /\ End(y) = b + n
      /\ IsSpan(x) /\ ~IsSpan(y)
  BY DEF Segment, End, IsSpan
<1>4. x \in Bounded /\ y \in Bounded /\ y \in Segs
  <2>1. b \in Addresses /\ n \in 1..SpanSize
    BY <1>1, <1>2, SMTT(60)
  <2> QED
    BY <1>2, <1>3, <2>1 DEF Bounded, Segs, Segment
<1>5. PICK q : q = segq
  OBVIOUS
<1>6. PICK r : r = segq'
  OBVIOUS
<1>7. PICK m \in Nat : m = Len(q)
  BY <1>5, QueueFacts
<1>8. /\ q \in Seq(Bounded) /\ Tiled(q) /\ Coalesced(q) /\ Disjoint(q) /\ DOMAIN q = 1..m
      /\ \A k \in 1..m : q[k] \in Segs
  BY <1>5, <1>7, QueueFacts DEF Bounded
<1>9. PICK t : t = <<x, y>>
  OBVIOUS
<1>10. t \in Seq(Bounded) /\ Len(t) = 2 /\ t[1] = x /\ t[2] = y
  BY <1>4, <1>9, SMTT(60)
<1>11. r = q \o t
  BY <1>5, <1>6, <1>9
<1>12. r \in Seq(Bounded) /\ Len(r) = Len(q) + Len(t)
  BY <1>8, <1>10, <1>11, ConcatAt
<1>13. \A j \in 1..Len(q) : r[j] = q[j]
  BY <1>8, <1>10, <1>11, ConcatAt, SMTT(60)
<1>14. \A j \in 1..Len(t) : r[Len(q) + j] = t[j]
  <2>1. q \in Seq(Bounded) /\ t \in Seq(Bounded)
    BY <1>8, <1>10
  <2> QED
    BY <1>11, <2>1, ConcatAt, SMTT(60)
<1>15. Len(r) = m + 2 /\ \A j \in 1..m : r[j] = q[j]
  BY <1>7, <1>10, <1>12, <1>13
<1>16. r[m + 1] = x /\ r[m + 2] = y
  BY <1>7, <1>10, <1>14, SMTT(60)
<1>17. DOMAIN r = 1..(m + 2)
  BY <1>12, <1>15, SeqLength
<1>18. Tiled(r)
  <2>1. Appended(q, r, m)
    BY <1>3, <1>4, <1>7, <1>15, <1>16 DEF Appended
  <2> QED
    BY <1>8, <2>1, TiledAppended
<1>19. Coalesced(r)
  <2> SUFFICES ASSUME NEW i \in 1..(m + 1)
               PROVE  ~(r[i].type = "free" /\ r[i + 1].type = "free")
    BY <1>15, SMTT(60) DEF Coalesced
  <2>1. CASE i < m
    <3>1. r[i] = q[i] /\ r[i + 1] = q[i + 1] /\ i \in 1..(m - 1)
      BY <1>15, <2>1, SMTT(60)
    <3> QED
      BY <1>7, <1>8, <3>1 DEF Coalesced
  <2>2. CASE i = m
    BY <1>3, <1>16, <2>2
  <2>3. CASE i = m + 1
    BY <1>3, <1>16, <2>3
  <2> QED
    BY <2>1, <2>2, <2>3, SMTT(60)
<1>20. ASSUME NEW k \in 1..m, IsSpan(q[k])
       PROVE  Apart(x, q[k])
  BY <1>3, <1>5, <1>8, <1>20 DEF Importable, Apart, IsSpan
<1>21. ASSUME NEW k \in 1..m, ~IsSpan(q[k])
       PROVE  Apart(y, q[k])
  <2>1. PICK o \in 1..(k - 1) : SpanIn(q, o, k) /\ Inside(q[k], q[o])
    BY <1>7, <1>8, <1>21 DEF Tiled, Placed
  <2>2. o \in 1..m /\ IsSpan(q[o])
    BY <2>1, SMTT(60) DEF SpanIn
  <2>3. Apart(x, q[o])
    BY <1>20, <2>2
  <2>4. /\ q[o].base \in Nat /\ End(q[o]) \in Nat /\ q[k].base \in Nat /\ End(q[k]) \in Nat
    BY <1>8, <2>2, SegTypes
  <2> QED
    <3>1. b + n <= q[o].base \/ End(q[o]) <= b
      BY <1>3, <2>3 DEF Apart
    <3>2. q[o].base <= q[k].base /\ End(q[k]) <= End(q[o])
      BY <2>1 DEF Inside
    <3>3. b + n <= q[k].base \/ End(q[k]) <= b
      BY <1>1, <1>2, <2>4, <3>1, <3>2, SMTT(60)
    <3> QED
      BY <1>3, <3>3 DEF Apart
<1>22. Disjoint(r)
  <2> SUFFICES ASSUME NEW i \in 1..(m + 2), NEW j \in 1..(m + 2), i # j,
                      IsSpan(r[i]) <=> IsSpan(r[j])
               PROVE  Apart(r[i], r[j])
    BY <1>15 DEF Disjoint
  <2>1. CASE i \in 1..m /\ j \in 1..m
    BY <1>7, <1>8, <1>15, <2>1 DEF Disjoint
  <2>2. CASE i \in 1..m /\ j \notin 1..m
    <3>1. j = m + 1 \/ j = m + 2
      BY <2>2, SMTT(60)
    <3>2. Apart(r[j], r[i])
      BY <1>3, <1>15, <1>16, <1>20, <1>21, <2>2, <3>1
    <3> QED
      BY <3>2, ApartSymmetric
  <2>3. CASE i \notin 1..m /\ j \in 1..m
    <3>1. i = m + 1 \/ i = m + 2
      BY <2>3, SMTT(60)
    <3> QED
      BY <1>3, <1>15, <1>16, <1>20, <1>21, <2>3, <3>1
  <2>4. CASE i \notin 1..m /\ j \notin 1..m
    <3>1. (i = m + 1 \/ i = m + 2) /\ (j = m + 1 \/ j = m + 2)
      BY <2>4, SMTT(60)
    <3> QED
      BY <1>3, <1>16, <3>1, SMTT(60)
  <2> QED
    BY <2>1, <2>2, <2>3, <2>4
<1>23. ASSUME InUse(q)
       PROVE  InUse(r)
  <2> SUFFICES ASSUME NEW i \in 1..(m + 2), IsSpan(r[i])
               PROVE  r[i + 1].type = "allocated" \/ End(r[i + 1]) < End(r[i])
    BY <1>15 DEF InUse
  <2>1. CASE i \in 1..m
    <3>1. r[i] = q[i]
      BY <1>15, <2>1
    <3>2. i < m
      BY <1>7, <1>8, <2>1, <3>1 DEF Tiled, Opened
    <3>3. r[i + 1] = q[i + 1]
      BY <1>15, <2>1, <3>2, SMTT(60)
    <3> QED
      BY <1>7, <1>23, <2>1, <3>1, <3>3 DEF InUse
  <2>2. CASE i = m + 1
    <3>1. i + 1 = m + 2
      BY <2>2, SMTT(60)
    <3> QED
      BY <1>3, <1>16, <3>1
  <2>3. CASE i = m + 2
    BY <1>3, <1>16, <2>3
  <2> QED
    BY <2>1, <2>2, <2>3, SMTT(60)
<1>24. QueueOK'
  BY <1>5, <1>6, <1>12, <1>18, <1>19, <1>22, <1>23 DEF IInv, QueueOK
<1>25. Range(r) = Range(q) \cup {x, y}
  <2>1. \A i \in 1..(m + 2) : i \in 1..m \/ i = m + 1 \/ i = m + 2
    BY SMTT(60)
  <2>2. Range(r) \subseteq Range(q) \cup {x, y}
    BY <1>8, <1>15, <1>16, <1>17, <2>1 DEF Range
  <2>3. m + 1 \in DOMAIN r /\ m + 2 \in DOMAIN r /\ \A i \in 1..m : i \in DOMAIN r
    BY <1>17, SMTT(60)
  <2>4. Range(q) \cup {x, y} \subseteq Range(r)
    BY <1>8, <1>15, <1>16, <2>3 DEF Range
  <2> QED
    BY <2>2, <2>4
<1>26. \A s \in Range(q) : ~IsSpan(s) => Apart(y, s)
  BY <1>8, <1>21 DEF Range
<1> QED
  BY <1>1, <1>5, <1>6, <1>7, <1>15, <1>24, <1>25, <1>26

\* An imported range overlaps none that is handed out.
LEMMA ImportApart ==
  ASSUME IInv, NEW n \in Nat \ {0}, NEW b \in Nat, NEW y, y = Segment("allocated", b, n),
         \A t \in Range(segq) : ~IsSpan(t) => Apart(y, t), NEW h \in held
  PROVE  (h[1]..(h[1] + h[2] - 1)) \cap (b..(b + n - 1)) = {}
<1>1. PICK t \in Range(segq) : t.type = "allocated" /\ t \in Bounded /\ h = <<t.base, t.size>>
  BY HeldApart
<1>2. Apart(y, t) /\ t \in Segs
  BY <1>1 DEF IsSpan, Bounded
<1>3. t.base \in Nat /\ t.size \in Nat
  BY <1>2, SegTypes
<1>4. h[1] = t.base /\ h[2] = t.size
  BY <1>1
<1>5. b + n <= t.base \/ t.base + t.size <= b
  BY <1>2 DEF Apart, End, Segment
<1> QED
  BY <1>3, <1>4, <1>5, SMTT(60)

\* An import keeps the invariant.
LEMMA ImportIInv ==
  ASSUME Counting, IInv, NEW n \in Sizes, AllocImport(n)
  PROVE  IInv'
<1>1. PICK b \in SourceAddresses :
        /\ Importable(b, n)
        /\ segq' = segq \o <<Segment("span", b, n), Segment("allocated", b, n)>>
        /\ nfreesegs' = Repopulated(nfreesegs) - 2 /\ ntags' = Repopulated(ntags)
        /\ held' = held \cup {<<b, n>>}
  BY DEF AllocImport
<1>2. /\ in_use' = in_use + n /\ total' = total
      /\ hasSource' = hasSource /\ panic' = panic /\ freelist' = freelist
  BY DEF AllocImport, Account
<1>3. PICK x : x = Segment("span", b, n)
  OBVIOUS
<1>4. PICK y : y = Segment("allocated", b, n)
  OBVIOUS
<1>5. x.type = "span" /\ y.type = "allocated" /\ y.base = b /\ y.size = n
  BY <1>3, <1>4 DEF Segment
<1>6. segq' = segq \o <<x, y>>
  BY <1>1, <1>3, <1>4
<1>7. QueueOK' /\ Range(segq') = Range(segq) \cup {x, y} /\ Len(segq') = Len(segq) + 2
  BY <1>1, <1>2, <1>3, <1>4, <1>6, ImportQueue
<1>8. /\ b \in Addresses /\ b..(b + n - 1) \subseteq Addresses
      /\ \A t \in Range(segq) : ~IsSpan(t) => Apart(y, t)
  BY <1>1, <1>2, <1>3, <1>4, <1>6, ImportQueue
<1>9. b \in Nat /\ n \in Nat \ {0}
  BY <1>8, ArenaAssumption, SMTT(60) DEF Addresses
<1>10. Listed(freelist', Range(segq'))
  <2>1. PICK U : U = Range(segq)
    OBVIOUS
  <2>2. PICK V : V = Range(segq')
    OBVIOUS
  <2>3. Listed(freelist, U)
    BY <2>1, QueueFacts
  <2>4. V = U \cup {x, y}
    BY <1>7, <2>1, <2>2
  <2>5. \A t : t.type = "free" => (t \in U <=> t \in V)
    BY <1>5, <2>4
  <2>6. Listed(freelist, V)
    BY <2>3, <2>5, ListedSame
  <2> QED
    BY <1>2, <2>2, <2>6
<1>11. HeldOK'
  <2>1. {t \in Range(segq') : t.type = "allocated"} = {t \in Range(segq) : t.type = "allocated"} \cup {y}
    BY <1>5, <1>7
  <2>2. Allocated(Range(segq')) = Allocated(Range(segq)) \cup {<<y.base, y.size>>}
    BY <2>1 DEF Allocated
  <2> QED
    BY <1>1, <1>5, <2>2 DEF IInv, HeldOK
<1>12. in_use' = Cardinality(Covered(held')) /\ in_use' \in Nat
  <2>1. Covered(held) \subseteq Addresses
    BY HeldApart
  <2>2. \A h \in held : (h[1]..(h[1] + h[2] - 1)) \cap (b..(b + n - 1)) = {}
    BY <1>4, <1>8, <1>9, ImportApart
  <2>3. /\ Cardinality(Covered(held \cup {<<b, n>>})) = Cardinality(Covered(held)) + n
        /\ Cardinality(Covered(held)) \in Nat
    BY <1>8, <1>9, <2>1, <2>2, CoveredMore
  <2>4. in_use = Cardinality(Covered(held))
    BY DEF IInv, FreeListsExact, Covered
  <2> QED
    BY <1>1, <1>2, <1>9, <2>3, <2>4, SMTT(60)
<1>13. nfreesegs' \in Nat /\ ntags' \in Nat /\ nfreesegs' + Len(segq') = ntags'
  <2>1. /\ Repopulated(nfreesegs) - 2 \in Nat /\ Repopulated(ntags) \in Nat
        /\ Repopulated(nfreesegs) \in Nat
        /\ Repopulated(nfreesegs) + Len(segq) = Repopulated(ntags)
    BY TagsSuffice
  <2>2. Len(segq) \in Nat
    BY QueueFacts
  <2> QED
    BY <1>1, <1>7, <2>1, <2>2, SMTT(60)
<1>14. held' \subseteq Addresses \X Sizes
  <2>1. <<b, n>> \in Addresses \X Sizes /\ held \subseteq Addresses \X Sizes
    BY <1>8 DEF IInv, TypeOK
  <2> QED
    BY <1>1, <2>1
<1>15. hasSource' \in BOOLEAN
  BY <1>2 DEF IInv, TypeOK
<1>16. total' \in Nat /\ panic' \in {"none", "Allocation failed"}
  BY <1>2 DEF IInv, TypeOK
<1> QED
  BY <1>7, <1>10, <1>11, <1>12, <1>13, <1>14, <1>15, <1>16, IInvFrom

-----------------------------------------------------------------------------
(* vmem_xfree merges the freed segment with its free neighbours.           *)

\* The segments from f to e are the allocated one at i and its free neighbours,
\* and g is a free segment in their place.
Merges(i, f, e, g) ==
  /\ i \in 2..Len(segq) /\ segq[i].type = "allocated"
  /\ f \in {i - 1, i} /\ f >= 2 /\ e \in {i, i + 1} /\ e <= Len(segq)
  /\ f # i => segq[f].type = "free"
  /\ e # i => segq[e].type = "free"
  /\ segq[f - 1].type # "free" /\ (e < Len(segq) => segq[e + 1].type # "free")
  /\ g \in Bounded /\ g.type = "free" /\ g.base = segq[f].base /\ End(g) = End(segq[e])

\* What lies where around the freed segment.
LEMMA MergedMerges ==
  ASSUME IInv, NEW i \in 1..Len(segq), segq[i].type = "allocated", NEW m, m = Merged(i)
  PROVE  Merges(i, m.first, m.last, m.seg) /\ Hull(segq, m.first, m.last)
<1>1. PICK q : q = segq
  OBVIOUS
<1>2. PICK n \in Nat : n = Len(q)
  BY <1>1, QueueFacts
<1>3. /\ q \in Seq(Bounded) /\ Tiled(q) /\ Coalesced(q) /\ Disjoint(q)
      /\ i \in 1..n /\ q[i].type = "allocated"
  BY <1>1, <1>2, QueueFacts
<1>4. \A k \in 1..n : /\ q[k] \in Bounded /\ q[k].base \in Nat /\ End(q[k]) \in Nat
                      /\ q[k].base < End(q[k]) /\ End(q[k]) <= SpanSize
  <2>1. \A k \in 1..n : q[k] \in Bounded /\ q[k] \in Segs /\ End(q[k]) <= SpanSize
    BY <1>1, <1>2, QueueFacts DEF Bounded
  <2> QED
    BY <2>1, SegTypes
<1>5. PICK f : f = IF q[i - 1].type = "free" THEN i - 1 ELSE i
  OBVIOUS
<1>6. PICK e : e = IF i < n /\ q[i + 1].type = "free" THEN i + 1 ELSE i
  OBVIOUS
<1>7. PICK g : g = Segment("free", q[f].base, End(q[e]) - q[f].base)
  OBVIOUS
<1>8. m.first = f /\ m.last = e /\ m.seg = g
  BY <1>1, <1>2, <1>5, <1>6, <1>7 DEF Merged
<1>9. ~IsSpan(q[i]) /\ i >= 2
  <2>1. ~IsSpan(q[i])
    BY <1>3 DEF IsSpan
  <2>2. \E p \in 1..(i - 1) : TRUE
    BY <1>2, <1>3, <2>1 DEF Tiled, Placed
  <2> QED
    BY <2>1, <2>2, SMTT(60)
<1>10. /\ f \in {i - 1, i} /\ e \in {i, i + 1} /\ e <= n /\ f \in 1..n /\ e \in 1..n
  BY <1>3, <1>5, <1>6, <1>9, SMTT(60)
<1>11. (f # i => q[f].type = "free") /\ (e # i => q[e].type = "free")
  BY <1>5, <1>6
<1>12. ~IsSpan(q[f]) /\ ~IsSpan(q[e])
  BY <1>9, <1>11 DEF IsSpan
<1>13. f >= 2
  <2>1. \E p \in 1..(f - 1) : TRUE
    BY <1>2, <1>3, <1>10, <1>12 DEF Tiled, Placed
  <2> QED
    BY <1>10, <2>1, SMTT(60)
<1>14. f # i => End(q[f]) = q[i].base
  <2> SUFFICES ASSUME f # i
               PROVE  End(q[f]) = q[i].base
    OBVIOUS
  <2>1. f + 1 = i /\ f # n
    BY <1>3, <1>10, SMTT(60)
  <2>2. PICK p : End(q[f]) = IF LastIn(q, f) THEN End(q[p]) ELSE q[f + 1].base
    BY <1>2, <1>3, <1>10, <1>12 DEF Tiled, Placed
  <2>3. ~LastIn(q, f)
    BY <1>2, <1>9, <2>1 DEF LastIn
  <2> QED
    BY <2>1, <2>2, <2>3
<1>15. e # i => End(q[i]) = q[e].base
  <2> SUFFICES ASSUME e # i
               PROVE  End(q[i]) = q[e].base
    OBVIOUS
  <2>1. i + 1 = e /\ i # n
    BY <1>3, <1>10, SMTT(60)
  <2>2. PICK p : End(q[i]) = IF LastIn(q, i) THEN End(q[p]) ELSE q[i + 1].base
    BY <1>2, <1>3, <1>9 DEF Tiled, Placed
  <2>3. ~LastIn(q, i)
    BY <1>2, <1>12, <2>1 DEF LastIn
  <2> QED
    BY <2>1, <2>2, <2>3
<1>16. q[f].base <= q[i].base /\ End(q[i]) <= End(q[e])
  BY <1>3, <1>4, <1>10, <1>14, <1>15, SMTT(60)
<1>17. g \in Bounded /\ g.type = "free" /\ g.base = q[f].base /\ End(g) = End(q[e])
  <2>1. /\ q[f].base \in Nat /\ q[i].base \in Nat /\ End(q[i]) \in Nat /\ End(q[e]) \in Nat
        /\ q[i].base < End(q[i]) /\ End(q[e]) <= SpanSize /\ SpanSize \in Nat
    BY <1>3, <1>4, <1>10, ArenaAssumption
  <2>2. g.type = "free" /\ g.base = q[f].base /\ g.size = End(q[e]) - q[f].base
    BY <1>7 DEF Segment
  <2>3. End(g) = End(q[e])
    BY <2>1, <2>2, SMTT(60) DEF End
  <2>4. q[f].base \in Addresses /\ End(q[e]) - q[f].base \in 1..SpanSize
    <3>1. q[f].base < End(q[e]) /\ q[f].base < SpanSize
      BY <1>16, <2>1, SMTT(60)
    <3> QED
      BY <2>1, <3>1, SMTT(60) DEF Addresses
  <2>5. g \in Segs
    BY <1>7, <2>4 DEF Segs, Segment
  <2> QED
    BY <2>1, <2>2, <2>3, <2>5 DEF Bounded
<1>18. q[f - 1].type # "free"
  <2>1. CASE f = i
    BY <1>5, <1>9, <2>1, <1>3
  <2>2. CASE f # i
    <3>1. f - 1 \in 1..(n - 1) /\ (f - 1) + 1 = f
      BY <1>10, <1>13, SMTT(60)
    <3> QED
      BY <1>2, <1>3, <1>11, <2>2, <3>1 DEF Coalesced
  <2> QED
    BY <2>1, <2>2
<1>19. e < n => q[e + 1].type # "free"
  <2> SUFFICES ASSUME e < n
               PROVE  q[e + 1].type # "free"
    OBVIOUS
  <2>1. CASE e = i
    BY <1>6, <2>1, <1>3
  <2>2. CASE e # i
    <3>1. e \in 1..(n - 1)
      BY <1>10, SMTT(60)
    <3> QED
      BY <1>2, <1>3, <1>11, <2>2, <3>1 DEF Coalesced
  <2> QED
    BY <2>1, <2>2
<1>20. Merges(i, f, e, g)
  BY <1>1, <1>2, <1>3, <1>9, <1>10, <1>11, <1>13, <1>17, <1>18, <1>19, SMTT(60) DEF Merges
<1>21. \A k \in f..e : k = f \/ k = i \/ k = e
  BY <1>3, <1>10, SMTT(60)
<1>22. f <= e /\ f \in Nat \ {0} /\ e \in Nat /\ f \in f..e /\ i \in f..e /\ e \in f..e
  BY <1>3, <1>10, SMTT(60)
<1>23. ASSUME NEW k \in 1..n, k \notin f..e, ~IsSpan(q[k])
       PROVE  End(q[k]) <= q[f].base \/ End(q[e]) <= q[k].base
  <2>1. Apart(q[k], q[f]) /\ Apart(q[k], q[i]) /\ Apart(q[k], q[e])
    BY <1>2, <1>3, <1>9, <1>10, <1>12, <1>22, <1>23 DEF Disjoint
  <2>2. /\ q[k].base \in Nat /\ End(q[k]) \in Nat /\ q[k].base < End(q[k])
        /\ q[f].base \in Nat /\ End(q[f]) \in Nat /\ q[f].base < End(q[f])
        /\ q[i].base \in Nat /\ End(q[i]) \in Nat /\ q[i].base < End(q[i])
        /\ q[e].base \in Nat /\ End(q[e]) \in Nat /\ q[e].base < End(q[e])
    BY <1>3, <1>4, <1>10
  <2>3. f = i \/ End(q[f]) = q[i].base
    BY <1>14
  <2>4. e = i \/ End(q[i]) = q[e].base
    BY <1>15
  <2>5. End(q[k]) <= q[f].base \/ End(q[i]) <= q[k].base
    BY <2>1, <2>2, <2>3, SMTT(60) DEF Apart
  <2> QED
    BY <2>1, <2>2, <2>4, <2>5, SMTT(60) DEF Apart
<1>24. Hull(q, f, e)
  BY <1>2, <1>9, <1>10, <1>12, <1>21, <1>22, <1>23 DEF Hull
<1> QED
  BY <1>1, <1>8, <1>20, <1>24

\* The merged segment lies in the span just before it, and is all of it when it
\* has its size.
LEMMA MergedInSpan ==
  ASSUME IInv, NEW i, NEW f, NEW e, NEW g, Merges(i, f, e, g), Hull(segq, f, e),
         IsSpan(segq[f - 1])
  PROVE  /\ segq[f - 1].base = g.base /\ End(g) <= End(segq[f - 1])
         /\ End(g) = End(segq[f - 1]) => WholeSpan(segq, f - 1, e)
<1>1. PICK q : q = segq
  OBVIOUS
<1>2. PICK n \in Nat : n = Len(q)
  BY <1>1, QueueFacts
<1>3. /\ Tiled(q) /\ f \in Nat /\ f >= 2 /\ e \in Nat /\ f <= e /\ e <= n
      /\ g.base = q[f].base /\ End(g) = End(q[e]) /\ IsSpan(q[f - 1])
  BY <1>1, <1>2, QueueFacts DEF Merges, Hull
<1>4. \A k \in f..e : ~IsSpan(q[k])
  BY <1>1 DEF Hull
<1>5. q[f - 1].base = q[f].base
  <2>1. f - 1 \in 1..n /\ (f - 1) + 1 = f
    BY <1>3, SMTT(60)
  <2> QED
    BY <1>2, <1>3, <2>1 DEF Tiled, Opened
<1>6. PICK p \in 1..(e - 1) :
        /\ SpanIn(q, p, e) /\ Inside(q[e], q[p])
        /\ End(q[e]) = IF LastIn(q, e) THEN End(q[p]) ELSE q[e + 1].base
  <2>1. e \in 1..n /\ ~IsSpan(q[e])
    BY <1>3, <1>4, SMTT(60)
  <2> QED
    BY <1>2, <1>3, <2>1 DEF Tiled, Placed
<1>7. p = f - 1
  <2>1. IsSpan(q[p]) /\ \A k \in (p + 1)..e : ~IsSpan(q[k])
    BY <1>6 DEF SpanIn
  <2>2. ~(p < f - 1)
    BY <1>3, <2>1, SMTT(60)
  <2>3. ~(p \in f..e)
    BY <1>4, <2>1
  <2> QED
    BY <1>3, <2>2, <2>3, SMTT(60)
<1>8. End(q[e]) <= End(q[f - 1])
  BY <1>6, <1>7 DEF Inside
<1>9. ASSUME End(q[e]) = End(q[f - 1]), ~LastIn(q, e)
      PROVE  FALSE
  <2>1. e # n /\ ~IsSpan(q[e + 1]) /\ q[e + 1].base = End(q[f - 1])
    BY <1>2, <1>6, <1>9 DEF LastIn
  <2>2. PICK x \in 1..n : x = e + 1
    BY <1>3, <2>1, SMTT(60)
  <2>3. PICK o \in 1..(x - 1) : SpanIn(q, o, x) /\ Inside(q[x], q[o])
    BY <1>2, <1>3, <2>1, <2>2 DEF Tiled, Placed
  <2>4. IsSpan(q[o]) /\ \A k \in (o + 1)..x : ~IsSpan(q[k])
    BY <2>3 DEF SpanIn
  <2>5. o = f - 1
    <3>1. ~(o < f - 1)
      BY <1>3, <2>2, <2>4, SMTT(60)
    <3>2. ~(o \in f..e)
      BY <1>4, <2>4
    <3> QED
      BY <1>3, <2>2, <3>1, <3>2, SMTT(60)
  <2>6. q[x] \in Segs /\ q[f - 1] \in Segs
    BY <1>1, <1>2, <1>3, QueueFacts, SMTT(60) DEF Bounded
  <2>7. q[x].base \in Nat /\ End(q[x]) \in Nat /\ q[x].base < End(q[x]) /\ End(q[f - 1]) \in Nat
    BY <2>6, SegTypes
  <2> QED
    BY <2>1, <2>2, <2>3, <2>5, <2>7, SMTT(60) DEF Inside
<1>10. End(q[e]) = End(q[f - 1]) => WholeSpan(q, f - 1, e)
  BY <1>6, <1>7, <1>9 DEF WholeSpan
<1> QED
  BY <1>1, <1>3, <1>5, <1>8, <1>10

\* The segments that a merge replaces.
LEMMA MergedPart ==
  ASSUME NEW i, NEW f, NEW e, NEW g, Merges(i, f, e, g), Len(segq) \in Nat
  PROVE  Part(segq, f..e) = {segq[f], segq[i], segq[e]}
<1>1. \A k \in f..e : k = f \/ k = i \/ k = e
  BY SMTT(60) DEF Merges
<1>2. f \in f..e /\ i \in f..e /\ e \in f..e
  BY SMTT(60) DEF Merges
<1> QED
  BY <1>1, <1>2 DEF Part

\* The queue after a merge, and the set of its segments.
LEMMA MergeQueue ==
  ASSUME IInv, NEW i, NEW f, NEW e, NEW g, Merges(i, f, e, g), Hull(segq, f, e),
         hasSource => ~(IsSpan(segq[f - 1]) /\ segq[f - 1].size = g.size),
         segq' = Replaced(segq, f, e, <<g>>), hasSource' = hasSource
  PROVE  /\ QueueOK' /\ Len(segq') = Len(segq) - (e - f)
         /\ Range(segq') = (Range(segq) \ {segq[f], segq[i], segq[e]}) \cup {g}
<1>1. PICK q : q = segq
  OBVIOUS
<1>2. PICK r : r = segq'
  OBVIOUS
<1>3. PICK n \in Nat : n = Len(q)
  BY <1>1, QueueFacts
<1>4. /\ q \in Seq(Bounded) /\ Tiled(q) /\ Coalesced(q) /\ Disjoint(q)
      /\ \A k \in 1..n : q[k] \in Segs
  BY <1>1, <1>3, QueueFacts DEF Bounded
<1>5. /\ f \in Nat \ {0} /\ f >= 2 /\ e \in Nat /\ f <= e /\ e <= n /\ Hull(q, f, e)
  BY <1>1, <1>3 DEF Hull, Merges
<1>6. /\ g \in Bounded /\ g.type = "free" /\ g.base = q[f].base /\ End(g) = End(q[e]) /\ g \in Segs
      /\ q[f - 1].type # "free" /\ (e < n => q[e + 1].type # "free") /\ ~IsSpan(g)
  BY <1>1, <1>3 DEF Merges, Bounded, IsSpan
<1>7. PICK new : new = <<g>>
  OBVIOUS
<1>8. new \in Seq(Bounded) /\ Len(new) = 1 /\ new[1] = g
  BY <1>6, <1>7, SMTT(60)
<1>9. g.base \in Nat /\ End(g) \in Nat
  BY <1>6, SegTypes
<1>10. Fills(new, q[f].base, End(q[e]))
  BY <1>6, <1>8, <1>9, SMTT(60) DEF Fills
<1>11. r = Replaced(q, f, e, new)
  BY <1>1, <1>2, <1>7
<1>12. Tiled(r) /\ Disjoint(r)
  BY <1>4, <1>5, <1>10, <1>11, QueueFilled
<1>13. r \in Seq(Bounded) /\ Kept(q, r, Len(q), Len(r), f, e, f + 1, e + 1 - (f + 1))
  BY <1>3, <1>4, <1>5, <1>8, <1>11, KeptReplaced
<1>14. StandAt(r, new, f)
  BY <1>3, <1>4, <1>5, <1>8, <1>11, KeptReplaced
<1>15. PICK c \in Nat : c = f + 1
  BY <1>5, SMTT(60)
<1>16. PICK d \in Int : d = e + 1 - (f + 1) /\ d = e - f
  BY <1>5, SMTT(60)
<1>17. PICK l \in Nat : l = Len(r)
  BY <1>13, SeqLength
<1>18. Kept(q, r, n, l, f, e, c, d)
  BY <1>3, <1>13, <1>15, <1>16, <1>17
<1>19. /\ \A k \in 1..(f - 1) : r[k] = q[k]
       /\ \A k \in c..l : r[k] = q[k + d]
  BY <1>17, <1>18 DEF Kept
<1>20. l = n - d
  BY <1>18 DEF Kept
<1>21. r[f] = g
  <2>1. 1 \in 1..Len(new) /\ f - 1 + 1 = f
    BY <1>5, <1>8, SMTT(60)
  <2>2. r[f - 1 + 1] = new[1]
    BY <1>14, <2>1 DEF StandAt
  <2> QED
    BY <1>8, <2>1, <2>2
<1>22. f..(c - 1) = {f}
  BY <1>5, <1>15, SMTT(60)
<1>23. Coalesced(r)
  <2>1. ASSUME NEW k \in 1..(l - 1), k \in (f - 1)..(c - 1)
        PROVE  ~(r[k].type = "free" /\ r[k + 1].type = "free")
    <3>1. CASE k = f - 1
      <4>1. k \in 1..(f - 1)
        BY <3>1, SMTT(60)
      <4>2. r[k] = q[f - 1]
        BY <1>19, <3>1, <4>1
      <4> QED
        BY <1>6, <4>2
    <3>2. CASE k = f
      <4>1. k + 1 \in c..l /\ (k + 1) + d = e + 1 /\ e < n
        BY <1>5, <1>15, <1>16, <1>20, <2>1, <3>2, SMTT(60)
      <4>2. r[k + 1] = q[(k + 1) + d]
        BY <1>19, <4>1
      <4> QED
        BY <1>6, <4>1, <4>2
    <3>3. k = f - 1 \/ k = f
      BY <1>5, <1>15, <2>1, SMTT(60)
    <3> QED
      BY <3>1, <3>2, <3>3
  <2> QED
    BY <1>4, <1>18, <2>1, CoalescedReplaced
<1>24. ASSUME hasSource, InUse(q)
       PROVE  InUse(r)
  <2>1. \A k \in f..(c - 1) : ~IsSpan(r[k])
    BY <1>6, <1>21, <1>22
  <2>2. ASSUME NEW k \in 1..l, k = f - 1, IsSpan(r[k])
        PROVE  r[k + 1].type = "allocated" \/ End(r[k + 1]) < End(r[k])
    <3>1. k + 1 = f /\ k \in 1..(f - 1) /\ f - 1 \in 1..n
      BY <1>5, <2>2, SMTT(60)
    <3>2. r[k] = q[f - 1] /\ r[k + 1] = g
      BY <1>19, <1>21, <2>2, <3>1
    <3>3. IsSpan(q[f - 1]) /\ q[f - 1].size # g.size
      BY <1>1, <1>24, <2>2, <3>2
    <3>4. q[f - 1].base = g.base /\ End(g) <= End(q[f - 1])
      BY <1>1, <3>3, MergedInSpan, SMTT(60)
    <3>5. q[f - 1] \in Segs
      BY <1>4, <3>1
    <3>6. q[f - 1].size \in Nat /\ g.size \in Nat /\ End(q[f - 1]) \in Nat
      BY <1>6, <3>5, SegTypes
    <3>7. End(g) # End(q[f - 1])
      BY <1>9, <3>3, <3>4, <3>6, SMTT(60) DEF End
    <3> QED
      BY <1>9, <3>2, <3>4, <3>6, <3>7, SMTT(60)
  <2>3. EdgeInUse(r, l, f, c)
    BY <2>1, <2>2 DEF EdgeInUse
  <2> QED
    BY <1>12, <1>18, <1>24, <2>3, InUseReplaced
<1>25. QueueOK'
  BY <1>1, <1>2, <1>12, <1>13, <1>23, <1>24 DEF IInv, QueueOK
<1>26. Range(r) = (Range(q) \ Part(q, f..e)) \cup {g}
  <2>1. Range(r) = Part(r, 1..l)
    BY <1>13, <1>17, SeqLength DEF Range, Part
  <2>2. StayOrNew(q, r, n, l, f, e, c)
    BY <1>18, RangeReplaced
  <2>3. Part(r, 1..l) = Part(q, (1..n) \ (f..e)) \cup Part(r, f..(c - 1))
    BY <2>2 DEF StayOrNew
  <2>4. Part(q, (1..Len(q)) \ (f..e)) = Range(q) \ Part(q, f..e)
    <3>1. e <= Len(q)
      BY <1>3, <1>5
    <3> QED
      BY <1>4, <1>5, <3>1, RangeMinus
  <2>5. Part(r, f..(c - 1)) = {g}
    BY <1>21, <1>22 DEF Part
  <2> QED
    BY <1>3, <2>1, <2>3, <2>4, <2>5
<1>27. Part(q, f..e) = {q[f], q[i], q[e]}
  BY <1>1, <1>3, MergedPart
<1>28. Len(r) = n - (e - f)
  BY <1>16, <1>17, <1>20
<1> QED
  BY <1>1, <1>2, <1>3, <1>25, <1>26, <1>27, <1>28

\* The queue after a span went back, and the set of its segments.
LEMMA GiveBackQueue ==
  ASSUME IInv, NEW i, NEW f, NEW e, NEW g, Merges(i, f, e, g), Hull(segq, f, e),
         IsSpan(segq[f - 1]), segq[f - 1].size = g.size,
         segq' = Replaced(segq, f - 1, e, <<>>), hasSource' = hasSource
  PROVE  /\ QueueOK' /\ Len(segq') = Len(segq) - (e - f) - 2
         /\ Range(segq') = Range(segq) \ {segq[f - 1], segq[f], segq[i], segq[e]}
<1>1. PICK q : q = segq
  OBVIOUS
<1>2. PICK r : r = segq'
  OBVIOUS
<1>3. PICK n \in Nat : n = Len(q)
  BY <1>1, QueueFacts
<1>4. /\ q \in Seq(Bounded) /\ Tiled(q) /\ Coalesced(q) /\ Disjoint(q)
      /\ \A k \in 1..n : q[k] \in Segs
  BY <1>1, <1>3, QueueFacts DEF Bounded
<1>5. /\ f \in Nat \ {0} /\ f >= 2 /\ e \in Nat /\ f <= e /\ e <= n
  BY <1>1, <1>3 DEF Hull, Merges
<1>6. PICK a \in Nat \ {0} : a = f - 1
  BY <1>5, SMTT(60)
<1>7. a < e /\ a <= e /\ IsSpan(q[a]) /\ q[a] \in Segs
  BY <1>1, <1>4, <1>5, <1>6, SMTT(60)
<1>8. WholeSpan(q, a, e)
  <2>1. q[a].base = g.base
    BY <1>1, <1>6, MergedInSpan, SMTT(60)
  <2>2. End(g) = End(q[a])
    BY <1>1, <1>6, <2>1 DEF End
  <2> QED
    BY <1>1, <1>6, <2>2, MergedInSpan
<1>9. PICK new : new = <<>>
  OBVIOUS
<1>10. new \in Seq(Bounded) /\ Len(new) = 0
  BY <1>9, SMTT(60)
<1>11. r = Replaced(q, a, e, new)
  BY <1>1, <1>2, <1>6, <1>9
<1>12. r \in Seq(Bounded) /\ Kept(q, r, Len(q), Len(r), a, e, a + 0, e + 1 - (a + 0))
  BY <1>3, <1>4, <1>5, <1>7, <1>10, <1>11, KeptReplaced
<1>13. PICK d \in Int : d = e + 1 - a /\ d = e + 1 - (a + 0) /\ a + 0 = a
  BY <1>5, SMTT(60)
<1>14. PICK l \in Nat : l = Len(r)
  BY <1>12, SeqLength
<1>15. Kept(q, r, n, l, a, e, a, d)
  BY <1>3, <1>12, <1>13, <1>14
<1>16. Tiled(r)
  BY <1>4, <1>7, <1>8, <1>15, TiledCut
<1>17. a..(a - 1) = {}
  BY SMTT(60)
<1>18. Disjoint(r)
  <2>1. Fresh(q, r, a, e, a)
    BY <1>17 DEF Fresh
  <2> QED
    BY <1>4, <1>15, <2>1, DisjointReplaced
<1>19. /\ \A k \in 1..(a - 1) : r[k] = q[k]
       /\ \A k \in a..l : r[k] = q[k + d]
  BY <1>14, <1>15 DEF Kept
<1>20. l = n - d
  BY <1>15 DEF Kept
<1>21. Coalesced(r)
  <2>1. ASSUME NEW k \in 1..(l - 1), k \in (a - 1)..(a - 1)
        PROVE  ~(r[k].type = "free" /\ r[k + 1].type = "free")
    <3>1. k + 1 = a /\ k + 1 \in a..l /\ (k + 1) + d = e + 1 /\ e # n
      BY <1>5, <1>13, <1>20, <2>1, SMTT(60)
    <3>2. r[k + 1] = q[(k + 1) + d]
      BY <1>19, <3>1
    <3>3. IsSpan(q[e + 1])
      BY <1>3, <1>8, <3>1 DEF WholeSpan, LastIn
    <3> QED
      BY <3>1, <3>2, <3>3 DEF IsSpan
  <2> QED
    BY <1>4, <1>15, <2>1, CoalescedReplaced
<1>22. ASSUME InUse(q)
       PROVE  InUse(r)
  <2>1. ASSUME NEW k \in 1..l, k = a - 1, IsSpan(r[k])
        PROVE  FALSE
    <3>1. k \in 1..(a - 1) /\ k \in 1..n /\ k + 1 = a
      BY <1>5, <1>7, <2>1, SMTT(60)
    <3>2. IsSpan(q[k])
      BY <1>19, <2>1, <3>1
    <3> QED
      BY <1>3, <1>4, <1>7, <3>1, <3>2 DEF Tiled, Opened
  <2>2. EdgeInUse(r, l, a, a)
    BY <1>17, <2>1 DEF EdgeInUse
  <2> QED
    BY <1>15, <1>16, <1>22, <2>2, InUseReplaced
<1>23. QueueOK'
  BY <1>1, <1>2, <1>12, <1>16, <1>18, <1>21, <1>22 DEF IInv, QueueOK
<1>24. Range(r) = Range(q) \ Part(q, a..e)
  <2>1. Range(r) = Part(r, 1..l)
    BY <1>12, <1>14, SeqLength DEF Range, Part
  <2>2. StayOrNew(q, r, n, l, a, e, a)
    BY <1>15, RangeReplaced
  <2>3. Part(r, 1..l) = Part(q, (1..n) \ (a..e)) \cup Part(r, a..(a - 1))
    BY <2>2 DEF StayOrNew
  <2>4. Part(q, (1..Len(q)) \ (a..e)) = Range(q) \ Part(q, a..e)
    <3>1. e <= Len(q)
      BY <1>3, <1>5
    <3> QED
      BY <1>4, <1>5, <3>1, RangeMinus
  <2>5. Part(r, a..(a - 1)) = {}
    BY <1>17 DEF Part
  <2> QED
    BY <1>3, <2>1, <2>3, <2>4, <2>5
<1>25. Part(q, a..e) = {q[a]} \cup {q[f], q[i], q[e]}
  <2>1. Part(q, f..e) = {q[f], q[i], q[e]}
    BY <1>1, <1>3, MergedPart, SMTT(60)
  <2>2. a..e = {a} \cup (f..e)
    BY <1>5, <1>6, SMTT(60)
  <2>3. Part(q, a..e) = {q[a]} \cup Part(q, f..e)
    BY <2>2 DEF Part
  <2> QED
    BY <2>1, <2>3
<1>26. Len(r) = n - (e - f) - 2
  BY <1>5, <1>6, <1>13, <1>14, <1>20, SMTT(60)
<1> QED
  BY <1>1, <1>2, <1>3, <1>6, <1>23, <1>24, <1>25, <1>26

\* The free lists without the merged neighbours.
LEMMA UnlinkedListed ==
  ASSUME Counting, IInv, NEW i, NEW m, Merges(i, m.first, m.last, m.seg)
  PROVE  Listed(Unlinked(i, m), Range(segq) \ {segq[m.first], segq[i], segq[m.last]})
<1>1. PICK f : f = m.first
  OBVIOUS
<1>2. PICK e : e = m.last
  OBVIOUS
<1>3. PICK U : U = Range(segq)
  OBVIOUS
<1>4. Merges(i, f, e, m.seg)
  BY <1>1, <1>2
<1>5. /\ i \in 1..Len(segq) /\ f \in 1..Len(segq) /\ e \in 1..Len(segq)
      /\ segq[i].type = "allocated" /\ (f # i => segq[f].type = "free") /\ (e # i => segq[e].type = "free")
      /\ f <= i /\ i <= e
  <2>1. Len(segq) \in Nat
    BY QueueFacts
  <2> QED
    BY <1>4, <2>1, SMTT(60) DEF Merges
<1>6. segq[i] \in U /\ segq[f] \in U /\ segq[e] \in U /\ Listed(freelist, U)
  BY <1>3, <1>5, QueueFacts
<1>7. \A s, t \in U : s.type = "free" /\ t.type = "free" /\ t.base = s.base => t = s
  BY <1>3, OneBase DEF IsSpan
<1>8. PICK fl : fl = IF e = i THEN freelist ELSE Unlink(freelist, segq[e])
  OBVIOUS
<1>9. PICK V : V = IF e = i THEN U ELSE U \ {segq[e]}
  OBVIOUS
<1>10. Listed(fl, V)
  <2>1. CASE e = i
    BY <1>6, <1>8, <1>9, <2>1
  <2>2. CASE e # i
    <3>1. Listed(Unlink(freelist, segq[e]), U \ {segq[e]})
      BY <1>5, <1>6, <1>7, <2>2, UnlinkListed
    <3> QED
      BY <1>8, <1>9, <2>2, <3>1
  <2> QED
    BY <2>1, <2>2
<1>11. PICK gl : gl = IF f = i THEN fl ELSE Unlink(fl, segq[f])
  OBVIOUS
<1>12. PICK W : W = IF f = i THEN V ELSE V \ {segq[f]}
  OBVIOUS
<1>13. Listed(gl, W)
  <2>1. CASE f = i
    BY <1>10, <1>11, <1>12, <2>1
  <2>2. CASE f # i
    <3>1. segq[f] \in V
      <4>1. f # e /\ segq[f] # segq[e]
        BY <1>5, <2>2, QueueFacts, DisjointInjective, SMTT(60)
      <4> QED
        BY <1>6, <1>9, <4>1
    <3>2. \A t \in V : t.type = "free" /\ t.base = segq[f].base => t = segq[f]
      BY <1>5, <1>6, <1>7, <1>9, <2>2
    <3>3. Listed(Unlink(fl, segq[f]), V \ {segq[f]})
      BY <1>5, <1>10, <2>2, <3>1, <3>2, UnlinkListed
    <3> QED
      BY <1>11, <1>12, <2>2, <3>3
  <2> QED
    BY <2>1, <2>2
<1>14. PICK X : X = U \ {segq[f], segq[i], segq[e]}
  OBVIOUS
<1>15. \A t : t.type = "free" => (t \in W <=> t \in X)
  BY <1>5, <1>9, <1>12, <1>14
<1>16. Listed(gl, X)
  BY <1>13, <1>15, ListedSame
<1>17. Unlinked(i, m) = gl
  BY <1>1, <1>2, <1>8, <1>11 DEF Unlinked
<1> QED
  BY <1>1, <1>2, <1>3, <1>14, <1>16, <1>17

\* The range that goes back overlaps no other one that is handed out.
LEMMA HeldDisjoint ==
  ASSUME IInv, NEW h \in held, NEW g \in held, g # h
  PROVE  (g[1]..(g[1] + g[2] - 1)) \cap (h[1]..(h[1] + h[2] - 1)) = {}
<1>1. PICK s \in Range(segq) : s.type = "allocated" /\ s \in Bounded /\ h = <<s.base, s.size>>
  BY HeldApart
<1>2. PICK t \in Range(segq) : t.type = "allocated" /\ t \in Bounded /\ g = <<t.base, t.size>>
  BY HeldApart
<1>3. s # t /\ ~IsSpan(s) /\ ~IsSpan(t) /\ s \in Segs /\ t \in Segs
  BY <1>1, <1>2 DEF IsSpan, Bounded
<1>4. Apart(s, t)
  BY <1>1, <1>2, <1>3, SegmentsApart
<1>5. s.base \in Nat /\ s.size \in Nat /\ t.base \in Nat /\ t.size \in Nat
  BY <1>3, SegTypes
<1>6. s.base + s.size <= t.base \/ t.base + t.size <= s.base
  BY <1>4 DEF Apart, End
<1>7. h[1] = s.base /\ h[2] = s.size /\ g[1] = t.base /\ g[2] = t.size
  BY <1>1, <1>2
<1> QED
  BY <1>5, <1>6, <1>7, SMTT(60)

\* Freeing a range keeps the invariant.
LEMMA FreeIInv ==
  ASSUME Counting, IInv, NEW h \in held, Free(h)
  PROVE  IInv'
<1>1. PICK i : i = CHOOSE j \in DOMAIN segq : segq[j].type = "allocated" /\ segq[j].base = h[1]
  OBVIOUS
<1>2. PICK m : m = Merged(i)
  OBVIOUS
<1>3. /\ held' = held \ {h} /\ in_use' = in_use + (-h[2]) /\ total' = total
      /\ nfreesegs' = nfreesegs + TagsFreed(m)
      /\ hasSource' = hasSource /\ ntags' = ntags /\ panic' = panic
      /\ IF GoesBack(m)
         THEN segq' = Replaced(segq, m.first - 1, m.last, <<>>) /\ freelist' = Unlinked(i, m)
         ELSE /\ segq' = Replaced(segq, m.first, m.last, <<m.seg>>)
              /\ freelist' = Push(Unlinked(i, m), m.seg.base, m.seg.size)
  BY <1>1, <1>2 DEF Free, Account
<1>4. PICK s \in Range(segq) : s.type = "allocated" /\ s \in Bounded /\ h = <<s.base, s.size>>
  BY HeldApart
<1>5. h[1] = s.base /\ h[2] = s.size /\ ~IsSpan(s) /\ s \in Segs
  BY <1>4 DEF IsSpan, Bounded
<1>6. i \in DOMAIN segq /\ segq[i].type = "allocated" /\ segq[i].base = h[1]
  <2>1. \E j \in DOMAIN segq : segq[j].type = "allocated" /\ segq[j].base = h[1]
    BY <1>4, <1>5 DEF Range
  <2> QED
    BY <1>1, <2>1
<1>7. i \in 1..Len(segq) /\ segq[i] = s
  <2>1. i \in 1..Len(segq) /\ segq[i] \in Range(segq) /\ ~IsSpan(segq[i])
    BY <1>6, QueueFacts DEF IsSpan
  <2> QED
    BY <1>5, <1>6, <2>1, OneBase
<1>8. PICK f : f = m.first
  OBVIOUS
<1>9. PICK e : e = m.last
  OBVIOUS
<1>10. PICK g : g = m.seg
  OBVIOUS
<1>11. Merges(i, f, e, g) /\ Hull(segq, f, e)
  BY <1>2, <1>6, <1>7, <1>8, <1>9, <1>10, MergedMerges
<1>12. /\ f \in Nat /\ e \in Nat /\ f <= e /\ f >= 2 /\ f \in 1..Len(segq) /\ e \in 1..Len(segq)
       /\ (f # i => segq[f].type = "free") /\ (e # i => segq[e].type = "free")
       /\ g.type = "free" /\ g.base = segq[f].base /\ f - 1 \in 1..Len(segq)
  <2>1. Len(segq) \in Nat
    BY QueueFacts
  <2> QED
    BY <1>11, <2>1, SMTT(60) DEF Merges, Hull
<1>13. PICK W : W = Range(segq) \ {segq[f], segq[i], segq[e]}
  OBVIOUS
<1>14. Listed(Unlinked(i, m), W)
  <2>1. Merges(i, m.first, m.last, m.seg)
    BY <1>8, <1>9, <1>10, <1>11
  <2> QED
    BY <1>8, <1>9, <1>13, <2>1, UnlinkedListed
<1>15. GoesBack(m) <=> hasSource /\ IsSpan(segq[f - 1]) /\ segq[f - 1].size = g.size
  BY <1>8, <1>10 DEF GoesBack, IsSpan
<1>16. TagsFreed(m) = e - f + (IF GoesBack(m) THEN 2 ELSE 0)
  BY <1>8, <1>9 DEF TagsFreed
<1>17. /\ QueueOK' /\ Listed(freelist', Range(segq')) /\ Len(segq') = Len(segq) - TagsFreed(m)
       /\ {t \in Range(segq') : t.type = "allocated"} = {t \in Range(segq) : t.type = "allocated"} \ {s}
  <2>1. CASE GoesBack(m)
    <3>1. IsSpan(segq[f - 1]) /\ segq[f - 1].size = g.size
      BY <1>15, <2>1
    <3>2. segq' = Replaced(segq, f - 1, e, <<>>) /\ freelist' = Unlinked(i, m)
      BY <1>3, <1>8, <1>9, <2>1
    <3>3. /\ QueueOK' /\ Len(segq') = Len(segq) - (e - f) - 2
          /\ Range(segq') = Range(segq) \ {segq[f - 1], segq[f], segq[i], segq[e]}
      BY <1>3, <1>11, <3>1, <3>2, GiveBackQueue
    <3>4. Listed(freelist', Range(segq'))
      <4>1. PICK V : V = Range(segq')
        OBVIOUS
      <4>2. \A t : t.type = "free" => (t \in W <=> t \in V)
        BY <1>13, <3>1, <3>3, <4>1 DEF IsSpan
      <4>3. Listed(Unlinked(i, m), V)
        BY <1>14, <4>2, ListedSame
      <4> QED
        BY <3>2, <4>1, <4>3
    <3>5. Len(segq') = Len(segq) - TagsFreed(m)
      <4>1. Len(segq) \in Nat
        BY QueueFacts
      <4> QED
        BY <1>12, <1>16, <2>1, <3>3, <4>1, SMTT(60)
    <3>6. {t \in Range(segq') : t.type = "allocated"} = {t \in Range(segq) : t.type = "allocated"} \ {s}
      BY <1>7, <1>12, <3>1, <3>3 DEF IsSpan
    <3> QED
      BY <3>3, <3>4, <3>5, <3>6
  <2>2. CASE ~GoesBack(m)
    <3>1. hasSource => ~(IsSpan(segq[f - 1]) /\ segq[f - 1].size = g.size)
      BY <1>15, <2>2
    <3>2. segq' = Replaced(segq, f, e, <<g>>) /\ freelist' = Push(Unlinked(i, m), g.base, g.size)
      BY <1>3, <1>8, <1>9, <1>10, <2>2
    <3>3. /\ QueueOK' /\ Len(segq') = Len(segq) - (e - f)
          /\ Range(segq') = (Range(segq) \ {segq[f], segq[i], segq[e]}) \cup {g}
      BY <1>3, <1>11, <3>1, <3>2, MergeQueue, SMTT(60)
    <3>4. Listed(freelist', Range(segq'))
      <4>1. g = Segment("free", g.base, g.size)
        BY <1>2, <1>10 DEF Merged, Segment
      <4>2. g.base \in Addresses
        <5>1. g \in Segs
          BY <1>11 DEF Merges, Bounded
        <5> QED
          BY <5>1 DEF Segs
      <4>3. ASSUME NEW t \in W, t.type = "free"
            PROVE  t.base # g.base
        <5>1. t \in Range(segq) /\ segq[f] \in Range(segq) /\ ~IsSpan(t) /\ ~IsSpan(segq[f]) /\ t # segq[f]
          BY <1>6, <1>12, <1>13, <4>3, QueueFacts DEF IsSpan
        <5> QED
          BY <1>12, <5>1, OneBase
      <4>4. Listed(Push(Unlinked(i, m), g.base, g.size), W \cup {Segment("free", g.base, g.size)})
        BY <1>14, <4>2, <4>3, PushListed
      <4> QED
        BY <1>13, <3>2, <3>3, <4>1, <4>4
    <3>5. Len(segq') = Len(segq) - TagsFreed(m)
      <4>1. Len(segq) \in Nat
        BY QueueFacts
      <4> QED
        BY <1>12, <1>16, <2>2, <3>3, <4>1, SMTT(60)
    <3>6. {t \in Range(segq') : t.type = "allocated"} = {t \in Range(segq) : t.type = "allocated"} \ {s}
      BY <1>7, <1>12, <3>3
    <3> QED
      BY <3>3, <3>4, <3>5, <3>6
  <2> QED
    BY <2>1, <2>2
<1>18. HeldOK'
  <2>1. \A t \in Range(segq) : t.type = "allocated" /\ t # s => <<t.base, t.size>> # h
    BY <1>4, <1>5, OneBase DEF IsSpan
  <2>2. held = Allocated(Range(segq))
    BY DEF IInv, HeldOK
  <2>3. Allocated(Range(segq')) = held \ {h}
    BY <1>4, <1>17, <2>1, <2>2 DEF Allocated
  <2> QED
    BY <1>3, <2>3 DEF HeldOK
<1>19. in_use' = Cardinality(Covered(held')) /\ in_use' \in Nat
  <2>1. s.base \in Nat /\ s.size \in Nat \ {0}
    BY <1>5, SegTypes
  <2>2. Covered(held) \subseteq Addresses
    BY HeldApart
  <2>3. \A x \in held \ {<<s.base, s.size>>} :
          (x[1]..(x[1] + x[2] - 1)) \cap (s.base..(s.base + s.size - 1)) = {}
    <3>1. \A x \in held \ {h} : (x[1]..(x[1] + x[2] - 1)) \cap (h[1]..(h[1] + h[2] - 1)) = {}
      BY HeldDisjoint
    <3> QED
      BY <1>4, <1>5, <3>1
  <2>4. <<s.base, s.size>> \in held
    BY <1>4
  <2>5. /\ Cardinality(Covered(held)) = Cardinality(Covered(held \ {<<s.base, s.size>>})) + s.size
        /\ Cardinality(Covered(held \ {<<s.base, s.size>>})) \in Nat
    BY <2>1, <2>2, <2>3, <2>4, CoveredLess
  <2>6. in_use = Cardinality(Covered(held)) /\ held' = held \ {<<s.base, s.size>>}
    BY <1>3, <1>4 DEF IInv, FreeListsExact, Covered
  <2> QED
    <3>1. PICK c \in Nat : c = Cardinality(Covered(held \ {<<s.base, s.size>>}))
      BY <2>5
    <3>2. in_use = c + s.size /\ in_use' = in_use + (-s.size)
      BY <1>3, <1>5, <2>5, <2>6, <3>1
    <3>3. in_use' = c
      BY <2>1, <3>2, SMTT(60)
    <3> QED
      BY <2>6, <3>1, <3>3
<1>20. nfreesegs' \in Nat /\ ntags' \in Nat /\ nfreesegs' + Len(segq') = ntags'
  <2>1. TagsFreed(m) \in Nat
    BY <1>12, <1>16, SMTT(60)
  <2>2. Len(segq) \in Nat /\ nfreesegs \in Nat /\ ntags \in Nat /\ nfreesegs + Len(segq) = ntags
    BY QueueFacts DEF IInv, TypeOK, FreeListsExact
  <2> QED
    BY <1>3, <1>17, <2>1, <2>2, SMTT(60)
<1>21. held' \subseteq Addresses \X Sizes
  BY <1>3 DEF IInv, TypeOK
<1>22. hasSource' \in BOOLEAN
  BY <1>3 DEF IInv, TypeOK
<1>23. total' \in Nat /\ panic' \in {"none", "Allocation failed"}
  BY <1>3 DEF IInv, TypeOK
<1> QED
  BY <1>17, <1>18, <1>19, <1>20, <1>21, <1>22, <1>23, IInvFrom

-----------------------------------------------------------------------------
(* The initial states.                                                     *)

\* An arena that imports its spans starts with none.
LEMMA InitWithSource ==
  ASSUME Counting, Init, hasSource
  PROVE  IInv
<1>1. /\ segq = <<>> /\ freelist = [k \in Buckets |-> <<>>] /\ held = {}
      /\ ntags = RefillBelow /\ nfreesegs = RefillBelow - Len(segq)
      /\ in_use = 0 /\ total = 0 /\ panic = "none" /\ hasSource \in BOOLEAN
  BY DEF Init
<1>2. Len(segq) = 0 /\ DOMAIN segq = {} /\ segq \in Seq(Bounded) /\ segq \in Seq(Segs)
  BY <1>1, SMTT(60)
<1>3. QueueOK
  BY <1>2, SMTT(60) DEF QueueOK, Tiled, Coalesced, Disjoint, InUse
<1>4. Range(segq) = {}
  BY <1>2 DEF Range
<1>5. HeldOK
  BY <1>1, <1>4 DEF HeldOK, Allocated
<1>6. TypeOK
  <2>1. freelist \in [Buckets -> Seq(Addresses)]
    BY <1>1, SMTT(60)
  <2> QED
    BY <1>1, <1>2, <2>1, ArenaAssumption, SMTT(60) DEF TypeOK, Segs
<1>7. FreeListsExact
  <2>1. ASSUME NEW k \in Buckets
        PROVE  IsInjective(freelist[k]) /\ Range(freelist[k]) = {}
    BY <1>1, SMTT(60) DEF IsInjective, Range
  <2>2. Cardinality(UNION {h[1]..(h[1] + h[2] - 1) : h \in held}) = 0
    <3>1. UNION {h[1]..(h[1] + h[2] - 1) : h \in held} = {}
      BY <1>1
    <3> QED
      BY <3>1 DEF Counting
  <2>3. nfreesegs + Len(segq) = ntags
    BY <1>1, <1>2, ArenaAssumption, SMTT(60)
  <2> QED
    BY <1>1, <1>4, <2>1, <2>2, <2>3 DEF FreeListsExact
<1> QED
  BY <1>3, <1>5, <1>6, <1>7 DEF IInv

\* An arena without a source starts with one span, all of it free.
LEMMA InitWithSpan ==
  ASSUME Counting, Init, ~hasSource
  PROVE  IInv
<1>1. PICK x : x = Segment("span", 0, SpanSize)
  OBVIOUS
<1>2. PICK y : y = Segment("free", 0, SpanSize)
  OBVIOUS
<1>3. SpanSize \in Nat \ {0} /\ RefillBelow \in Nat \ {0, 1}
  BY ArenaAssumption
<1>4. PICK b : b = Bucket(SpanSize)
  OBVIOUS
<1>5. /\ segq = <<x, y>> /\ freelist = [k \in Buckets |-> IF k = b THEN <<0>> ELSE <<>>]
      /\ held = {} /\ ntags = RefillBelow /\ nfreesegs = RefillBelow - Len(segq)
      /\ in_use = 0 /\ total = SpanSize + SpanSize /\ panic = "none" /\ hasSource \in BOOLEAN
  BY <1>1, <1>2, <1>4 DEF Init
<1>6. /\ x.type = "span" /\ x.base = 0 /\ x.size = SpanSize /\ End(x) = SpanSize /\ IsSpan(x)
      /\ y.type = "free" /\ y.base = 0 /\ y.size = SpanSize /\ End(y) = SpanSize /\ ~IsSpan(y)
  BY <1>1, <1>2, <1>3, SMTT(60) DEF Segment, End, IsSpan
<1>7. x \in Bounded /\ y \in Bounded /\ x \in Segs /\ y \in Segs
  <2>1. 0 \in Addresses /\ SpanSize \in 1..SpanSize /\ SpanSize <= SpanSize
    BY <1>3, SMTT(60) DEF Addresses
  <2> QED
    BY <1>1, <1>2, <1>6, <2>1 DEF Bounded, Segs, Segment
<1>8. PICK q : q = segq
  OBVIOUS
<1>9. /\ q \in Seq(Bounded) /\ q \in Seq(Segs) /\ Len(q) = 2 /\ q[1] = x /\ q[2] = y
      /\ DOMAIN q = 1..2
  BY <1>5, <1>7, <1>8, SMTT(60)
<1>10. 1..2 = {1, 2}
  BY SMTT(60)
<1>11. Tiled(q)
  <2>1. Appended(<<>>, q, 0)
    BY <1>6, <1>7, <1>9, SMTT(60) DEF Appended
  <2>2. Tiled(<<>>)
    BY SMTT(60) DEF Tiled
  <2> QED
    BY <2>1, <2>2, TiledAppended
<1>12. Coalesced(q)
  BY <1>6, <1>9, SMTT(60) DEF Coalesced
<1>13. Disjoint(q)
  BY <1>6, <1>9, <1>10, SMTT(60) DEF Disjoint
<1>14. QueueOK
  BY <1>8, <1>9, <1>11, <1>12, <1>13 DEF QueueOK
<1>15. Range(q) = {x, y}
  BY <1>9, <1>10 DEF Range
<1>16. HeldOK
  BY <1>5, <1>6, <1>8, <1>15 DEF HeldOK, Allocated
<1>17. b \in Buckets
  BY <1>4 DEF Counting
<1>18. TypeOK
  <2>1. freelist \in [Buckets -> Seq(Addresses)]
    <3>1. <<0>> \in Seq(Addresses) /\ <<>> \in Seq(Addresses)
      BY <1>3, SMTT(60) DEF Addresses
    <3> QED
      BY <1>5, <3>1
  <2>2. nfreesegs \in Nat
    BY <1>3, <1>5, <1>8, <1>9, SMTT(60)
  <2>3. ntags \in Nat /\ in_use \in Nat /\ total \in Nat /\ held \subseteq Addresses \X Sizes
    BY <1>3, <1>5, SMTT(60)
  <2>4. segq \in Seq(Segs) /\ panic \in {"none", "Allocation failed"}
    BY <1>5, <1>8, <1>9
  <2> QED
    BY <1>5, <2>1, <2>2, <2>3, <2>4 DEF TypeOK, Segs
<1>19. FreeListsExact
  <2>1. ASSUME NEW k \in Buckets
        PROVE  IsInjective(freelist[k]) /\ Range(freelist[k]) = IF k = b THEN {0} ELSE {}
    <3>1. CASE k = b
      <4>1. freelist[k] = <<0>> /\ DOMAIN <<0>> = {1} /\ <<0>>[1] = 0
        BY <1>5, <3>1, SMTT(60)
      <4> QED
        BY <3>1, <4>1, SMTT(60) DEF IsInjective, Range
    <3>2. CASE k # b
      <4>1. freelist[k] = <<>>
        BY <1>5, <3>2
      <4> QED
        BY <3>2, <4>1, SMTT(60) DEF IsInjective, Range
    <3> QED
      BY <3>1, <3>2
  <2>2. ASSUME NEW k \in Buckets
        PROVE  {s.base : s \in {t \in Range(segq) : t.type = "free" /\ Bucket(t.size) = k}}
                 = IF k = b THEN {0} ELSE {}
    BY <1>4, <1>6, <1>8, <1>15
  <2>3. Cardinality(UNION {h[1]..(h[1] + h[2] - 1) : h \in held}) = 0
    <3>1. UNION {h[1]..(h[1] + h[2] - 1) : h \in held} = {}
      BY <1>5
    <3> QED
      BY <3>1 DEF Counting
  <2>4. nfreesegs + Len(segq) = ntags
    BY <1>3, <1>5, <1>8, <1>9, SMTT(60)
  <2> QED
    BY <1>5, <2>1, <2>2, <2>3, <2>4 DEF FreeListsExact
<1> QED
  BY <1>14, <1>16, <1>18, <1>19 DEF IInv

-----------------------------------------------------------------------------
(* The theorems.                                                           *)

\* Nothing in the invariant depends on panic.
LEMMA StutterIInv ==
  ASSUME IInv, panic' \in {"none", "Allocation failed"},
         UNCHANGED <<hasSource, segq, freelist, nfreesegs, ntags, in_use, total, held>>
  PROVE  IInv'
<1>1. TypeOK'
  BY DEF IInv, TypeOK
<1>2. QueueOK'
  BY DEF IInv, QueueOK
<1>3. HeldOK'
  BY DEF IInv, HeldOK
<1>4. FreeListsExact'
  BY DEF IInv, FreeListsExact
<1> QED
  BY <1>1, <1>2, <1>3, <1>4 DEF IInv

-----------------------------------------------------------------------------
(* The sizes of sets.  The library is not needed before this point, and in *)
(* the scope of a step it makes every proof slower.                        *)

INSTANCE FiniteSetTheorems

\* Lists and ranges are counted as the proofs assume.
LEMMA Counted == Counting
<1>1. Cardinality({}) = 0
  BY FS_EmptySet
<1>2. ASSUME NEW n
      PROVE  Bucket(n) \in Buckets
  <2>1. PICK S : S = {k \in 1..SpanSize : 2^k <= n}
    OBVIOUS
  <2>2. SpanSize \in Nat /\ S \subseteq 1..SpanSize
    BY <2>1, ArenaAssumption
  <2>3. IsFiniteSet(1..SpanSize) /\ Cardinality(1..SpanSize) = SpanSize
    BY <2>2, FS_Interval, SMTT(60)
  <2>4. IsFiniteSet(S) /\ Cardinality(S) <= SpanSize
    <3>1. S \in SUBSET (1..SpanSize)
      BY <2>2
    <3>2. IsFiniteSet(S) /\ Cardinality(S) <= Cardinality(1..SpanSize)
      BY <2>3, <3>1, FS_Subset
    <3> QED
      BY <2>3, <3>2
  <2>5. Cardinality(S) \in Nat
    BY <2>4, FS_CardinalityType
  <2> QED
    BY <2>1, <2>2, <2>4, <2>5, SMTT(60) DEF Bucket, Buckets
<1>3. ASSUME NEW C, NEW b, NEW n, C \subseteq Addresses, b \in Nat, n \in Nat \ {0},
             C \cap (b..(b + n - 1)) = {}
      PROVE  /\ Cardinality(C \cup (b..(b + n - 1))) = Cardinality(C) + n
             /\ Cardinality(C) \in Nat
  <2>1. PICK R : R = b..(b + n - 1)
    OBVIOUS
  <2>2. IsFiniteSet(Addresses)
    BY ArenaAssumption, FS_Interval, SMTT(60) DEF Addresses
  <2>3. IsFiniteSet(C)
    BY <1>3, <2>2, FS_Subset
  <2>4. Cardinality(C) \in Nat
    BY <2>3, FS_CardinalityType
  <2>5. b \in Int /\ b + n - 1 \in Int /\ ~(b > b + n - 1) /\ (b + n - 1) - b + 1 = n
    BY <1>3, SMTT(60)
  <2>6. IsFiniteSet(R) /\ Cardinality(R) = n
    BY <2>1, <2>5, FS_Interval
  <2>7. Cardinality(C \cup R) = Cardinality(C) + Cardinality(R) - Cardinality(C \cap R)
    BY <2>3, <2>6, FS_Union
  <2>8. Cardinality(C \cap R) = 0
    BY <1>1, <1>3, <2>1
  <2> QED
    BY <1>3, <2>1, <2>4, <2>6, <2>7, <2>8, SMTT(60)
<1> QED
  BY <1>1, <1>2, <1>3 DEF Counting

\* The invariant holds at the start and every step keeps it.
LEMMA Inductive == Spec => []IInv
<1>1. Init => IInv
  BY InitWithSource, InitWithSpan, Counted
<1>2. IInv /\ [Next]_vars => IInv'
  <2> SUFFICES ASSUME IInv, [Next]_vars
               PROVE  IInv'
    OBVIOUS
  <2>0. panic \in {"none", "Allocation failed"}
    BY DEF IInv, TypeOK
  <2>1. ASSUME NEW n \in Sizes, NEW align \in Aligns, Alloc(n, align)
        PROVE  IInv'
    BY <2>1, AllocCarves, CarveIInv, Counted
  <2>2. ASSUME NEW n \in Sizes, NEW align \in Aligns, AllocFails(n, align)
        PROVE  IInv'
    BY <2>2, StutterIInv DEF AllocFails
  <2>3. ASSUME NEW n \in Sizes, AllocImport(n)
        PROVE  IInv'
    BY <2>3, ImportIInv, Counted
  <2>4. ASSUME NEW h \in held, Free(h)
        PROVE  IInv'
    BY <2>4, FreeIInv, Counted
  <2>5. CASE UNCHANGED vars
    BY <2>0, <2>5, StutterIInv DEF vars
  <2> QED
    BY <2>1, <2>2, <2>3, <2>4, <2>5, SMTT(60) DEF Next
<1> QED
  BY <1>1, <1>2, PTL DEF Spec

\* The segments of a span tile it and no two free ones lie side by side, after
\* every split of vmem_xalloc, every import and every merge of vmem_xfree.
THEOREM SpansStayTiled == Spec => []SegmentsTile
<1>1. IInv => SegmentsTile
  <2> SUFFICES ASSUME IInv
               PROVE  SegmentsTile
    OBVIOUS
  <2>1. Tiled(segq) /\ Coalesced(segq) /\ DOMAIN segq = 1..Len(segq)
    BY QueueFacts
  <2>2. ASSUME NEW i \in DOMAIN segq, segq[i].type = "span"
        PROVE  i < Len(segq) /\ segq[i + 1].type # "span" /\ segq[i + 1].base = segq[i].base
    BY <2>1, <2>2 DEF Tiled, Opened, IsSpan
  <2>3. ASSUME NEW i \in DOMAIN segq, segq[i].type # "span"
        PROVE  \E p \in 1..(i - 1) :
                 /\ SpanOf(p, i)
                 /\ End(segq[i]) = IF LastOfSpan(i) THEN End(segq[p]) ELSE segq[i + 1].base
    <3>1. PICK p \in 1..(i - 1) :
            /\ SpanIn(segq, p, i)
            /\ End(segq[i]) = IF LastIn(segq, i) THEN End(segq[p]) ELSE segq[i + 1].base
      BY <2>1, <2>3 DEF Tiled, Placed, IsSpan
    <3>2. SpanOf(p, i)
      BY <3>1 DEF SpanIn, SpanOf, IsSpan
    <3>3. LastOfSpan(i) <=> LastIn(segq, i)
      BY DEF LastOfSpan, LastIn, IsSpan
    <3> QED
      BY <3>1, <3>2, <3>3
  <2>4. TypeOK
    BY DEF IInv
  <2> QED
    BY <2>1, <2>2, <2>3, <2>4 DEF SegmentsTile, Coalesced
<1> QED
  BY <1>1, Inductive, PTL

\* The free lists hold every free segment once and in its list, in_use counts the
\* addresses handed out and no boundary tag is lost.
THEOREM FreeListsStayExact == Spec => []FreeListsExact
<1>1. IInv => FreeListsExact
  BY DEF IInv
<1> QED
  BY <1>1, Inductive, PTL

\* vmem_xfree gives an imported span back as soon as nothing in it is allocated.
THEOREM ImportedSpansAreUsed == Spec => []ImportsInUse
<1>1. IInv => ImportsInUse
  <2> SUFFICES ASSUME IInv, hasSource
               PROVE  \A i \in DOMAIN segq : segq[i].type = "span" =>
                        segq[i + 1].type = "allocated" \/ End(segq[i + 1]) < End(segq[i])
    BY DEF ImportsInUse
  <2>1. InUse(segq) /\ DOMAIN segq = 1..Len(segq)
    BY QueueFacts DEF IInv, QueueOK
  <2> QED
    BY <2>1 DEF InUse, IsSpan
<1> QED
  BY <1>1, Inductive, PTL

\* The arena implements the allocator of ranges: a range that vmem_xalloc hands
\* out, from a free segment or from a new span, lies in the address space and
\* overlaps none that is still in use, and vmem_xfree takes back just that one.
THEOREM ArenaImplementsAllocator == Spec => ImplementsAllocator
<1>1. Init => Abstract!Init
  BY DEF Init, Abstract!Init
<1>2. IInv /\ [Next]_vars => [Abstract!Next]_held
  <2> SUFFICES ASSUME IInv, [Next]_vars
               PROVE  [Abstract!Next]_held
    OBVIOUS
  <2>1. ASSUME NEW n \in Sizes, NEW align \in Aligns, Alloc(n, align)
        PROVE  Abstract!Next
    <3>1. PICK i \in DOMAIN segq :
            segq[i].type = "free" /\ Fits(segq[i], n, align) /\ Carve(i, n, align)
      BY <2>1, AllocCarves, Counted
    <3>2. PICK start : start = FitStart(segq[i], align)
      OBVIOUS
    <3>3. Takes(i, segq[i], start, n) /\ held' = held \cup {<<start, n>>}
      BY <3>1, <3>2, FitsTakes DEF Carve
    <3>4. /\ start \in Addresses /\ start..(start + n - 1) \subseteq Addresses
          /\ \A h \in held : (h[1]..(h[1] + h[2] - 1)) \cap (start..(start + n - 1)) = {}
      BY <3>3, TakesApart
    <3>5. PICK r : r = <<start, n>>
      OBVIOUS
    <3>6. r \in Addresses \X Sizes /\ r[1] = start /\ r[2] = n
      BY <3>4, <3>5
    <3>7. Abstract!Alloc(r)
      BY <3>3, <3>4, <3>5, <3>6 DEF Abstract!Alloc, Abstract!CanAlloc, Abstract!Range
    <3> QED
      BY <3>6, <3>7 DEF Abstract!Next
  <2>2. ASSUME NEW n \in Sizes, AllocImport(n)
        PROVE  Abstract!Next
    <3>1. PICK b \in SourceAddresses :
            /\ Importable(b, n)
            /\ segq' = segq \o <<Segment("span", b, n), Segment("allocated", b, n)>>
            /\ held' = held \cup {<<b, n>>}
      BY <2>2 DEF AllocImport
    <3>2. PICK x : x = Segment("span", b, n)
      OBVIOUS
    <3>3. PICK y : y = Segment("allocated", b, n)
      OBVIOUS
    <3>4. segq' = segq \o <<x, y>> /\ hasSource' = hasSource
      BY <2>2, <3>1, <3>2, <3>3 DEF AllocImport
    <3>5. /\ b \in Addresses /\ b..(b + n - 1) \subseteq Addresses
          /\ \A t \in Range(segq) : ~IsSpan(t) => Apart(y, t)
      BY <3>1, <3>2, <3>3, <3>4, ImportQueue, SMTT(60)
    <3>6. b \in Nat /\ n \in Nat \ {0}
      BY <3>5, ArenaAssumption, SMTT(60) DEF Addresses
    <3>7. \A h \in held : (h[1]..(h[1] + h[2] - 1)) \cap (b..(b + n - 1)) = {}
      BY <3>3, <3>5, <3>6, ImportApart
    <3>8. PICK r : r = <<b, n>>
      OBVIOUS
    <3>9. r \in Addresses \X Sizes /\ r[1] = b /\ r[2] = n
      BY <3>5, <3>8
    <3>10. Abstract!Alloc(r)
      BY <3>1, <3>5, <3>7, <3>8, <3>9 DEF Abstract!Alloc, Abstract!CanAlloc, Abstract!Range
    <3> QED
      BY <3>9, <3>10 DEF Abstract!Next
  <2>3. ASSUME NEW h \in held, Free(h)
        PROVE  Abstract!Next
    <3>1. h \in Addresses \X Sizes /\ held' = held \ {h}
      BY <2>3 DEF IInv, TypeOK, Free
    <3> QED
      BY <3>1 DEF Abstract!Next, Abstract!Free
  <2>4. ASSUME NEW n \in Sizes, NEW align \in Aligns, AllocFails(n, align)
        PROVE  held' = held
    BY <2>4 DEF AllocFails
  <2>5. CASE UNCHANGED vars
    BY <2>5 DEF vars
  <2> QED
    BY <2>1, <2>2, <2>3, <2>4, <2>5, SMTT(60) DEF Next
<1> QED
  BY <1>1, <1>2, Inductive, PTL DEF Spec, ImplementsAllocator, Abstract!Spec
=============================================================================
