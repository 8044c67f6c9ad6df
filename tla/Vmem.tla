-------------------------------- MODULE Vmem --------------------------------
(***************************************************************************)
(* An arena of the vmem resource allocator (kernel/lib/vmem.c).            *)
(*                                                                         *)
(* An arena either starts with one span or imports spans from a source     *)
(* arena, as kernel-va and kernel-wired do in kernel/vm/kmem.c.  Addresses *)
(* and sizes are counted in units of the quantum.  Every operation holds   *)
(* the arena's lock at DISPATCH level, so it is one step.                  *)
(***************************************************************************)
EXTENDS Integers, FiniteSets, Sequences, Functions

CONSTANTS
  SpanSize,    \* the size of the initial span of an arena that has no source
  SourceAddresses, \* what the source of an arena that has one can give
  Sizes,       \* the sizes that are asked for
  Aligns,      \* the alignments that are asked for
  Refill,      \* boundary tags that repopulate_segments adds at a time
  RefillBelow  \* repopulate_segments adds tags when fewer are free

Addresses == 0..(SpanSize - 1)

ASSUME ArenaAssumption ==
  /\ SpanSize \in Nat \ {0}
  /\ SourceAddresses \subseteq Addresses
  /\ Refill \in Nat \ {0, 1} /\ RefillBelow \in Nat \ {0, 1}
  /\ Sizes \subseteq Nat \ {0} /\ Aligns \subseteq Nat \ {0}

VARIABLES
  hasSource,   \* Vmem.source is not NULL
  segq,        \* Vmem.segqueue
  freelist,    \* Vmem.freelist, each list as the bases of its segments
  nfreesegs,   \* the free boundary tags
  ntags,       \* the boundary tags there are
  in_use, total,  \* Vmem.stat
  held,        \* what the callers have: pairs of address and size
  panic

vars == <<hasSource, segq, freelist, nfreesegs, ntags, in_use, total, held, panic>>

Segment(ty, b, n) == [type |-> ty, base |-> b, size |-> n]
End(s) == s.base + s.size

-----------------------------------------------------------------------------
(* Free lists                                                              *)

Buckets == 0..SpanSize

\* GET_LIST: the highest power of two at or below n.
Bucket(n) == Cardinality({k \in 1..SpanSize : 2^k <= n})

\* vmem_add_to_freelist
Push(fl, b, n) == [fl EXCEPT ![Bucket(n)] = <<b>> \o @]

\* The list s without its entry b.
Without(s, b) ==
  LET i == CHOOSE i \in DOMAIN s : s[i] = b
  IN  [j \in 1..(Len(s) - 1) |-> IF j < i THEN s[j] ELSE s[j + 1]]

\* LIST_REMOVE of a free segment.
UnlinkNothing(fl, s) == fl
Unlink(fl, s) == [fl EXCEPT ![Bucket(s.size)] = Without(@, s.base)]

-----------------------------------------------------------------------------
(* vmem_xalloc                                                             *)

AlignUp(n, align) == ((n + align - 1) \div align) * align

\* seg_fit with the whole address space: where in s the range would start.
FitStart(s, align) == AlignUp(s.base, align)
Fits(s, n, align) == s.size >= n /\ FitStart(s, align) + n <= End(s)

\* The position of the free segment with base b.
FreeAt(b) == CHOOSE i \in DOMAIN segq : segq[i].type = "free" /\ segq[i].base = b

\* Entry j of free list k has room.
HasRoom(k, j, n, align) == Fits(segq[FreeAt(freelist[k][j])], n, align)

\* The best fit search stops at entry j of list k, the first that has room.
StopsAt(k, j, n, align) ==
  /\ HasRoom(k, j, n, align)
  /\ \A l \in Bucket(n)..k : \A i \in DOMAIN freelist[l] :
       HasRoom(l, i, n, align) => l = k /\ i >= j

NoneFits(n, align) ==
  \A k \in Bucket(n)..SpanSize : \A j \in DOMAIN freelist[k] : ~HasRoom(k, j, n, align)

\* The queue q with the segments of new in place of those from a to b.
Replaced(q, a, b, new) == SubSeq(q, 1, a - 1) \o new \o SubSeq(q, b + 1, Len(q))

\* repopulate_segments
Repopulated(tags) == IF nfreesegs < RefillBelow THEN tags + Refill ELSE tags

\* Of the two tags taken in advance, those that stay in use.
KeptTags(lead, rest) == Len(lead) + Len(rest)

\* The statistics; a negative n is memory given back.
Account(n) == in_use' = in_use + n /\ UNCHANGED total

\* The free segment from a to b, if there is anything in it.
FreeFrom(a, b) == IF a = b THEN <<>> ELSE <<Segment("free", a, b - a)>>
PushFrom(fl, a, b) == IF a = b THEN fl ELSE Push(fl, a, b - a)

\* The segment at i is split: what lies before the aligned start stays free,
\* the range is allocated, and what is left becomes a free segment.
Carve(i, n, align) ==
  LET s     == segq[i]
      start == FitStart(s, align)
      lead  == FreeFrom(s.base, start)
      rest  == FreeFrom(start + n, End(s))
  IN  /\ segq' = Replaced(segq, i, i, lead \o <<Segment("allocated", start, n)>> \o rest)
      /\ freelist' = PushFrom(PushFrom(Unlink(freelist, s), s.base, start), start + n, End(s))
      /\ nfreesegs' = Repopulated(nfreesegs) - KeptTags(lead, rest)
      /\ ntags' = Repopulated(ntags)
      /\ Account(n)
      /\ held' = held \cup {<<start, n>>}
      /\ UNCHANGED <<hasSource, panic>>

\* vmem_xalloc finds a free segment.  An arena with a source is only asked for
\* ranges aligned to its quantum.
Alloc(n, align) ==
  /\ panic = "none"
  /\ hasSource => align = 1
  /\ \E k \in Bucket(n)..SpanSize : \E j \in DOMAIN freelist[k] :
       /\ StopsAt(k, j, n, align)
       /\ Carve(FreeAt(freelist[k][j]), n, align)

ImportableAnywhere(b, n) == b..(b + n - 1) \subseteq SourceAddresses

\* The range at b of size n is a range that the source can give.
Importable(b, n) ==
  /\ b..(b + n - 1) \subseteq SourceAddresses
  /\ \A i \in DOMAIN segq : segq[i].type = "span" =>
       b + n <= segq[i].base \/ End(segq[i]) <= b

\* vmem_xalloc finds none, vmem_import adds a span of the source and the
\* search, which now finds the new segment, is repeated.
AllocImport(n) ==
  /\ panic = "none"
  /\ hasSource
  /\ NoneFits(n, 1)
  /\ \E b \in SourceAddresses :
       /\ Importable(b, n)
       /\ segq' = segq \o <<Segment("span", b, n), Segment("allocated", b, n)>>
       /\ nfreesegs' = Repopulated(nfreesegs) - 2
       /\ ntags' = Repopulated(ntags)
       /\ held' = held \cup {<<b, n>>}
  /\ Account(n)
  /\ UNCHANGED <<hasSource, freelist, panic>>

\* Neither the arena nor its source has the range: ASSERT(!"Allocation
\* failed"), in this arena or in the source.
AllocFails(n, align) ==
  /\ panic = "none"
  /\ hasSource => align = 1
  /\ NoneFits(n, align)
  /\ hasSource => \A b \in SourceAddresses : ~Importable(b, n)
  /\ panic' = "Allocation failed"
  /\ UNCHANGED <<hasSource, segq, freelist, nfreesegs, ntags, in_use, total, held>>

-----------------------------------------------------------------------------
(* vmem_xfree                                                              *)

\* A plausible slip: the base of the left neighbour is not taken over.
MergedKeepsBase(i) ==
  LET right == IF i < Len(segq) /\ segq[i + 1].type = "free" THEN i + 1 ELSE i
      left  == IF segq[i - 1].type = "free" THEN i - 1 ELSE i
  IN  [first |-> left, last |-> right,
       seg |-> Segment("free", segq[i].base, End(segq[right]) - segq[left].base)]

\* The segment at i with its free neighbours merged into it.
Merged(i) ==
  LET right == IF i < Len(segq) /\ segq[i + 1].type = "free" THEN i + 1 ELSE i
      left  == IF segq[i - 1].type = "free" THEN i - 1 ELSE i
  IN  [first |-> left, last |-> right,
       seg |-> Segment("free", segq[left].base, End(segq[right]) - segq[left].base)]

\* The merged segment is a whole span of the source.
GoesBackNever(m) == FALSE
GoesBack(m) ==
  LET span == segq[m.first - 1]
  IN  hasSource /\ span.type = "span" /\ span.size = m.seg.size

\* The boundary tags of merged segments, and of a span that goes back.
TagsFreed(m) == m.last - m.first + (IF GoesBack(m) THEN 2 ELSE 0)

\* The free lists without the neighbours of i that were merged.
Unlinked(i, m) ==
  LET fl == IF m.last = i THEN freelist ELSE Unlink(freelist, segq[m.last])
  IN  IF m.first = i THEN fl ELSE Unlink(fl, segq[m.first])

\* vmem_xfree of a range the caller has.  An imported span that becomes free
\* goes back to the source.
Free(h) ==
  LET i == CHOOSE j \in DOMAIN segq :
             segq[j].type = "allocated" /\ segq[j].base = h[1]
      m == Merged(i)
  IN  /\ panic = "none"
      /\ held' = held \ {h}
      /\ Account(-h[2])
      /\ nfreesegs' = nfreesegs + TagsFreed(m)
      /\ IF GoesBack(m)
         THEN /\ segq' = Replaced(segq, m.first - 1, m.last, <<>>)
              /\ freelist' = Unlinked(i, m)
         ELSE /\ segq' = Replaced(segq, m.first, m.last, <<m.seg>>)
              /\ freelist' = Push(Unlinked(i, m), m.seg.base, m.seg.size)
      /\ UNCHANGED <<hasSource, ntags, panic>>

-----------------------------------------------------------------------------
\* vmem_bootstrap and vmem_init, which counts the initial span twice.
Init ==
  /\ hasSource \in BOOLEAN
  /\ segq = IF hasSource THEN <<>>
            ELSE <<Segment("span", 0, SpanSize), Segment("free", 0, SpanSize)>>
  /\ freelist = [k \in Buckets |->
                   IF ~hasSource /\ k = Bucket(SpanSize) THEN <<0>> ELSE <<>>]
  /\ ntags = RefillBelow
  /\ nfreesegs = RefillBelow - Len(segq)
  /\ in_use = 0
  /\ total = IF hasSource THEN 0 ELSE SpanSize + SpanSize
  /\ held = {}
  /\ panic = "none"

Next ==
  \/ \E n \in Sizes, align \in Aligns : Alloc(n, align) \/ AllocFails(n, align)
  \/ \E n \in Sizes : AllocImport(n)
  \/ \E h \in held : Free(h)

Spec == Init /\ [][Next]_vars

-----------------------------------------------------------------------------
(* Properties                                                              *)

\* The segments of every queue have one of the three types and a range in
\* the address space; the counters never run below zero.
TypeOK ==
  /\ hasSource \in BOOLEAN
  /\ segq \in Seq([type : {"span", "free", "allocated"}, base : Addresses,
                    size : 1..SpanSize])
  /\ freelist \in [Buckets -> Seq(Addresses)]
  /\ nfreesegs \in Nat /\ ntags \in Nat /\ in_use \in Nat /\ total \in Nat
  /\ held \subseteq Addresses \X Sizes
  /\ panic \in {"none", "Allocation failed"}

\* p is the span that the segment at i lies in, and i is the last one in it.
SpanOf(p, i) == segq[p].type = "span" /\ \A j \in (p + 1)..i : segq[j].type # "span"
LastOfSpan(i) == i = Len(segq) \/ segq[i + 1].type = "span"

\* The segment after a span starts where the span starts, every other segment
\* starts where the one before it ends, and the last one before the next span
\* ends where its span ends: the segments of a span leave no gap and do not
\* overlap, whatever vmem_xalloc split and vmem_xfree merged.  There are never
\* two free segments side by side: freed memory does not stay fragmented.
SegmentsTile ==
  /\ TypeOK
  /\ \A i \in DOMAIN segq :
       IF segq[i].type = "span"
       THEN i < Len(segq) /\ segq[i + 1].type # "span" /\ segq[i + 1].base = segq[i].base
       ELSE \E p \in 1..(i - 1) :
              /\ SpanOf(p, i)
              /\ End(segq[i]) = IF LastOfSpan(i) THEN End(segq[p]) ELSE segq[i + 1].base
  /\ \A i \in 1..(Len(segq) - 1) :
       ~(segq[i].type = "free" /\ segq[i + 1].type = "free")

\* The free lists hold every free segment once, in the list of its size: the
\* search neither misses a free segment nor meets one that has been merged,
\* allocated or given back to the source.  The accounts are right too: stat.in_use
\* counts the addresses handed out, and no boundary tag is lost (vmem_xalloc takes
\* two in advance and returns the ones it does not need, vmem_xfree returns those
\* of merged segments and of spans given back).
FreeListsExact ==
  /\ \A k \in Buckets :
       /\ IsInjective(freelist[k])
       /\ Range(freelist[k]) = {s.base : s \in {t \in Range(segq) :
                                   t.type = "free" /\ Bucket(t.size) = k}}
  /\ in_use = Cardinality(UNION {h[1]..(h[1] + h[2] - 1) : h \in held})
  /\ nfreesegs + Len(segq) = ntags

\* An imported span is kept only while something in it is allocated:
\* vmem_xfree gives it back to the source when it becomes free.
ImportsInUse ==
  hasSource => \A i \in DOMAIN segq :
    segq[i].type = "span" => segq[i + 1].type = "allocated" \/ End(segq[i + 1]) < End(segq[i])

\* The arena is an allocator of ranges: vmem_alloc never gives out a range
\* that overlaps one still in use.
Abstract == INSTANCE RangeAllocator
ImplementsAllocator == Abstract!Spec

-----------------------------------------------------------------------------
(* What the comments say and the arena does not do.                        *)

\* vmem.c: "We go through every segment in every list until we find the
\* smallest free segment that can satisfy the allocation".
TakesSmallest ==
  [][\A h \in held' \ held, i, j \in DOMAIN segq :
       /\ segq[i].type = "free" /\ h[1] \in segq[i].base..(End(segq[i]) - 1)
       /\ segq[j].type = "free" /\ segq[j].size >= h[2]
       => segq[i].size <= segq[j].size]_vars

\* vmem.h: vmem_alloc "Returns the allocated address on success, NULL on
\* failure": running out of addresses is reported and stops nothing.
FailureIsReported == panic = "none"

\* vmem.h: stat.total is the "Total memory in the area".
TotalIsSpans ==
  total = Cardinality({a \in Addresses : \E s \in Range(segq) :
                         s.type = "span" /\ a \in s.base..(End(s) - 1)})
=============================================================================
