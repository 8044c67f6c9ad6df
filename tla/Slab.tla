-------------------------------- MODULE Slab --------------------------------
(***************************************************************************)
(* The slab allocator, kernel/lib/slab.c.                                  *)
(*                                                                         *)
(* kmem_cache_alloc and kmem_cache_free run under the mutex of their cache *)
(* and the caches they call are only used through their own calls, so each *)
(* call is one step.  kmem_cache_destroy takes no mutex: it is one step    *)
(* for every call it makes, and the users of the other caches go on        *)
(* between them.  Its caller sees to it that nobody uses the cache itself. *)
(*                                                                         *)
(* A slab is named by its page run, an object by its slab and its chunk.   *)
(* A slab of a small cache describes itself; a slab of a large cache takes *)
(* a descriptor from slab_cache and one bufctl per chunk from              *)
(* bufctl_cache, which are small caches.                                   *)
(***************************************************************************)
EXTENDS Naturals, FiniteSets, SequencesExt

CONSTANTS
  SmallCaches, LargeCaches,  \* the caches of the kernel's users
  slab_cache, bufctl_cache,
  slabcap,     \* kmem_cache_t.slabcap
  PageRuns     \* the page runs vm_kalloc can return: 1..n

Users == SmallCaches \cup LargeCaches
Caches == Users \cup {slab_cache, bufctl_cache}

ASSUME CachesAssumption ==
  /\ slabcap \in [Caches -> Nat \ {0}]
  /\ LargeCaches \cap (SmallCaches \cup {slab_cache, bufctl_cache}) = {}
  /\ SmallCaches \cap {slab_cache, bufctl_cache} = {}
  /\ slab_cache # bufctl_cache

VARIABLES
  kmem,        \* slabs and the lists of every cache, see SlabInit
  held,        \* the objects the users of a cache have
  phase,       \* of a cache: live, destroying (in kmem_cache_destroy), destroyed
  victim       \* of the slab that is being destroyed, what is still to be freed

slabVars == <<kmem, held, phase, victim>>

-----------------------------------------------------------------------------
(* One slab                                                                *)

\* vm_kalloc returns a run that is not in use; which one does not matter.
Fresh(m) == Min((1..(Cardinality(DOMAIN m.slabs) + 1)) \ DOMAIN m.slabs)

\* A slab without bufctls, with all its chunks on the free list.
NewSlab(c) ==
  [cache |-> c, refcnt |-> 0, desc |-> <<>>, bufctl |-> <<>>,
   freelist |-> [i \in 1..slabcap[c] |-> slabcap[c] + 1 - i]]

\* The slab s becomes slab p, the first of the partial list of its cache.
AddSlab(m, p, s) ==
  [m EXCEPT !.slabs = [q \in DOMAIN @ \cup {p} |-> IF q = p THEN s ELSE @[q]],
            !.slablist[s.cache] = <<p>> \o @]

\* The first free chunk of slab p is taken; with cap in use the slab is full
\* and changes lists.
TakeChunk(m, p, cap) ==
  LET s == m.slabs[p]
      c == s.cache
      full == s.refcnt + 1 = cap
  IN  [m EXCEPT
        !.slabs[p].freelist = Tail(@),
        !.slabs[p].refcnt = @ + 1,
        !.slablist[c] = IF full THEN Remove(@, p) ELSE @,
        !.full_slablist[c] = IF full THEN <<p>> \o @ ELSE @,
        !.buflist = IF s.desc = <<>> THEN @
                    ELSE [@ EXCEPT ![c] = <<<<p, Head(s.freelist)>>>> \o @]]

SlabAllocEarly(m, p) == TakeChunk(m, p, slabcap[m.slabs[p].cache] - 1)

\* slab_alloc.
SlabAlloc(m, p) == TakeChunk(m, p, slabcap[m.slabs[p].cache])

\* slab_free of chunk i of slab p, which is on buflist when p is large.
SlabFree(m, p, i) ==
  LET s == m.slabs[p]
      c == s.cache
      full == s.refcnt = slabcap[c]
  IN  [m EXCEPT
        !.slabs[p].freelist = <<i>> \o @,
        !.slabs[p].refcnt = @ - 1,
        !.slablist[c] = IF full THEN <<p>> \o @ ELSE @,
        !.full_slablist[c] = IF full THEN Remove(@, p) ELSE @,
        !.buflist = IF s.desc = <<>> THEN @ ELSE [@ EXCEPT ![c] = Remove(@, <<p, i>>)]]

-----------------------------------------------------------------------------
(* One cache                                                               *)

\* An object and the state after it was taken from the first partial slab.
Take(m, c) ==
  LET p == Head(m.slablist[c])
  IN  [obj |-> <<p, Head(m.slabs[p].freelist)>>, kmem |-> SlabAlloc(m, p)]

\* kmem_cache_alloc of a small cache, with small_slab_create.
AllocSmall(m, c) ==
  Take(IF m.slablist[c] = <<>> THEN AddSlab(m, Fresh(m), NewSlab(c)) ELSE m, c)

\* large_slab_create: descriptor, pages, and a bufctl for every chunk.
LargeSlabCreate(m, c) ==
  LET desc == AllocSmall(m, slab_cache)
      p    == Fresh(desc.kmem)
      slab == [NewSlab(c) EXCEPT !.desc = desc.obj]
      AddBufctl(k, i) ==
        LET b == AllocSmall(k, bufctl_cache)
        IN  [b.kmem EXCEPT !.slabs[p].bufctl = Append(@, b.obj)]
  IN  FoldLeft(AddBufctl, AddSlab(desc.kmem, p, slab), [i \in 1..slabcap[c] |-> i])

\* kmem_cache_alloc of a large cache.
AllocLarge(m, c) ==
  Take(IF m.slablist[c] = <<>> THEN LargeSlabCreate(m, c) ELSE m, c)

\* kmem_cache_free: a small slab is found from the address, a large one by
\* its bufctl on buflist.
FreeObj(m, obj) == SlabFree(m, obj[1], obj[2])

-----------------------------------------------------------------------------
(* Operations                                                              *)

\* kmem_cache_alloc, while vm_kalloc has page runs (it stops the kernel when
\* it has none).
Alloc(c) ==
  /\ phase[c] = "live"
  /\ LET a == IF c \in LargeCaches THEN AllocLarge(kmem, c) ELSE AllocSmall(kmem, c)
     IN  /\ DOMAIN a.kmem.slabs \subseteq PageRuns
         /\ kmem' = a.kmem
         /\ held' = [held EXCEPT ![c] = @ \cup {a.obj}]
  /\ UNCHANGED <<phase, victim>>

\* kmem_cache_free of an object the caller has.
Free(c, obj) ==
  /\ phase[c] = "live"
  /\ kmem' = FreeObj(kmem, obj)
  /\ held' = [held EXCEPT ![c] = @ \ {obj}]
  /\ UNCHANGED <<phase, victim>>

-----------------------------------------------------------------------------
(* kmem_cache_destroy, call by call                                        *)

Nothing == [page |-> 0, bufctls |-> <<>>, desc |-> <<>>]

VictimWithoutBufctls(p) == [page |-> p, bufctls |-> <<>>, desc |-> kmem.slabs[p].desc]

\* What slab p, empty and off its list, has to give back: the bufctls of a
\* large one, the page run, and the descriptor of a large one.
Victim(p) ==
  LET s == kmem.slabs[p]
  IN  [page    |-> p,
       bufctls |-> IF s.desc = <<>> THEN <<>>
                   ELSE [i \in DOMAIN s.freelist |-> s.bufctl[s.freelist[i]]],
       desc    |-> s.desc]

DestroyBegin(c) ==
  /\ phase[c] = "live"
  /\ kmem.full_slablist[c] = <<>>
  /\ phase' = [phase EXCEPT ![c] = "destroying"]
  /\ UNCHANGED <<kmem, held, victim>>

\* The next slab leaves the list; one in use ends the call, which returns -1.
DestroyNext(c) ==
  /\ phase[c] = "destroying" /\ victim[c] = Nothing
  /\ kmem.slablist[c] # <<>>
  /\ LET p == Head(kmem.slablist[c])
     IN  IF kmem.slabs[p].refcnt # 0
         THEN phase' = [phase EXCEPT ![c] = "live"] /\ UNCHANGED <<kmem, victim>>
         ELSE /\ kmem' = [kmem EXCEPT !.slablist[c] = Tail(@)]
              /\ victim' = [victim EXCEPT ![c] = Victim(p)]
              /\ UNCHANGED phase
  /\ UNCHANGED held

DestroyBufctl(c) ==
  /\ victim[c].bufctls # <<>>
  /\ kmem' = FreeObj(kmem, Head(victim[c].bufctls))
  /\ victim' = [victim EXCEPT ![c].bufctls = Tail(@)]
  /\ UNCHANGED <<held, phase>>

\* vm_kfree of the page run.
DestroyPages(c) ==
  /\ victim[c].bufctls = <<>> /\ victim[c].page # 0
  /\ kmem' = [kmem EXCEPT !.slabs = [q \in DOMAIN @ \ {victim[c].page} |-> @[q]]]
  /\ victim' = [victim EXCEPT ![c].page = 0]
  /\ UNCHANGED <<held, phase>>

DestroyDesc(c) ==
  /\ victim[c].page = 0 /\ victim[c].desc # <<>>
  /\ kmem' = FreeObj(kmem, victim[c].desc)
  /\ victim' = [victim EXCEPT ![c] = Nothing]
  /\ UNCHANGED <<held, phase>>

DestroyEnd(c) ==
  /\ phase[c] = "destroying" /\ victim[c] = Nothing
  /\ kmem.slablist[c] = <<>>
  /\ phase' = [phase EXCEPT ![c] = "destroyed"]
  /\ UNCHANGED <<kmem, held, victim>>

-----------------------------------------------------------------------------
(* Specification                                                           *)

\* What buflist ends with when the page of the cache was not zero.
StaleHead == <<0, 0>>

\* kmem_slab_init and kmem_cache_create of every cache.  kmem_cache_create
\* initialises two of the three lists: the first element of buflist is
\* whatever was in the page.
SlabInit ==
  /\ \E first \in [LargeCaches -> {<<>>, <<StaleHead>>}] :
       kmem = [slabs |-> <<>>,
               slablist |-> [c \in Caches |-> <<>>],
               full_slablist |-> [c \in Caches |-> <<>>],
               buflist |-> first]
  /\ held = [c \in Users |-> {}]
  /\ phase = [c \in Users |-> "live"]
  /\ victim = [c \in Users |-> Nothing]

SlabNext ==
  \E c \in Users :
    \/ Alloc(c)
    \/ \E obj \in held[c] : Free(c, obj)
    \/ DestroyBegin(c) \/ DestroyNext(c) \/ DestroyBufctl(c)
    \/ DestroyPages(c) \/ DestroyDesc(c) \/ DestroyEnd(c)

-----------------------------------------------------------------------------
(* Properties                                                              *)

Slabs(c) == {p \in DOMAIN kmem.slabs : kmem.slabs[p].cache = c}
Objects(c) == UNION {{p} \X (1..slabcap[c]) : p \in Slabs(c)}

\* The slabs on the lists of a cache: all but the one that is being destroyed.
Listed(c) == Slabs(c) \ {victim[d].page : d \in Users}

\* The objects of a cache that are in use: by its users, by the slabs of large
\* caches or by a slab that is being destroyed and has not yet freed them.
LargeSlabs == UNION {Listed(c) : c \in LargeCaches}
InUse(c) ==
  CASE c = slab_cache   -> {kmem.slabs[p].desc : p \in LargeSlabs}
                             \cup ({victim[d].desc : d \in Users} \ {<<>>})
    [] c = bufctl_cache -> UNION {ToSet(kmem.slabs[p].bufctl) : p \in LargeSlabs}
                             \cup UNION {ToSet(victim[d].bufctls) : d \in Users}
    [] OTHER            -> held[c]

\* Slabs, lists and objects in use have their types.
SlabTypeOK ==
  /\ DOMAIN kmem.slabs \subseteq PageRuns
  /\ \A p \in DOMAIN kmem.slabs :
       LET s == kmem.slabs[p]
       IN  /\ s.cache \in Caches
           /\ s.freelist \in Seq(1..slabcap[s.cache])
           /\ s.refcnt \in 0..slabcap[s.cache]
           /\ s.desc # <<>> <=> s.cache \in LargeCaches
           /\ Len(s.bufctl) = IF s.desc = <<>> THEN 0 ELSE slabcap[s.cache]
  /\ phase \in [Users -> {"live", "destroying", "destroyed"}]

\* Every slab of a cache is on one of its two lists, once, and the list tells
\* whether the slab has room: kmem_cache_alloc's assertion that the first
\* slab of slablist has room never fails.
ListsTellRoom ==
  /\ SlabTypeOK
  /\ \A c \in Caches :
       /\ IsInjective(kmem.slablist[c] \o kmem.full_slablist[c])
       /\ ToSet(kmem.slablist[c]) = {p \in Listed(c) : kmem.slabs[p].refcnt < slabcap[c]}
       /\ ToSet(kmem.full_slablist[c]) = {p \in Listed(c) : kmem.slabs[p].refcnt = slabcap[c]}

\* A chunk is either in use or on the free list of its slab, once: no object
\* is given out twice, none is lost, and no object in use lies in a slab whose
\* pages kmem_cache_destroy has freed.  The walk over buflist in
\* kmem_cache_free and the one in slab_free meet the bufctl of every object in
\* use of a large cache, and no other, before they come to what was in buflist
\* when the cache was created.
ChunksAccounted ==
  \A c \in Caches :
    /\ c \in LargeCaches =>
         LET known == SubSeq(kmem.buflist[c], 1, Cardinality(held[c]))
         IN  /\ ToSet(known) = held[c]
             /\ kmem.buflist[c] \in {known, Append(known, StaleHead)}
    /\ InUse(c) \subseteq Objects(c)
    /\ \A p \in Slabs(c) :
         LET s == kmem.slabs[p]
         IN  /\ IsInjective(s.freelist)
             /\ ToSet(s.freelist) = {i \in 1..slabcap[c] : <<p, i>> \notin InUse(c)}
             /\ s.refcnt + Len(s.freelist) = slabcap[c]
=============================================================================
