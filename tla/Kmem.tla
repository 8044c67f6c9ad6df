-------------------------------- MODULE Kmem --------------------------------
(***************************************************************************)
(* Wired kernel memory: the page allocator (kernel/vm/pm.c), the kernel's  *)
(* page tables (kernel/platform/amd64/vm.c) and vm_kalloc, vm_kfree and    *)
(* the large sizes of kmalloc and kfree (kernel/vm/kmem.c).                *)
(*                                                                         *)
(* vm_kalloc and vm_kfree run with the lock of the arena kernel-wired held *)
(* at DISPATCH level, so each is one step; the processor fills its TLB     *)
(* between them.  Of the arenas only their promise is used, that of        *)
(* RangeAllocator, and the pages they take for boundary tags.  Virtual     *)
(* addresses count pages, kmalloc's sizes bytes.                           *)
(***************************************************************************)
EXTENDS Integers, FiniteSets, SequencesExt

CONSTANTS
  KernelPages, \* the virtual pages of MEM_KERNEL
  NPages,      \* physical pages of the region given to pm_add_region
  Internal,    \* of these, the ones that hold the page descriptors
  Entries,     \* entries of a page table
  Counts,      \* page counts that vm_kalloc is called with
  Bytes,       \* sizes above KMALLOC_MAX that kmalloc is called with
  PageSize,
  Stack,       \* the virtual page of the stack that the allocator runs on
  NoPage

Pages == 1..NPages

ASSUME MemoryAssumption ==
  /\ KernelPages \subseteq Nat /\ Entries \in Nat \ {0, 1}
  /\ NPages \in Nat /\ Internal \in 0..NPages
  /\ Counts \subseteq Nat \ {0} /\ Bytes \subseteq Nat \ {0} /\ PageSize \in Nat \ {0}
  /\ Stack \notin KernelPages /\ NoPage \notin Pages

VARIABLES
  mem,    \* the page allocator and the page tables, see KmemInit
  tlb,    \* the translations the processor has cached
  ranges  \* the ranges in use, as pairs of address and page count

kmemVars == <<mem, tlb, ranges>>

-----------------------------------------------------------------------------
(* pm.c                                                                    *)

Panic(m) == [m EXCEPT !.panic = TRUE]

\* pm_allocate_n of one page, which is Head(m.freelist); it asserts that
\* there is one.
PmAllocate(m, usage) ==
  IF m.freelist = <<>> THEN Panic(m)
  ELSE [m EXCEPT !.freelist = Tail(@),
                 !.usage[Head(m.freelist)] = usage,
                 !.used = @ + 1]

\* pm_free_n of one page.
PmFree(m, page) ==
  [m EXCEPT !.freelist = Append(@, page),
            !.usage[page] = "free",
            !.used = @ - 1]

-----------------------------------------------------------------------------
(* Page tables                                                             *)

\* The table of a level that the walk for v goes through: level 1 holds the
\* entries of pages, level 3 is reached from the top table, which is there
\* from the start.
Table(v, level) == <<level, v \div Entries^level>>

\* One level of pte_walk with pteFlagCreateNew.
WalkLevelKeepsFree(m, t) ==
  IF t \in DOMAIN m.tables \/ m.panic THEN m
  ELSE LET n == PmAllocate(m, "vm")
       IN  IF n.panic THEN n
           ELSE [n EXCEPT !.freelist = m.freelist,
                          !.tables = [u \in DOMAIN @ \cup {t} |->
                                        IF u = t THEN Head(m.freelist) ELSE @[u]]]

WalkLevel(m, t) ==
  IF t \in DOMAIN m.tables \/ m.panic THEN m
  ELSE LET n == PmAllocate(m, "vm")
       IN  IF n.panic THEN n
           ELSE [n EXCEPT !.tables = [u \in DOMAIN @ \cup {t} |->
                                        IF u = t THEN Head(m.freelist) ELSE @[u]]]

PteWalk(m, v) == FoldLeft(WalkLevel, m, <<Table(v, 3), Table(v, 2), Table(v, 1)>>)

\* invlpg of the operand it is given.
Invlpg(t, operand) == [t EXCEPT ![operand] = NoPage]

\* vm_port_map of a page that is not huge.
VmPortMap(m, page, v) ==
  LET w == PteWalk(m, v)
  IN  IF w.panic THEN w ELSE [w EXCEPT !.pte[v] = page]

\* vm_port_unmap of a page that is not huge and whose tables exist.
VmPortUnmapNothing(m, v) == m
VmPortUnmap(m, v) == [m EXCEPT !.pte[v] = NoPage]

-----------------------------------------------------------------------------
(* kmem.c                                                                  *)

VA == INSTANCE RangeAllocator
        WITH Addresses <- KernelPages, Sizes <- Counts, held <- ranges

\* repopulate_segments when fewer than 128 boundary tags are free: a page whose
\* tags join the pool and that is never given back.
Repopulate(m) ==
  LET n == PmAllocate(m, "vm")
  IN  IF m.panic \/ n.panic THEN Panic(m)
      ELSE [n EXCEPT !.tagPages = @ \cup {Head(m.freelist)}]

PagesFrom(b, n) == [i \in 1..n |-> b + i - 1]

\* One turn of the loop of allocwired.
WirePage(m, v) ==
  LET n == PmAllocate(m, "wired")
  IN  IF m.panic \/ n.panic THEN Panic(m) ELSE VmPortMap(n, Head(m.freelist), v)

\* One turn of the loop of freewired.
UnwirePage(m, v) == PmFree(VmPortUnmap(m, v), m.pte[v])

\* vm_kalloc of n pages.  The arena kernel-wired never has a free segment of
\* its own, so it imports n pages with allocwired.  It and the arena kernel-va
\* first see to their boundary tags; how many are free is left open.
\* vm_port_map ends with an invlpg of the memory operand vaddr.addr, a variable
\* on the stack.
VmKalloc(n) ==
  /\ ~mem.panic
  /\ \/ \E b \in KernelPages :
          /\ VA!Alloc(<<b, n>>)
          /\ \E refilled \in {mem, Repopulate(mem), Repopulate(Repopulate(mem))} :
               mem' = FoldLeft(WirePage, refilled, PagesFrom(b, n))
          /\ tlb' = Invlpg(tlb, Stack)
     \/ /\ \A b \in KernelPages : ~VA!CanAlloc(<<b, n>>)
        /\ mem' = Panic(mem)
        /\ UNCHANGED <<tlb, ranges>>

\* vm_kfree, whose arena gives the pages back with freewired.
VmKfree(b, n) ==
  /\ ~mem.panic
  /\ VA!Free(<<b, n>>)
  /\ mem' = FoldLeft(UnwirePage, mem, PagesFrom(b, n))
  /\ UNCHANGED tlb

PageAlignUp(size) == ((size + PageSize - 1) \div PageSize) * PageSize

\* kmalloc and kfree of more than KMALLOC_MAX bytes, which pass the aligned
\* number of bytes where vm_kalloc and vm_kfree take a number of pages.
Kmalloc(size) == VmKalloc(PageAlignUp(size))

Kfree(b, size) == VmKfree(b, PageAlignUp(size))

-----------------------------------------------------------------------------
(* The processor                                                           *)

\* An access to a mapped page: its translation is cached.
Touch(v) ==
  /\ ~mem.panic
  /\ tlb[v] = NoPage /\ mem.pte[v] # NoPage
  /\ tlb' = [tlb EXCEPT ![v] = mem.pte[v]]
  /\ UNCHANGED <<mem, ranges>>

\* A cached translation makes room for another one.
Evict(v) ==
  /\ ~mem.panic
  /\ tlb[v] # NoPage
  /\ tlb' = [tlb EXCEPT ![v] = NoPage]
  /\ UNCHANGED <<mem, ranges>>

-----------------------------------------------------------------------------
\* pm_add_region of the only region, and the top table of the kernel map.
KmemInit ==
  /\ mem = [freelist |-> [i \in 1..(NPages - Internal) |-> Internal + i],
            usage    |-> [p \in Pages |-> IF p <= Internal THEN "internal" ELSE "free"],
            used     |-> Internal,
            tables   |-> <<>>,
            tagPages |-> {},
            pte      |-> [v \in KernelPages |-> NoPage],
            panic    |-> FALSE]
  /\ tlb = [v \in KernelPages \cup {Stack} |-> NoPage]
  /\ ranges = {}

KmemNext ==
  \/ \E n \in Counts : VmKalloc(n)
  \/ \E size \in Bytes : Kmalloc(size)
  \/ \E h \in ranges : VmKfree(h[1], h[2])
  \/ \E h \in ranges, size \in Bytes : h[2] = PageAlignUp(size) /\ Kfree(h[1], size)
  \/ \E v \in KernelPages : Touch(v) \/ Evict(v)

-----------------------------------------------------------------------------
(* Properties.  When a panic stops the kernel the allocation it stopped is *)
(* half done, and nothing is promised.                                     *)

\* Pages, tables and translations have their types.
KmemTypeOK ==
  /\ mem.freelist \in Seq(Pages)
  /\ mem.usage \in [Pages -> {"internal", "free", "vm", "wired"}]
  /\ mem.used \in 0..NPages
  /\ mem.tagPages \subseteq Pages
  /\ DOMAIN mem.tables \subseteq {Table(v, level) : v \in KernelPages, level \in 1..3}
  /\ mem.pte \in [KernelPages -> Pages \cup {NoPage}]
  /\ tlb \in [KernelPages \cup {Stack} -> Pages \cup {NoPage}]
  /\ ranges \subseteq KernelPages \X Nat

\* vm_kalloc backs every page of the ranges in use, and only those: a mapped
\* page has its tables and is wired memory, and vm_kfree leaves no mapping of
\* a page it has given back.
Backed ==
  /\ KmemTypeOK
  /\ ~mem.panic => \A v \in KernelPages :
       /\ mem.pte[v] # NoPage <=> \E h \in ranges : v \in VA!Range(h)
       /\ mem.pte[v] # NoPage =>
            /\ mem.usage[mem.pte[v]] = "wired"
            /\ \A level \in 1..3 : Table(v, level) \in DOMAIN mem.tables

\* Every physical page is in one place: on the free list, one page table, a
\* block of boundary tags, or behind one virtual page.  No two ranges share
\* memory, no page is lost, and vmstat.used is the number of pages that are not
\* free.
PagesAccounted ==
  ~mem.panic =>
    LET Mapped == {v \in KernelPages : mem.pte[v] # NoPage}
        Using(u) == {p \in Pages : mem.usage[p] = u}
    IN  /\ IsInjective(mem.freelist) /\ ToSet(mem.freelist) = Using("free")
        /\ IsInjective(mem.tables)
        /\ Range(mem.tables) \cap mem.tagPages = {}
        /\ Range(mem.tables) \cup mem.tagPages = Using("vm")
        /\ \A v, w \in Mapped : mem.pte[v] = mem.pte[w] => v = w
        /\ {mem.pte[v] : v \in Mapped} = Using("wired")
        /\ mem.used = NPages - Len(mem.freelist)

\* vm_port_map ends with "invlpg(vaddr)", so that accesses to the page it has
\* mapped go where its entry points: the processor has no translation of a
\* mapped page other than the one in the page table.
TlbCoherent ==
  ~mem.panic => \A v \in KernelPages :
    tlb[v] # NoPage /\ mem.pte[v] # NoPage => tlb[v] = mem.pte[v]
=============================================================================
