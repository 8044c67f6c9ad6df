-------------------------------- MODULE Boot --------------------------------
(***************************************************************************)
(* Bringing the machine up: kmain and kmain_threaded on the boot processor *)
(* (main.c), port_start_cores (platform/limine-generic/entry.c) and        *)
(* port_smp_entry on every other core (platform/amd64/entry.c), and the    *)
(* mappings made on the way (boot/map.c).                                  *)
(*                                                                         *)
(* Each call is a step. Of a call is kept what it needs set up before and  *)
(* what it sets up, for all or for its own core; the calls through which   *)
(* the cores meet are written out. Cores are numbered as the boot loader   *)
(* lists them. The boot processor has LAPIC id 0, as port_start_cores      *)
(* supposes.                                                               *)
(***************************************************************************)
EXTENDS Integers, SequencesExt, FiniteSets, TLC

CONSTANTS
  SmpLists,    \* responses of the boot loader: sequences of LAPIC ids
  MaxCores,    \* MAX_CORES
  Page, Large, Huge,        \* PAGE_SIZE, MiB(2) and GiB(1), scaled down
  MemEntries,  \* entries of the memory map: base and length
  Sections     \* sections of the kernel: start and end

ASSUME BootAssumption ==
  /\ \A l \in SmpLists : IsInjective(l) /\ 0 \in Range(l)
  /\ Large % Page = 0 /\ Huge % Large = 0

VARIABLES
  smp,         \* the list of the boot loader
  pc,          \* the next call of each core
  has,         \* what is set up for all
  own,         \* what is set up for each core
  loop,        \* i of the loops of port_start_cores
  store,       \* the next store of the first loop
  goto,        \* cores whose goto_address is written
  ready,       \* cores with smp_info.ready
  cpuId,       \* cpudata.cpu_id
  nextCpuId,   \* next_cpu_id
  list,        \* g_cpudatalist: the core whose cpudata is at each index
  hhdm,        \* pages mapped for each entry of the memory map
  image        \* pages mapped for each section

bootVars == <<smp, pc, has, own, loop, store, goto, ready, cpuId, nextCpuId,
              list, hhdm, image>>

Cores == DOMAIN smp
Bsp == CHOOSE c \in Cores : smp[c] = 0

-----------------------------------------------------------------------------
(* The programs.                                                           *)

\* A call, what it uses (of all, of its core) and what it sets up.
Does(call, uses, usesOwn, gives, givesOwn) ==
  [call |-> call, uses |-> uses, usesOwn |-> usesOwn,
   gives |-> gives, givesOwn |-> givesOwn]

CommonInitCall == Does("common_init", {"descriptors", "features"}, {"argument"}, {}, {"cpudata"})
ActivateCall == Does("activate", {"mapped"}, {}, {}, {"cr3"})
ApicEnableCall == Does("apic_enable", {"apic", "clocksource"}, {"cpudata", "cr3"}, {}, {"timer"})
InitIdleCall == Does("init_idle", {"arenas", "pages"}, {"cpudata", "cr3"}, {}, {"idle_thread"})
JumpIdleCall == Does("jump_idle", {}, {"idle_thread"}, {}, {"idle"})

Kmain ==
  <<Does("printk_init", {}, {}, {"log"}, {}),
    Does("early_port_output", {"log"}, {}, {}, {}),
    Does("early_port_bsp_init", {}, {}, {"descriptors", "features"}, {}),
    CommonInitCall,
    Does("pm_init", {}, {}, {"pm"}, {}),
    Does("early_port_add_pmem", {"pm"}, {}, {"pages"}, {}),
    Does("vm_port_init_map", {"pages"}, {}, {"kmap"}, {}),
    Does("map_memory", {"kmap", "pages"}, {}, {"mapped"}, {}),
    ActivateCall,
    Does("va_kernel_init", {"kmap"}, {"cr3"}, {"arenas"}, {}),
    InitIdleCall,
    JumpIdleCall>>

\* kickstart_kmain makes the thread that goes on, up to its wait for a timer.
\* The wait does not end: waking a waiting thread fails the assertion of
\* spinlock_acquire (NoSelfDeadlock of DispatchObj).
KmainThreaded ==
  <<Does("kickstart_kmain", {"arenas", "pages"}, {"cpudata", "idle"}, {}, {}),
    Does("kmem_init", {"arenas", "pages"}, {}, {"kmem"}, {}),
    Does("sched_kmem_init", {"kmem"}, {}, {"thread_cache"}, {}),
    Does("early_port_post_kmem", {"kmem"}, {}, {}, {}),
    Does("irq_init", {"kmem"}, {}, {"irq"}, {}),
    Does("time_init", {}, {"cpudata"}, {}, {"timer_update"}),
    Does("acpi_early_init", {"kmem", "arenas"}, {}, {"acpi"}, {}),
    Does("hpet_init", {"acpi", "arenas"}, {}, {"clocksource"}, {}),
    Does("apic_init", {"arenas", "irq"}, {}, {"apic"}, {}),
    ApicEnableCall,
    Does("start_cores", {"kmem"}, {"cpudata"}, {}, {}),
    Does("wait_cores", {}, {}, {}, {}),
    Does("devkit_init", {"acpi", "kmem", "arenas"}, {}, {}, {}),
    Does("timer_install", {"clocksource"}, {"timer", "timer_update"}, {}, {}),
    Does("spawn", {"thread_cache", "arenas"}, {"cpudata"}, {}, {}),
    Does("wait_single", {}, {"cpudata", "idle"}, {}, {})>>

\* A plausible slip: the core reports itself before its APIC is set up.
SmpEntryEarly ==
  <<CommonInitCall, ActivateCall, Does("ready", {"log"}, {}, {}, {}),
    ApicEnableCall, InitIdleCall, JumpIdleCall>>

SmpEntry ==
  <<CommonInitCall, ActivateCall, ApicEnableCall,
    Does("ready", {"log"}, {}, {}, {}), InitIdleCall, JumpIdleCall>>

Program(c) == IF c = Bsp THEN Kmain \o KmainThreaded ELSE SmpEntry

Runs(c) == c = Bsp \/ c \in goto
AtEnd(c) == pc[c] > Len(Program(c))
About(c) == Program(c)[pc[c]]
At(c, call) == Runs(c) /\ ~AtEnd(c) /\ About(c).call = call

\* The call sets up what it sets up and returns.
Returns(c) ==
  /\ pc' = [pc EXCEPT ![c] = @ + 1]
  /\ has' = has \cup About(c).gives
  /\ own' = [own EXCEPT ![c] = @ \cup About(c).givesOwn]

-----------------------------------------------------------------------------
(* Mappings.                                                               *)

Down(a) == a - (a % Page)
Up(a) == Down(a + Page - 1)

\* A plausible slip: a large page is used wherever its start is aligned.
NextSizeGreedy(base, end, hugepages) ==
  IF ~hugepages THEN Page
  ELSE IF base % Huge = 0 THEN Huge
  ELSE IF base % Large = 0 THEN Large
  ELSE Page

\* The page remap_memmap_entry maps at base. Up to the first multiple of 2MB
\* it has only small pages to choose from, as the second loop has.
NextSize(base, end, hugepages) ==
  IF ~hugepages THEN Page
  ELSE IF base % Huge = 0 /\ base + Huge <= end THEN Huge
  ELSE IF base % Large = 0 /\ base + Large <= end THEN Large
  ELSE Page

RECURSIVE RemapFrom(_, _, _)
RemapFrom(base, end, hugepages) ==
  IF base >= end THEN <<>>
  ELSE LET size == NextSize(base, end, hugepages)
       IN  <<[at |-> base, size |-> size]>> \o RemapFrom(base + size, end, hugepages)

RemapMemmapEntry(entry, hugepages) ==
  RemapFrom(Down(entry.base), Down(entry.base) + Up(entry.length), hugepages)

\* MAP_SECTION of remap_kernel.
MapSection(section) == RemapFrom(Down(section.start), Up(section.end), FALSE)

\* early_port_map_memory, with and without CONFIG_HHDM_HUGEPAGES.
MapMemory ==
  /\ At(Bsp, "map_memory")
  /\ \E hugepages \in BOOLEAN :
       hhdm' = [e \in MemEntries |-> RemapMemmapEntry(e, hugepages)]
  /\ image' = [s \in Sections |-> MapSection(s)]
  /\ Returns(Bsp)
  /\ UNCHANGED <<smp, loop, store, goto, ready, cpuId, nextCpuId, list>>

-----------------------------------------------------------------------------
(* The steps through which the cores meet.                                 *)

\* early_port_cpu_common_init: cpudata_setup clears the cpudata and takes the
\* next number. sched_init empties the one done_queue of all cores, where no
\* thread is yet.
CommonInit(c) ==
  /\ At(c, "common_init")
  /\ cpuId' = [cpuId EXCEPT ![c] = nextCpuId]
  /\ nextCpuId' = nextCpuId + 1
  /\ Returns(c)
  /\ UNCHANGED <<smp, loop, store, goto, ready, list, hhdm, image>>

\* cpudata_set: a list that grows has nothing at the indices it skips.
Nobody == 0
CpudataSet(idx, c) ==
  list' = [i \in 0..Max({idx, Cardinality(DOMAIN list) - 1}) |->
             IF i = idx THEN c ELSE IF i \in DOMAIN list THEN list[i] ELSE Nobody]

InLoop == loop <= Len(smp) /\ loop <= MaxCores

\* The first loop of port_start_cores, a store at a time: the core runs from
\* the second on.
StartCore ==
  /\ At(Bsp, "start_cores") /\ InLoop
  /\ \/ /\ loop = Bsp
        /\ CpudataSet(0, Bsp)
        /\ loop' = loop + 1
        /\ UNCHANGED <<store, goto, ready, own>>
     \/ /\ loop # Bsp /\ store = "extra_argument"
        /\ ready' = ready \ {loop}
        /\ own' = [own EXCEPT ![loop] = {"argument"}]
        /\ store' = "goto_address"
        /\ UNCHANGED <<loop, goto, list>>
     \/ /\ loop # Bsp /\ store = "goto_address"
        /\ goto' = goto \cup {loop}
        /\ store' = "cpudata_set"
        /\ UNCHANGED <<loop, ready, own, list>>
     \/ /\ loop # Bsp /\ store = "cpudata_set"
        /\ CpudataSet(smp[loop], loop)
        /\ loop' = loop + 1 /\ store' = "extra_argument"
        /\ UNCHANGED <<goto, ready, own>>
  /\ UNCHANGED <<smp, pc, has, cpuId, nextCpuId, hhdm, image>>

\* The second loop: the spin on the ready of a core.
WaitCore ==
  /\ At(Bsp, "wait_cores") /\ InLoop
  /\ loop = Bsp \/ loop \in ready
  /\ loop' = loop + 1
  /\ UNCHANGED <<smp, pc, has, own, store, goto, ready, cpuId, nextCpuId, list,
                 hhdm, image>>

LoopEnds ==
  /\ At(Bsp, "start_cores") \/ At(Bsp, "wait_cores")
  /\ ~InLoop
  /\ loop' = 1
  /\ Returns(Bsp)
  /\ UNCHANGED <<smp, store, goto, ready, cpuId, nextCpuId, list, hhdm, image>>

\* A plausible slip: ap_data is indexed by the LAPIC id.
ReadyByLapic(c) ==
  /\ At(c, "ready")
  /\ ready' = ready \cup {smp[c] + 1}
  /\ Returns(c)
  /\ UNCHANGED <<smp, loop, store, goto, cpuId, nextCpuId, list, hhdm, image>>

\* The store to ready of port_smp_entry.
Ready(c) ==
  /\ At(c, "ready")
  /\ ready' = ready \cup {c}
  /\ Returns(c)
  /\ UNCHANGED <<smp, loop, store, goto, cpuId, nextCpuId, list, hhdm, image>>

\* Every other call works on what is its own or what only one core touches.
Call(c) ==
  /\ Runs(c) /\ ~AtEnd(c)
  /\ About(c).call \notin {"map_memory", "common_init", "start_cores",
                           "wait_cores", "ready", "wait_single"}
  /\ Returns(c)
  /\ UNCHANGED <<smp, loop, store, goto, ready, cpuId, nextCpuId, list,
                 hhdm, image>>

BootStep(c) ==
  \/ Call(c) \/ CommonInit(c) \/ Ready(c)
  \/ c = Bsp /\ (MapMemory \/ StartCore \/ WaitCore \/ LoopEnds)

BootNext == \E c \in Cores : BootStep(c)

BootInit ==
  /\ smp \in SmpLists
  /\ pc = [c \in Cores |-> 1]
  /\ has = {}
  /\ own = [c \in Cores |-> IF c = Bsp THEN {"argument"} ELSE {}]
  /\ loop = 1 /\ store = "extra_argument"
  /\ goto = {} /\ ready = {}
  /\ cpuId = [c \in Cores |-> -1] /\ nextCpuId = 0
  /\ list = [i \in {} |-> Nobody]
  /\ hhdm = <<>> /\ image = <<>>

-----------------------------------------------------------------------------
(* Properties.                                                             *)

Started == {c \in Cores : c # Bsp /\ c <= MaxCores}
Past(call) == \E i \in 1..(pc[Bsp] - 1) : Program(Bsp)[i].call = call

\* No core makes a call before what the call uses is set up, however the cores
\* started by port_start_cores run against the boot processor. Numbers of cores
\* are distinct. After "all cores up" each core started has its cpudata in
\* g_cpudatalist, runs on the kernel map and has its timer calibrated.
BootOrdered ==
  /\ \A c \in Cores : Runs(c) /\ ~AtEnd(c) =>
       About(c).uses \subseteq has /\ About(c).usesOwn \subseteq own[c]
  /\ \A c, d \in Cores : c # d /\ cpuId[c] >= 0 => cpuId[c] # cpuId[d]
  /\ Past("wait_cores") => \A c \in Started :
       {"cpudata", "cr3", "timer"} \subseteq own[c] /\ list[smp[c]] = c

\* Once kmain has begun, every core that port_start_cores starts comes to idle,
\* and the boot processor gets past its wait for them to "all cores up".
AllCoresRun ==
  pc[Bsp] > 1 ~> Past("wait_cores") /\ \A c \in Started : AtEnd(c)

\* When the boot processor activates the kernel map, early_port_map_memory has
\* mapped every entry of the memory map, rounded to pages, without a gap and
\* nothing twice, with pages that are aligned to their size and end with the
\* entry; and of a section all pages that hold a byte of it.
HhdmExact ==
  At(Bsp, "activate") =>
    LET Covers(pages, first, end) ==
          \A a \in first..(end + Huge) :
            Cardinality({i \in DOMAIN pages :
                           a \in pages[i].at..(pages[i].at + pages[i].size - 1)})
              = IF a < end THEN 1 ELSE 0
    IN  /\ \A e \in MemEntries :
             /\ Covers(hhdm[e], Down(e.base), Down(e.base) + Up(e.length))
             /\ \A i \in DOMAIN hhdm[e] : hhdm[e][i].at % hhdm[e][i].size = 0
        /\ \A s \in Sections : Covers(image[s], Down(s.start), Up(s.end))
=============================================================================
