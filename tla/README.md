# A verification of the nyy kernel in TLA+

This directory models the parts of the nyy kernel whose correctness depends on
the order of events (scheduling, deferred calls, waiting, timers, the log, the
start of the processors), the allocators every other part relies on, and the
library code underneath (lists, trees, formatted output), with the PCI scan on
top. TLC checks the models on small instances. TLAPS proves the central safety
properties of scheduling, deferred calls, waiting, timers, interrupt vectors, the
log and the arenas for any number of threads, objects, priorities, timers,
interrupt sources, processors and messages, and for arenas of any size.
Paths below are relative to `src/kernel/`.

## The system

The kernel is a small amd64 kernel (the RISC-V port is a stub). Everything
runs in one kernel address space. Processors other than the first start, set
up their own data and run an idle thread; all other threads run on the first.

| Part | State | Operations | Uses |
|---|---|---|---|
| Interrupt levels, software interrupts, DPCs (`irq/`) | CR8, `softint_pending`, the DPC queue | raise, lower, dispatch, enqueue | – |
| Scheduler (`sched/sched.c`) | run queues and mask, `thread_current`, `thread_next`, done queue, preemption timer | insert, reschedule, preempt, yield, resume, exit | DPCs, timers |
| Dispatcher objects (`sched/dispatch.c`, `lib/event.c`, `lib/mutex.c`) | signal count, waiters, owner | wait, signal, reset, acquire, release | scheduler |
| Timers (`lib/time.c`, `platform/amd64/apic.c`) | heap of timers, `next_deadline`, one-shot counter | set, uninstall, progress, interrupt | DPCs, objects |
| Arenas (`lib/vmem.c`) | segment queue, free lists, boundary tags | alloc, free, import | – |
| Slabs (`lib/slab.c`) | slabs on two lists per cache, bufctls | alloc, free, destroy | wired memory, mutexes |
| Wired memory (`vm/kmem.c`, `vm/pm.c`, `platform/amd64/vm.c`) | page free list, page tables, TLB | `vm_kalloc`, `vm_kfree`, large `kmalloc` | arenas |
| Interrupt objects (`irq/irq.c`) | objects and flags of every vector | initialize | – |
| Log (`lib/log.c`, `lib/panic.c`) | message ring, console list, three kinds of spinlock | `printk`, `console_add`, `console_remove`, panic | lists, formatted output |
| Boot (`main.c`, `boot/map.c`, `platform/*/entry.c`, `lib/cpudata.c`) | what is set up, the flags of the cores, the cpudata list, the boot map | `kmain`, `kmain_threaded`, `port_start_cores`, `port_smp_entry` | all |
| PCI and device nodes (`devkit/`, `platform/amd64/pci.c`) | nodes, MCFG mapping, configuration space | scan, read, write | wired memory |
| Library (`include/sys/queue.h`, `include/sys/tree.h`, `include/nanoprintf.h`) | pointers of lists and trees, the buffer of a text | all operations of the headers | – |
| ACPI glue, descriptor tables, strings | see "Not modelled" | | |

What makes this code hard to test:

* interrupts fall between any two instructions that have them enabled, and
  nest by level; DPCs and preemption are decided on the way back;
* a thread is handed from queue to queue by code that runs in different
  contexts (a wake-up, a timer, a yield, an exit);
* `mutex_acquire` and `mutex_release` are several separate critical sections;
* the timer engine reads the clock, compares and arms while time goes on;
* the allocators keep the same fact in several structures (segment queue, free
  lists, tags, counters) through long sequences of splits and merges;
* the processor caches translations of pages that are mapped and unmapped;
* processors print, and panic, at the same time, and an assertion that fails
  inside `printk` prints;
* processors start while the first one goes on, with a few plain stores and one
  flag each to keep them in order;
* lists and trees are right for every short sequence one tries by hand, and the
  mirrored cases of a removal come up only in longer ones.

## Modules

| Module | Models | Correspondence |
|---|---|---|
| `Sched` | one CPU's scheduler with the dispatch path that drives it | `runq`, `run_mask`, `cur`, `next`, `done` are the fields of `scheduler_t` and `cpudata_t`; `pc` is the place in `irql_lower` / `softint_dispatch` / `dpc_run_queue` / `time_engine_progress` / `dpc_interrupt`. `Resume`, `Wait`, `Exit`, `IdleHalt` are what thread code calls, `Dispatch` is the way back to PASSIVE level, `ClockInterrupt` the hardware: its handler finds the deadline reached (`HandleReached`) or, because `apic_arm` rounds down, does nothing (`HandleEarly`, remembered in `early`). |
| `SchedProofs`, `SoftintProofs`, `DispatchProofs`, `TimerProofs`, `IrqProofs`, `LogProofs`, `VmemProofs` | the theorems about `Sched`, `Softint`, `DispatchObj`, `TimerEngine`, `Irq`, `Log`, `Vmem` | |
| `VmemQueues` | lemmas about queues of segments and free lists, for `VmemProofs` | |
| `Softint` | levels, nested interrupts, software interrupts, the DPC queue | one frame of `stack` per active function; a step is a stretch of code with interrupts disabled |
| `DpcQueue` | the promise of the DPC queue (abstract) | `Softint` implements it |
| `DispatchObj` | waits, events, mutexes, timers as objects | one action per call, `mutex_acquire` and `mutex_release` split where they are back at PASSIVE level |
| `TimerEngine` | timers, the engine, the APIC timer and the clock | `SetInstall`, `SetQueued`, `Uninstall` are calls, `Progress` the `timer_update` DPC; `early` remembers that an interrupt was ignored |
| `Vmem` | an arena, with an initial span or a source | `Alloc`, `AllocImport`, `AllocFails` are the outcomes of `vmem_xalloc`; `Free` is `vmem_xfree` |
| `RangeAllocator` | the promise of an arena (abstract) | `Vmem` implements it, `Kmem` relies on it |
| `Slab` | small and large caches | `Alloc` and `Free` are one call each with the calls they make; `DestroyBegin` to `DestroyEnd` are the calls of `kmem_cache_destroy` one by one |
| `Kmem` | page allocator, page tables, TLB, wired ranges | composes `pm.c`, `vm.c` and `kmem.c` over a `RangeAllocator`; `Repopulate` is the page an arena takes for boundary tags |
| `Irq` | objects on vectors | `Initialize` |
| `Log` | `printk`, ring, consoles, panic and `__assert_fail` | `pc`, `todo` are the place of a processor and the calls it has still to make; a step lies between two operations on spinlocks. `accepted`, `dropped`, `since` are history |
| `Boot` | the programs of all cores, the boot map | `Kmain`, `KmainThreaded`, `SmpEntry` list the calls with what each needs and sets up; `StartCore`, `WaitCore` are the loops of `port_start_cores`, the first a store at a time; `MapMemory` is `early_port_map_memory` |
| `Pci` | the scan, device nodes, configuration space | `PciInit` is the whole scan, over any small machine; `PciRead` and `PciWrite` the accesses of one, two and four bytes |
| `Lists` | `queue.h` at the level of pointers | one operator per macro; `q` holds the two pointers of each head and element, `lists` the sequences they stand for |
| `Trees` | `tree.h` at the level of pointers | `t` holds root, children, parents, colours; mirrored branches are one operator with a side |
| `Printf` | `nanoprintf.h` | `Literal`, `Conversion` are the turns of the loop of `npf_vpprintf`, `Finish` the end of `npf_vsnprintf`; characters are kept since the properties are about them |

`MCx` and `MCx.cfg` instantiate module `x` for TLC. `MCLib` (lists, trees,
formatted output, slabs, timers, kernel pages) and `MCPlatform` (boot, PCI,
vectors, arenas) hold several components each. These share no state while they
are exercised, so a behaviour picks one of them at the start (`subject`) and
leaves the others alone.

Nothing in the kernel uses `tree.h` yet; `Trees` is about the header as it stands.
The characters that `Printf` keeps are the ones its properties read: digits,
signs, prefixes and padding.

**Granularity.** Code at DISPATCH level cannot be preempted, and the only thing
an interrupt does to the state of these modules is to queue a DPC. A step is
therefore a stretch of code at DISPATCH level where only threads compete
(`DispatchObj`, `Vmem`, `Kmem`, `Irq`), a call under a mutex in `Slab`, and a stretch
with interrupts disabled where interrupts matter (`Softint`). `Log` steps from one lock operation
to the next, because its processors really run at the same time; `Boot` steps
from call to call, and store by store where the cores meet. `Sched` and `TimerEngine` lie
between: the clock interrupt may fall between any two of their steps.

**Panics.** A failed assertion stops the kernel. The modules that can reach one
have a variable or field `panic`, after which no step is possible. This is why
their configurations do not check for deadlock; in `Sched` and `Softint` the
system never stops, and deadlock is checked.

## Runs

| Run | Checks |
|---|---|
| `sched` | Mask and queues agree; a thread is in one place; thread code runs only when nothing above it is ready; a chosen `thread_next` and a queued preemption timer always have something on the way that serves them; preemption happens and time slices end |
| `softint` | At PASSIVE level nothing is pending, whatever interrupted what; DPCs are queued once and dispatching does not nest; levels are restored; refinement of `DpcQueue` with its liveness |
| `dispatch` | Waiters and counts agree, nobody waits for a signalled object, a mutex has one owner |
| `log` | Consoles show messages in the order they were accepted and once; the ring is empty when the lock is free and what was accepted is shown or met a locked list; a `printk` never loses a message to another `printk`; every call returns, except after a message that is too long |
| `lib` | Lists and trees agree with the sequences and sets they stand for after every operation, red-black trees are balanced; printed numbers read back and texts stay in their buffer; slabs are on the list that tells their room and chunks are accounted for across the caches that large caches share, also while one of them is destroyed; `next_deadline` is the first deadline or the engine will look again, timers do not fire early or out of order, and only an ignored early interrupt leaves one behind; ranges in use, and only those, are backed, and physical pages are conserved |
| `platform` | No core uses what is not set up, and all cores come up; the boot map covers memory without gap or overlap; a scan that stays inside the mappings finds each reachable function once; writes change the bytes they name; vectors are shared by agreement and only when full; segments tile their span and free neighbours are merged, free lists are exact and tags conserved, imported spans go back, allocations never overlap (refinement of `RangeAllocator`) |
| `sched_standby`, `dispatch_deadlock`, `dispatch_mutex`, `timer_early`, `kmem_tlb`, `pci_mcfg` | Six statements of the code's own comments, assertions or tests that the code does not keep, see below |

### Bounds

* `sched`: four threads. Two share a priority, one is above, one is at the
  priority of the idle thread: every comparison of priorities has all its
  outcomes, and queues hold two threads. Nothing else is bounded.
* `softint`: two DPCs, two interrupt sources of different level, so an interrupt
  nests in an interrupt over a DPC over thread code.
* `dispatch`: three threads, one object of each kind; two can queue behind one.
* `lib` and `timer_early`, timers: two timers, a clock that stops at 5 (`MaxNow`),
  two clock units per APIC tick (`Tick`), so that rounding down matters.
* `platform`, arenas: a span of 8 quanta (`SpanSize`) or a source of 5, sizes 1 to 3, alignments 1 and 2:
  three power-of-two lists, leading and trailing remainders, merges on both
  sides. The pool of tags is refilled by 4 below 8 (`Refill`, `RefillBelow`).
* `log`: two processors, two messages (`MaxPrints`), three changes of the list
  (`MaxChanges`), one panic besides those of failed assertions (`MaxPanics`), a
  ring of two slots. Under `print_lock` the ring never holds more than one
  message unless an assertion failed, so a longer ring adds nothing. One console
  has no write function, one comes and goes.
* `lib`: three elements and two heads for each kind of list: insertions and
  removals at the front, in the middle and at the end, and joins with empty
  queues. Eight keys, enough for every case of recolouring and rotation.
  Formats: every flag and the pairs that meet in the code, all kinds of width
  and precision, numbers of 8 bits (`IntBits`; `char` 4, `short` 6, `long` 12),
  zero, negative, the most negative `int` and `long`, and cut by a modifier, buffers
  shorter and longer than the text. Slabs of one to three chunks and four page
  runs (`PageRuns`): two large caches and the caches they share fit, or one of them
  and slabs of a small one.
* `platform`, boot: up to four cores, `MAX_CORES` of 3, the boot processor first,
  in the middle or last, LAPIC ids with gaps; pages of 2, 4 and 8 units in place
  of 4K, 2M and 1G, and every entry of up to 12 units from 9 bases.
* `platform`, PCI: three buses, six places for functions, every assignment of
  devices and bridges to them, six MCFG tables,
  the two mappings of one of them adjacent or not; two words of configuration space.
* `platform`, vectors: four objects on two levels of two vectors (the kernel has
  16 each).
* `lib` and `kmem_tlb`, pages: five virtual pages under two second-level
  tables with two entries per table, seven physical pages, so memory can run out
  in every place. A call of `vm_kalloc` goes through two arenas and takes a page for
  boundary tags for none, one or both of them.

Symmetry is used for threads, timers and objects that only appear in
quantifiers, and in no run with a liveness property.

### Fairness

* `Sched!FairSpec`: weak fairness of the dispatch path (the processor executes),
  of time, and of the clock interrupt (a one-shot timer that is armed and due
  interrupts when it is enabled). Whether it comes before the deadline is not
  up to fairness, so `SliceExpires` makes an ignored early interrupt its exception.
  Nothing is assumed of threads: they may compute for ever, which is what
  `SliceExpires` is about.
* `Softint!FairSpec`: the code of every frame keeps executing although interrupts
  come again and again (strong fairness per depth of the stack), DPC functions
  return, and code that raised the level lowers it. Interrupts are not fair.
* `Log!FairSpec`: every processor keeps executing (weak fairness of its steps).
  Spinlocks are not fair in the code; `CallsReturn` needs no more because the calls
  are bounded, so a processor that spins gets the lock in the end.
* `MCPlatform!PlatformSpec`: every core that has been started keeps executing.

## Proofs

`SchedProofs` proves, for every set of threads, every number of priorities and
every assignment of priorities, that `Spec` implies always `TypeOK`,
`RunQueuesConsistent`, `OnePlace`, `PassiveRunsHighest`, `PreemptionPending` and
`TimerServed`. The assumptions are those of `Sched`: the idle thread and the
null pointer are not ordinary threads, and the idle thread has priority 0.

`PassiveRunsHighest` is not inductive: it speaks only of PASSIVE level, and a
step that returns there has to know what the code above established. The
inductive invariant `IInv` adds

* `QueuesBelow`: at every place, no queued thread is above the running one and
  `thread_next` is not below it. `sched_insert` keeps it because it queues only
  threads that do not preempt, `sched_preempt` because it requeues a thread that
  `thread_next` is not below, and a yield because `sched_next` takes the highest;
* `UpdatePending`: `timer_update` is enqueued only with a software interrupt
  pending or inside `dpc_run_queue`, which `TimerServed` needs when the queue is
  run.

`TimerServed` has one exception, `early`: the last clock interrupt came before the
deadline and its handler did nothing. The code then leaves the preemption timer
in the heap with the counter stopped until something else arms it.

The lemmas `EnqueueQueues` and `DequeueQueues` say what an append and a removal
do to the run queues position by position, `EnqueueConsistent` and
`DequeueConsistent` lift this to mask, priorities and uniqueness, and one lemma
per action (`ResumeIInv`, `YieldIInv`, `PreemptIInv`, `ExpireIInv`, `QuietIInv`
for the steps that leave queues alone) proves that `IInv` is preserved.

`SoftintProofs` proves `PassiveIsQuiet`, `LevelRestored` and `QueueConsistent`, and
that `Softint` implements `DpcQueue!Spec` (without its fairness), for every set of
DPCs and every finite set of interrupt sources with levels from 3 to 15
(`LevelAssumption`), nested to any depth. What makes these inductive is an order on the stack, `Stacked`:

* a frame returns to a level that is not below the least level (`Base`) of any
  frame under it, and to exactly the level of the frame directly under it when
  that is at a place with a known level;
* only a frame that returns below DISPATCH is inside `softint_dispatch`. Together
  they say that nothing above a frame that drains the queue can drain it, so at
  most one DPC function runs (`OneRuns`) and the refinement mapping is a function;
* every frame below the top was interrupted with interrupts enabled (`Open`).

`Registers` ties CR8 and the interrupt flag to the place of the top frame, and
`Announced` says that a queued DPC has the pending bit set or a draining frame.
A return to PASSIVE level then finds neither. `GotoStacked`, `PushStacked` and
`PopStacked` are the three changes of the stack, and `MoveIInv` and `ReturnIInv`
lift them to the invariant.

`QueueConsistent` also bounds the depth of the stack by the number of sources.
This needs a second invariant, `Nesting`: a handler runs at the level of a source
and above the code it interrupted, and from the third frame on every frame
belongs to an interrupt. Of these at most one below the top has left its handler
(`OneOutside`); the levels of the others grow, so each has a source of its own
(`DepthBound`).

`DispatchProofs` proves `WaitersConsistent`, `NoWaiterOnSignaled` and
`MutexExclusive` for every set of threads and objects, where a mutex is not
also an event or a timer (`DispatchAssumption`). `MutexExclusive` needs
`OneBusy`: from the acquisition to the signal at the end of the release one
thread has to do with a mutex, and while it has, the event of the mutex is not
signaled, so that no second thread can pass the wait. `OnMutex` says that a
thread inside these calls is at a mutex, so that signals of events and timers
cannot disturb that.

`TimerProofs` proves `ArmedForFirst` and `FiresInOrder` for every set of timers,
every tick and every length of the clock (`TickAssumption`), from `Covered`:
`next_deadline` is not after any queued deadline, or `timer_update` is enqueued
or on its way to look, and the time it has read is not in the future.
`OnlyEarlyStrands` is proved under the same assumptions: a timer is left in the
heap with nothing under way only by an interrupt that came before the deadline
and was ignored. Without that exception it is `QueuedIsServed`, which does not hold
(`timer_early`).

`IrqProofs` proves `SharingAgreed` for all objects, levels and numbers of vectors
per level (`IrqAssumption`). The invariant `Placed` strengthens it: the flag of a
vector is a promise of every object on it, and more than one object means that
the flag is set. `FoundVector` says what the search returns and `VectorLevel`
that the vectors of different levels do not overlap.

`LogProofs` proves `InOrder`, `Delivered` and `DropsOnlyOnListChange` for every set
of processors and consoles, every size of the ring, every set of lengths and
levels and any number of messages, changes and panics (`LogAssumption`: a ring of
at least two slots, consoles that are in the list once). The inductive invariant
follows a message from `printk` to the screens:

* `RingOK`: `print_lock` admits one processor between the write to the ring and
  the end of `printk`, and then the ring holds the message accepted last or this
  message is in that processor's hands. When an assertion fails inside `printk`
  the lock stays taken, so the messages of the assertion never reach the ring;
* `OrderOK`: while a processor has still to give the last message to a console
  (`Pending`), that console shows only older ones, so appending keeps the order;
* `ArrivesOK`: what was accepted since a console was added is on it, was dropped
  or is pending. Walking the list takes a console out of `Pending` exactly when it
  has written to it;
* `ListOK`, `LocksOK`, `CallOK`, `TodoOK`: who holds which lock at which place, and
  that the list changes only under its lock, by one call at a time.

`VmemProofs` proves `SegmentsTile`, `FreeListsExact`, `ImportsInUse` and the
refinement of `RangeAllocator` for an arena of any size, with and without a source,
any sizes of requests, any alignments and any refill of the tags by at least two
(`ArenaAssumption`; one refill has to be enough for a split or an import). The
inductive invariant is

* `QueueOK`: the segments of each span tile it (`Tiled`), free segments are not
  neighbours (`Coalesced`), no two segments overlap unless one is the span of the
  other (`Disjoint`), and with a source no span is free as a whole (`InUse`);
* `HeldOK`: the ranges of the callers are the segments marked as allocated. This
  is the link to `RangeAllocator`: a range that is carved from a free segment is
  then apart from all that are held (`TakesApart`, `ImportApart`);
* `FreeListsExact` itself, with the counts of tags and addresses.

Allocation, import and free are all one change of the queue, some segments
replaced by others that fill their place. `VmemQueues` proves once what such a
change keeps (`TiledFilled`, `CoalescedReplaced`, `DisjointReplaced`,
`InUseReplaced`), and what pushing and unlinking do to the lists (`PushListed`,
`UnlinkListed`). Facts about cardinalities are stated as `Counting`, which the
lemmas assume and `Counted` proves at the end from the library.

In `LogProofs`, `SoftintProofs`, `VmemQueues` and `VmemProofs` Zenon is the prover of
every step that does not name another; steps with arithmetic cite the SMT solver.

Only model-checked: the modules without a proof module, and all liveness and
fairness, which the proof system does not handle. `Trees`, `Printf`, `Pci` and `Boot`
are recursive over their data, and what they compute needs an induction over it
that is out of the reach of the provers. `Lists`, `Slab` and `Kmem` have no
theorems yet.

## Where code and its comments disagree

Runs that TLC refutes, as expected:

* `StandbyRuns` (`sched_standby`): `sched_reschedule` overwrites `thread_next`; a
  thread in Standby is then in no queue. The shortest trace needs a wake-up and
  an expiry in one dispatch.
* `NoSelfDeadlock` (`dispatch_deadlock`): waking a waiting thread takes the lock of
  the thread twice and ends in the spinlock's assertion "deadlock?".
* `MutexNotLost` (`dispatch_mutex`): a release between the test and the wait of
  `mutex_acquire` is consumed by the wait and the mutex can be acquired by nobody.
* `QueuedIsServed` (`timer_early`): `apic_arm` rounds the time to the deadline down to
  ticks (`platform/amd64/apic.c:133`), and the calibration rounds down the ticks of a
  millisecond (`apic.c:105`). The interrupt that comes early is ignored
  (`apic.c:147`), the counter is one-shot, and the timer stays in the heap until
  something else arms it, although `tests/mutextst.c:18` waits for such a timer
  without a limit.
* `BusesMapped` (`pci_mcfg`): `platform/amd64/pci.c:111` maps `end_bus - start_bus` buses
  of an MCFG entry, one less than it has, although the parameter of the macro is
  a count (`pci.c:13`) and `mcfg_bus` goes up to `end_bus` (`pci.c:52`). An access to the
  last bus faults, or reads the first bus of the next entry when that is mapped
  right behind; other mappings that may lie there are not in the model.
  `ScanExact` is about scans that stay inside. Firmware that announces buses 0 to
  255 and uses few of them never meets it.
* `TlbCoherent` (`kmem_tlb`): `invlpg` is given the address of a local variable,
  and unmapping drops no translation; an address that is freed and allocated
  again is accessed through the translation of its former page.

Stated in the modules, refuted in the same way when put in place of the
properties of a configuration, and not kept as runs:

* `Sched!RoundRobin`: a thread that is yielded to has no preemption timer and keeps
  the processor from its equals.
* `DispatchObj!TimerWaitEnds`: a timer that fired before the wait does not end it
  (`lib/time.c:145`); `tests/mutextst.c` waits this way.
* `TimerEngine!NoSelfDeadlock`: `timer_set` of a queued timer takes its lock twice.
* `Vmem!TakesSmallest`, `FailureIsReported`, `TotalIsSpans`: the best fit search is
  a first fit in a size class, a full arena stops the kernel instead of
  returning NULL, and the initial span is counted twice.
* `Irq!AttachedIsReported`: an object that joins a shared vector is attached and
  reported as failed.

Also seen while modelling, and in the modules as the code has it:

* `kmalloc` passes bytes as a number of pages (`vm/kmem.c:99`), so one page asked for
  takes 4096. `kfree` agrees with it.
* Reads and writes of one and two bytes of configuration space fail an assertion
  without an MCFG table unless the offset is that of a word (`platform/amd64/pci.c:28`
  and `40`, `asserted` in `Pci`), although `pci_read8` and the others shift by the offset
  in the word. The scan reads at offsets of words only, and nothing else reads or
  writes there yet. `ConfigMatches` is about the accesses that return.
* `kmem_cache_create` initialises two lists of a cache and not `buflist`
  (`lib/slab.c:202`), in a page that is not cleared. `SlabInit` leaves open whether
  the list ends there or in what was in the page (`StaleHead`). Freeing an object in
  use stops before that end, which `ChunksAccounted` checks; a pointer that is not
  one would run into it in place of the assertion at `lib/slab.c:161`.
* `kmem_cache_destroy` takes no mutex (`lib/slab.c:231`). In `Slab` its steps interleave
  with the calls on all other caches. That nobody uses the cache itself
  meanwhile is left to the caller, and is a guard of `Alloc` and `Free`; nothing calls
  it yet except `kmem_slab_cleanup`, which nothing calls.
* `kmain_threaded` waits for a timer (`main.c:149`) that ends in the deadlock of the
  wake-up, and behind it is a test without end. `Boot` ends with that wait, and
  `AllCoresRun` has all cores up as its goal.
* With a host bridge of several functions the root buses are numbered by function
  (`pci_init`), so a bus that is also behind a bridge is scanned twice; `ScanExact`
  makes this its exception.
* A message as long as the buffer stops `printk` for good (`lib/log.c:86`): the
  assertion prints while `print_lock` is held. `CallsReturn` makes this its exception.
* `console_remove` keeps the lock of the console; `console_add` initializes it again,
  and only this makes removing and adding work.
* `timer_update` is initialized on the boot processor only (`lib/time.c:51`), and
  `cpudata_set` leaves the indices it skips uninitialized. Both are harmless as long
  as the other cores run only their idle thread.
* nanoprintf: a zero flag with a negative star width appends zeros (the exception
  in `ReadsBack`), a minus after the point is skipped and the digits after it are
  taken, and a star precision of `c`, `p` or `%` does not take its argument (such
  formats are left out of `PrintfInit`).

The deadlock in the wake-up stops every behaviour of `DispatchObj` in which a
blocked thread would be woken. Its other properties are about the behaviours
before that point. `Sched` models `sched_resume` as what it does once it has the
lock, as for a new thread, so its results do not depend on the wake-up.

## Not modelled

Known hazards without a property:

* `buddy_lock` of the page allocator is taken without raising the level
  (`vm/pm.c:99`). A thread that is preempted while it holds the lock leaves one of
  higher priority spinning. This needs scheduler and page allocator in one model
  at the grain of single locks; the scheduler already fills a run by itself.
* `apic_arm` multiplies the time to the deadline by the frequency and asserts that
  the product fits (`platform/amd64/apic.c:129`); deadlines of the model are small.
* `spinlock_acquire` gives up after ten million tries with an assertion. In `Log` a
  spinning processor waits as long as it takes: how long a console takes to
  write is not in the model.
* The boot processor is taken to have LAPIC id 0 (`platform/limine-generic/entry.c:87`).
  With another id it would wait for itself; `BootAssumption` states it. The stores
  of `port_start_cores` are in program order in the model; they are plain stores.
* An entry of the memory map whose base is not a multiple of the page size may
  lose its last page to the rounding of `early_port_map_memory`: `HhdmExact` is about
  the rounded entry, as the code is. Memory maps of the boot loader are aligned.
* MCFG entries of a single bus would ask the arena for no bytes; the tables of the
  run have none.

Left out as parts:

* the switch of stacks and thread creation; `dpc_dequeue`, `vmem_destroy` and
  `timer_free`, which nothing calls; wait timeouts, which the code does not
  implement; sizes that are not a multiple of an arena's quantum;
* how a huge page is entered in the page table (which ones are asked for is in
  `Boot`); user maps, which nothing creates;
* the ACPI glue, which forwards calls of the uACPI library (not in the repository);
* descriptor tables, HPET and PIC registers, CPUID, interrupt stubs: layout and
  register values without state that changes later;
* string functions, symbol table, stack guard, sanitizer: pure functions on bytes
  and printing;
* floating point and writeback in nanoprintf, which the build disables;
* the other boot protocol (`platform/amd64/ultra.c`, compiled out), the RISC-V port (a
  stub) and the kernel's own tests.
