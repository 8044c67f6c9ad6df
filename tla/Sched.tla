-------------------------------- MODULE Sched --------------------------------
(***************************************************************************)
(* The thread scheduler of one CPU: kernel/sched/sched.c together with the *)
(* part of the software interrupt, DPC and timer code that drives it.      *)
(*                                                                         *)
(* sched.c only ever touches the scheduler of the CPU it runs on, so one   *)
(* CPU is the whole story.  Code at DISPATCH level is atomic with respect  *)
(* to everything but hardware interrupts, and the only effect of the clock *)
(* interrupt there is to queue the timer_update DPC.  A step below is      *)
(* therefore a stretch of DISPATCH level code, and ClockInterrupt may fall *)
(* between any two steps during which interrupts are enabled.              *)
(*                                                                         *)
(* pc is the place of the running thread in the dispatch path:             *)
(*   "run"       thread code at PASSIVE level                              *)
(*   "lower"     in irql_lower(PASSIVE), before the test of the pending bit*)
(*   "loop"      the while loop of softint_dispatch, interrupts disabled   *)
(*   "dpcs"      dpc_run_queue                                             *)
(*   "progress"  time_engine_progress, run as the timer_update DPC         *)
(*   "check"     the test of thread_next in dpc_interrupt                  *)
(***************************************************************************)
EXTENDS Naturals, Sequences

CONSTANTS
  Threads,     \* the threads other than the idle thread
  Idle,        \* the idle thread of the CPU
  NoThread,    \* the null thread pointer
  NPriorities, \* PRIORITY_COUNT
  priority     \* the fixed priority of every thread

AllThreads == Threads \cup {Idle}
Priorities == 0..(NPriorities - 1)

ASSUME ThreadsAssumption ==
  /\ Idle \notin Threads
  /\ NoThread \notin AllThreads

ASSUME PriorityAssumption ==
  /\ NPriorities \in Nat \ {0}
  /\ priority \in [AllThreads -> Priorities]
  /\ priority[Idle] = 0

VARIABLES
  state,       \* thread_t.state
  runq,        \* scheduler_t.run_queues
  run_mask,    \* scheduler_t.run_mask, as the set of its bits
  cur,         \* cpudata_t.thread_current
  next,        \* cpudata_t.thread_next
  done,        \* the threads of done_queue
  cont,        \* where a thread that is not running continues
  pc,          \* where the running thread is
  softint,     \* the DISPATCH bit of cpudata_t.softint_pending
  tupdate,     \* the timer_update DPC is enqueued
  ptimer,      \* timer_state of scheduler_t.preemption_timer
  due,         \* the deadline of the queued preemption timer has passed
  armed,       \* the local APIC timer is running
  early        \* history: its last interrupt came too early and was ignored

queueVars == <<runq, run_mask>>
dpcVars   == <<softint, tupdate>>
timerVars == <<ptimer, due, armed, early>>
vars == <<state, queueVars, cur, next, done, cont, pc, dpcVars, timerVars>>

-----------------------------------------------------------------------------
(* DPCs and the preemption timer                                           *)

EnqueueUpdateQuietly ==
  /\ tupdate' = TRUE
  /\ UNCHANGED softint

\* dpc_enqueue(&cpudata()->timer_update): an enqueued DPC is left alone.
EnqueueUpdate ==
  /\ tupdate' = TRUE
  /\ softint' = (softint \/ ~tupdate)

\* check_timer: a thread at or above c's priority is ready in mask.  The new
\* deadline lies in the future, and both timer calls enqueue timer_update.
CheckTimer(c, mask) ==
  /\ due' = FALSE
  /\ UNCHANGED <<armed, early>>
  /\ IF \E p \in mask : p >= priority[c]
     THEN /\ ptimer' = "Queued"
          /\ EnqueueUpdate
     ELSE /\ ptimer' = "Canceled"
          /\ IF ptimer = "Queued" THEN EnqueueUpdate ELSE UNCHANGED dpcVars

-----------------------------------------------------------------------------
(* Run queues                                                              *)

\* The first branch of sched_insert: t goes to the tail of its run queue.
Enqueue(t, c) ==
  /\ state' = [state EXCEPT ![t] = "Ready"]
  /\ runq' = [runq EXCEPT ![priority[t]] = Append(@, t)]
  /\ run_mask' = run_mask \cup {priority[t]}
  /\ CheckTimer(c, run_mask')

StandbyUnannounced(t) ==
  /\ state' = [state EXCEPT ![t] = "Standby"]
  /\ UNCHANGED <<queueVars, dpcVars, timerVars>>

\* The second branch of sched_insert with no thread_next: t will preempt.
Standby(t) ==
  /\ state' = [state EXCEPT ![t] = "Standby"]
  /\ softint' = TRUE
  /\ UNCHANGED <<queueVars, tupdate, timerVars>>

\* sched_insert when thread_next is nx.  When nx is a thread of a lower
\* priority, the code calls itself with t, which is then compared with itself.
Insert(t, nx) ==
  LET compare == IF nx = NoThread THEN cur ELSE nx
  IN \/ /\ priority[compare] >= priority[t]
        /\ Enqueue(t, compare)
        /\ next' = nx
     \/ /\ priority[compare] < priority[t]
        /\ IF nx = NoThread THEN Standby(t) ELSE Enqueue(t, t)
        /\ next' = t

\* The priorities at or above p whose run queue is not empty.
ReadyAbove(p) == {q \in Priorities : q >= p /\ runq[q] # <<>>}

SchedNextKeepsBit(p, t) ==
  \E q \in ReadyAbove(p) :
    /\ \A r \in ReadyAbove(p) : r <= q
    /\ t = Head(runq[q])
    /\ runq' = [runq EXCEPT ![q] = Tail(@)]
    /\ UNCHANGED run_mask

SchedNextLowest(p, t) ==
  \E q \in ReadyAbove(p) :
    /\ \A r \in ReadyAbove(p) : q <= r
    /\ t = Head(runq[q])
    /\ runq' = [runq EXCEPT ![q] = Tail(@)]
    /\ run_mask' = IF Tail(runq[q]) = <<>> THEN run_mask \ {q} ELSE run_mask

\* sched_next(p) returns t: the head of the highest queue at or above p.
SchedNext(p, t) ==
  \E q \in ReadyAbove(p) :
    /\ \A r \in ReadyAbove(p) : r <= q
    /\ t = Head(runq[q])
    /\ runq' = [runq EXCEPT ![q] = Tail(@)]
    /\ run_mask' = IF Tail(runq[q]) = <<>> THEN run_mask \ {priority[t]}
                                           ELSE run_mask

RescheduleAbove ==
  \/ /\ ReadyAbove(priority[cur] + 1) = {}
     /\ UNCHANGED <<queueVars, next>>
  \/ /\ SchedNext(priority[cur] + 1, next')

\* sched_reschedule, called by preemption_dpc_fn.
Reschedule ==
  \/ /\ ReadyAbove(priority[cur]) = {}
     /\ UNCHANGED <<queueVars, next>>
  \/ /\ SchedNext(priority[cur], next')

\* sched_switch_thread and switch_context: the running thread will continue
\* at place, t continues where it left.  No wait_timer is ever installed, so
\* uninstalling t's only writes its state, which nothing reads.
SwitchTo(t, place) ==
  /\ cont' = [cont EXCEPT ![cur] = place]
  /\ cur' = t
  /\ pc' = cont'[t]

\* sched_yield_internal
YieldInternal ==
  \/ /\ ReadyAbove(0) = {}
     /\ SwitchTo(Idle, "lower")
     /\ UNCHANGED queueVars
  \/ \E t \in Threads : SchedNext(0, t) /\ SwitchTo(t, "lower")

-----------------------------------------------------------------------------
(* Thread code: one call of the scheduler by the running thread            *)

\* sched_resume of a new thread.
Resume(t) ==
  /\ pc = "run"
  /\ state[t] = "Null"
  /\ Insert(t, next)
  /\ pc' = "lower"
  /\ UNCHANGED <<cur, done, cont>>

\* The blocking path of sched_wait_single: wait_thread and sched_yield.
Wait ==
  /\ pc = "run"
  /\ cur # Idle
  /\ state' = [state EXCEPT ![cur] = "Waiting"]
  /\ YieldInternal
  /\ UNCHANGED <<next, done, dpcVars, timerVars>>

\* sched_exit_destroy
Exit ==
  /\ pc = "run"
  /\ cur # Idle
  /\ done' = done \cup {cur}
  /\ YieldInternal
  /\ UNCHANGED <<state, next, dpcVars, timerVars>>

\* idle_thread_fn: the idle thread halts until the next interrupt.
IdleHalt ==
  /\ pc = "run"
  /\ cur = Idle
  /\ UNCHANGED vars

-----------------------------------------------------------------------------
(* The dispatch path                                                       *)

LowerUntested ==
  /\ pc = "lower"
  /\ pc' = "run"
  /\ UNCHANGED <<state, queueVars, cur, next, done, cont, dpcVars, timerVars>>

\* irql_lower(PASSIVE)
Lower ==
  /\ pc = "lower"
  /\ pc' = IF softint THEN "loop" ELSE "run"
  /\ UNCHANGED <<state, queueVars, cur, next, done, cont, dpcVars, timerVars>>

\* One test of the loop of softint_dispatch, and the entry of dpc_interrupt.
Loop ==
  /\ pc = "loop"
  /\ pc' = IF softint THEN "dpcs" ELSE "run"
  /\ softint' = FALSE
  /\ UNCHANGED <<state, queueVars, cur, next, done, cont, tupdate, timerVars>>

\* One iteration of dpc_run_queue.
RunQueue ==
  /\ pc = "dpcs"
  /\ pc' = IF tupdate THEN "progress" ELSE "check"
  /\ tupdate' = FALSE
  /\ UNCHANGED <<state, queueVars, cur, next, done, cont, softint, timerVars>>

\* One iteration of time_engine_progress that finds the preemption timer due.
Expire ==
  /\ pc = "progress"
  /\ ptimer = "Queued" /\ due
  /\ ptimer' = "Fired"
  /\ due' = FALSE
  /\ Reschedule
  /\ UNCHANGED <<state, cur, done, cont, pc, dpcVars, armed, early>>

\* The last iteration of time_engine_progress: arm for the next deadline, or
\* stop the hardware timer when no timer is queued.
Arm ==
  /\ pc = "progress"
  /\ ~(ptimer = "Queued" /\ due)
  /\ armed' = (ptimer = "Queued")
  /\ early' = FALSE
  /\ pc' = "dpcs"
  /\ UNCHANGED <<state, queueVars, cur, next, done, cont, dpcVars, ptimer, due>>

\* The end of dpc_interrupt when there is nothing to preempt.
NoPreempt ==
  /\ pc = "check"
  /\ next = NoThread
  /\ pc' = "loop"
  /\ UNCHANGED <<state, queueVars, cur, next, done, cont, dpcVars, timerVars>>

PreemptKeepsNext ==
  /\ pc = "check"
  /\ next # NoThread
  /\ next' = next
  /\ IF cur # Idle
     THEN Enqueue(cur, cur)
     ELSE UNCHANGED <<state, queueVars, dpcVars, timerVars>>
  /\ SwitchTo(next, "loop")
  /\ UNCHANGED done

\* sched_preempt
Preempt ==
  /\ pc = "check"
  /\ next # NoThread
  /\ next' = NoThread
  /\ IF cur # Idle
     THEN Insert(cur, NoThread)
     ELSE UNCHANGED <<state, queueVars, dpcVars, timerVars>>
  /\ SwitchTo(next, "loop")
  /\ UNCHANGED done

-----------------------------------------------------------------------------
(* The hardware                                                            *)

TimePasses ==
  /\ ptimer = "Queued"
  /\ ~due
  /\ due' = TRUE
  /\ UNCHANGED <<state, queueVars, cur, next, done, cont, pc, dpcVars, ptimer, armed, early>>

\* timer_handler at next_deadline or after it.  Until time_engine_progress has
\* run again, that may be a deadline that check_timer has replaced.  At PASSIVE
\* level the return path of the interrupt dispatches the software interrupt,
\* at DISPATCH level it does not.
HandleReached ==
  /\ due \/ tupdate \/ pc = "progress"
  /\ EnqueueUpdate
  /\ pc' = IF pc = "run" THEN "loop" ELSE pc
  /\ UNCHANGED early

\* timer_handler before next_deadline, since apic_arm rounds the time to the
\* deadline down to ticks: nothing is enqueued and nothing armed again.
HandleEarly ==
  /\ ~due
  /\ early' = TRUE
  /\ UNCHANGED <<dpcVars, pc>>

\* handle_irq with timer_handler.  The APIC timer is one-shot.
ClockInterrupt ==
  /\ pc # "loop"
  /\ armed
  /\ armed' = FALSE
  /\ HandleReached \/ HandleEarly
  /\ UNCHANGED <<state, queueVars, cur, next, done, cont, ptimer, due>>

-----------------------------------------------------------------------------
Init ==
  /\ state = [t \in AllThreads |-> "Null"]
  /\ runq = [p \in Priorities |-> <<>>]
  /\ run_mask = {}
  /\ cur = Idle
  /\ next = NoThread
  /\ done = {}
  /\ cont = [t \in AllThreads |-> "lower"]
  /\ pc = "lower"
  /\ softint = FALSE
  /\ tupdate = FALSE
  /\ ptimer = "Unused"
  /\ due = FALSE
  /\ armed = FALSE
  /\ early = FALSE

Dispatch == Lower \/ Loop \/ RunQueue \/ Expire \/ Arm \/ NoPreempt \/ Preempt

ThreadCode == Wait \/ Exit \/ IdleHalt \/ \E t \in Threads : Resume(t)

Next == Dispatch \/ ThreadCode \/ TimePasses \/ ClockInterrupt

Spec == Init /\ [][Next]_vars

\* The processor keeps executing, time passes and a running timer interrupts;
\* what thread code does is up to the threads.
FairSpec ==
  /\ Spec
  /\ WF_vars(Dispatch)
  /\ WF_vars(TimePasses)
  /\ WF_vars(ClockInterrupt)

-----------------------------------------------------------------------------
(* Properties                                                              *)

\* Threads, queues and the places of the code keep their types: in particular
\* the idle thread is never queued and never chosen as thread_next.
TypeOK ==
  /\ state \in [AllThreads -> {"Null", "Ready", "Waiting", "Standby"}]
  /\ runq \in [Priorities -> Seq(Threads)]
  /\ run_mask \in SUBSET Priorities
  /\ cur \in AllThreads
  /\ next \in Threads \cup {NoThread}
  /\ done \in SUBSET Threads
  /\ cont \in [AllThreads -> {"lower", "loop"}]
  /\ pc \in {"run", "lower", "loop", "dpcs", "progress", "check"}
  /\ softint \in BOOLEAN
  /\ tupdate \in BOOLEAN
  /\ ptimer \in {"Unused", "Fired", "Queued", "Canceled"}
  /\ due \in BOOLEAN
  /\ armed \in BOOLEAN
  /\ early \in BOOLEAN

\* t is linked into a run queue.
Queued(t) == \E p \in Priorities : \E i \in DOMAIN runq[p] : runq[p][i] = t

\* run_mask, which check_timer trusts, says exactly which run queues hold
\* threads, and a run queue only holds threads of its own priority.
RunQueuesConsistent ==
  \A p \in Priorities :
    /\ p \in run_mask <=> runq[p] # <<>>
    /\ \A i \in DOMAIN runq[p] : priority[runq[p][i]] = p

\* No thread is linked twice into the run queues.
NoDuplicates ==
  \A p, q \in Priorities : \A i \in DOMAIN runq[p], j \in DOMAIN runq[q] :
    runq[p][i] = runq[q][j] => p = q /\ i = j

\* A thread is linked into at most one run queue, once, and is then neither
\* running, nor about to run, nor exited, nor waiting: no two parts of
\* sched.c ever hold the same thread_t.entry.
OnePlace ==
  /\ NoDuplicates
  /\ \A t \in Threads :
       /\ Queued(t) => t \notin {cur, next} \cup done /\ state[t] = "Ready"
       /\ state[t] \in {"Null", "Waiting"} => t \notin {cur, next} \cup done
  /\ cur # next
  /\ {cur, next} \cap done = {}

\* While thread code runs at PASSIVE level, no ready thread has a higher
\* priority than the running one.
PassiveRunsHighest ==
  pc = "run" => \A t \in Threads : Queued(t) => priority[t] <= priority[cur]

\* A thread selected to preempt is never left behind: while thread_next is
\* set the CPU is on its way to the test in dpc_interrupt.
PreemptionPending ==
  next # NoThread =>
    \/ softint /\ pc \in {"lower", "loop"}
    \/ pc \in {"dpcs", "progress", "check"}

\* Only an interrupt that timer_handler ignored as too early can strand a
\* queued preemption timer.  Otherwise the hardware timer runs, or
\* time_engine_progress runs or is about to, although the DPC is enqueued by
\* thread code and by the interrupt, and dequeued before it runs.
TimerServed ==
  ptimer = "Queued" =>
    \/ early
    \/ armed
    \/ pc = "progress"
    \/ tupdate /\ (softint \/ pc = "dpcs")

\* A preemption that sched_insert or sched_reschedule asked for happens.
PreemptionHappens == next # NoThread ~> next = NoThread

\* Once the preemption timer is queued while a thread of at least the running
\* thread's priority is ready, the running thread loses the CPU, unless
\* timer_handler ignores the interrupt of the timer as too early.
SliceExpires ==
  \A t \in Threads :
    cur = t /\ ptimer = "Queued" /\ ReadyAbove(priority[t]) # {} ~> cur # t \/ early

\* sched_insert's "preempt": a thread in state Standby is about to run, is
\* running or has exited.
StandbyRuns ==
  \A t \in Threads : state[t] = "Standby" => t \in {cur, next} \cup done

\* Time slicing: a thread does not keep the CPU while another thread of at
\* least its priority is ready.
RoundRobin ==
  \A t \in Threads : cur = t /\ ReadyAbove(priority[t]) # {} ~> cur # t
=============================================================================
