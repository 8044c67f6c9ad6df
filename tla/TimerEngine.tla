----------------------------- MODULE TimerEngine -----------------------------
(***************************************************************************)
(* The timer engine of one CPU: kernel/lib/time.c, driven by the one-shot  *)
(* timer of the local APIC (kernel/platform/amd64/apic.c).                 *)
(*                                                                         *)
(* now is the clocksource. The APIC timer counts ticks of Tick units of    *)
(* the clocksource each, many in the hardware. early remembers that the    *)
(* interrupt of the last arming was ignored. Calls of the timer functions  *)
(* are made by thread code and run at DISPATCH level; when they enqueue    *)
(* the timer_update DPC it runs before the thread continues. pc is         *)
(*   "run"       thread code                                               *)
(*   "dpcs"      dpc_run_queue                                             *)
(*   "sample"    time_engine_progress, before it reads the clock           *)
(*   "compare"   time_engine_progress, after it read the clock             *)
(***************************************************************************)
EXTENDS Naturals, FiniteSetsExt

CONSTANTS
  Timers,
  Tick,      \* units of the clocksource per tick of the APIC timer
  MaxNow     \* bound: the clocksource stops here

ASSUME TickAssumption == Tick \in Nat \ {0} /\ MaxNow \in Nat

VARIABLES
  now,            \* the clocksource
  sampled,        \* the time read by time_engine_progress
  timer_state, deadline,
  timerlist,      \* the timers in the heap
  next_deadline,  \* cpudata_t.next_deadline
  count,          \* time until the APIC timer expires, 0 when it is stopped
  irq,            \* the APIC timer has expired, the interrupt is not taken yet
  early,          \* history: its last interrupt came too early and was ignored
  tupdate,        \* the timer_update DPC is enqueued
  pc,
  panic

timerVars == <<timer_state, deadline, timerlist>>
hwVars    == <<next_deadline, count, irq, early>>
vars == <<now, sampled, timerVars, hwVars, tupdate, pc, panic>>

Never == MaxNow + 1     \* UINT64_MAX

\* The CPU continues at place; nothing continues after a panic.
At(place) == panic = "none" /\ pc = place

-----------------------------------------------------------------------------
(* Calls of the timer functions                                            *)

\* A call that enqueued timer_update lowers the level and runs it.
Dispatched == pc' = IF tupdate' THEN "dpcs" ELSE "run"

SetInstallQuietly(t, d) ==
  /\ At("run")
  /\ timer_state[t] # "Queued"
  /\ timer_state' = [timer_state EXCEPT ![t] = "Queued"]
  /\ deadline' = [deadline EXCEPT ![t] = d]
  /\ timerlist' = timerlist \cup {t}
  /\ UNCHANGED <<now, sampled, hwVars, tupdate, pc, panic>>

SetInstallWhenIdle(t, d) ==
  /\ At("run")
  /\ timer_state[t] # "Queued"
  /\ timer_state' = [timer_state EXCEPT ![t] = "Queued"]
  /\ deadline' = [deadline EXCEPT ![t] = d]
  /\ timerlist' = timerlist \cup {t}
  /\ tupdate' = (tupdate \/ timerlist = {})
  /\ Dispatched
  /\ UNCHANGED <<now, sampled, hwVars, panic>>

\* timer_set on a timer that is not queued, and timer_install.
SetInstall(t, d) ==
  /\ At("run")
  /\ timer_state[t] # "Queued"
  /\ timer_state' = [timer_state EXCEPT ![t] = "Queued"]
  /\ deadline' = [deadline EXCEPT ![t] = d]
  /\ timerlist' = timerlist \cup {t}
  /\ tupdate' = TRUE
  /\ Dispatched
  /\ UNCHANGED <<now, sampled, hwVars, panic>>

\* timer_set on a queued timer: timer_uninstall acquires the object_lock that
\* timer_set holds, and the spinlock gives up.
SetQueued(t) ==
  /\ At("run")
  /\ timer_state[t] = "Queued"
  /\ panic' = "deadlock?"
  /\ UNCHANGED <<now, sampled, timerVars, hwVars, tupdate, pc>>

\* timer_uninstall
Uninstall(t) ==
  /\ At("run")
  /\ timer_state' = [timer_state EXCEPT ![t] = "Canceled"]
  /\ timerlist' = timerlist \ {t}
  /\ tupdate' = (tupdate \/ t \in timerlist)
  /\ Dispatched
  /\ UNCHANGED <<now, sampled, deadline, hwVars, panic>>

-----------------------------------------------------------------------------
(* The timer_update DPC                                                    *)

\* One iteration of dpc_run_queue.
RunQueue ==
  /\ At("dpcs")
  /\ pc' = IF tupdate THEN "sample" ELSE "run"
  /\ tupdate' = FALSE
  /\ UNCHANGED <<now, sampled, timerVars, hwVars, panic>>

Sample ==
  /\ At("sample")
  /\ sampled' = now
  /\ pc' = "compare"
  /\ UNCHANGED <<now, timerVars, hwVars, tupdate, panic>>

AnyRoot(t) == t \in timerlist

\* HEAP_PEEK: a queued timer with the earliest deadline.
IsRoot(t) == t \in timerlist /\ \A u \in timerlist : deadline[t] <= deadline[u]

\* The ticks until the deadline, rounded down, but at least one.
Ticks(delta) == Max({1, delta \div Tick})

\* apic_arm
ApicArm(d) == count' = Tick * (IF d < now THEN 1 ELSE Ticks(d - now))

\* time_engine_progress finds no timer: the APIC timer is stopped.
ProgressEmpty ==
  /\ At("compare")
  /\ timerlist = {}
  /\ next_deadline' = Never
  /\ count' = 0
  /\ early' = FALSE
  /\ pc' = "dpcs"
  /\ UNCHANGED <<now, sampled, timerVars, irq, tupdate, panic>>

\* time_engine_progress arms the APIC timer for the first timer.
ProgressArm ==
  /\ At("compare")
  /\ \E t \in timerlist :
       /\ IsRoot(t)
       /\ deadline[t] > sampled
       /\ next_deadline' = deadline[t]
       /\ ApicArm(deadline[t])
  /\ early' = FALSE
  /\ pc' = "dpcs"
  /\ UNCHANGED <<now, sampled, timerVars, irq, tupdate, panic>>

\* time_engine_progress takes a due timer and calls its function.
ProgressFire ==
  /\ At("compare")
  /\ \E t \in timerlist :
       /\ IsRoot(t)
       /\ deadline[t] <= sampled
       /\ timerlist' = timerlist \ {t}
       /\ timer_state' = [timer_state EXCEPT ![t] = "Fired"]
  /\ pc' = "sample"
  /\ UNCHANGED <<now, sampled, deadline, hwVars, tupdate, panic>>

-----------------------------------------------------------------------------
(* The hardware                                                            *)

TimePasses ==
  /\ now < MaxNow
  /\ now' = now + 1
  /\ count' = IF count = 0 THEN 0 ELSE count - 1
  /\ irq' = (irq \/ count = 1)
  /\ UNCHANGED <<sampled, timerVars, next_deadline, early, tupdate, pc, panic>>

\* timer_handler.  The APIC timer is not armed again here, also when the
\* deadline has not come yet and the interrupt is ignored.
ClockInterrupt ==
  /\ panic = "none"
  /\ irq
  /\ irq' = FALSE
  /\ tupdate' = (tupdate \/ now >= next_deadline)
  /\ early' = (early \/ (now < next_deadline /\ count = 0))
  /\ pc' = IF pc = "run" /\ tupdate' THEN "dpcs" ELSE pc
  /\ UNCHANGED <<now, sampled, timerVars, next_deadline, count, panic>>

-----------------------------------------------------------------------------
Init ==
  /\ now = 0
  /\ sampled = 0
  /\ timer_state = [t \in Timers |-> "Unused"]
  /\ deadline = [t \in Timers |-> Never]
  /\ timerlist = {}
  /\ next_deadline = Never
  /\ count = 0
  /\ irq = FALSE
  /\ early = FALSE
  /\ tupdate = FALSE
  /\ pc = "run"
  /\ panic = "none"

Progress == RunQueue \/ Sample \/ ProgressEmpty \/ ProgressArm \/ ProgressFire

ThreadCode ==
  \E t \in Timers :
    \/ \E d \in now..MaxNow : SetInstall(t, d)
    \/ SetQueued(t)
    \/ Uninstall(t)

Next == Progress \/ ThreadCode \/ TimePasses \/ ClockInterrupt

Spec == Init /\ [][Next]_vars
-----------------------------------------------------------------------------
(* Properties                                                              *)

\* Timers and the APIC counter have their types; in particular apic_arm stores
\* no negative count for a deadline that has passed.
TypeOK ==
  /\ now \in 0..MaxNow
  /\ sampled \in 0..MaxNow
  /\ timer_state \in [Timers -> {"Unused", "Queued", "Fired", "Canceled"}]
  /\ deadline \in [Timers -> 0..Never]
  /\ timerlist \in SUBSET Timers
  /\ next_deadline \in 0..Never
  /\ count \in Nat
  /\ irq \in BOOLEAN
  /\ early \in BOOLEAN
  /\ tupdate \in BOOLEAN
  /\ pc \in {"run", "dpcs", "sample", "compare"}
  /\ panic \in {"none", "deadlock?"}

\* time_engine_progress is running or going to run.
Progressing == pc # "run" /\ (tupdate \/ pc \in {"sample", "compare"})

\* While thread code runs, next_deadline, which timer_handler compares the time
\* with, is not after the first deadline: no timer waits for the deadline of
\* another one.
ArmedForFirst ==
  /\ TypeOK
  /\ pc = "run" => \A t \in timerlist : next_deadline <= deadline[t]

\* No timer fires before its deadline, whatever is installed and removed
\* between the clock being read and the comparison, and none is overtaken by
\* a timer with a later deadline.
FiresInOrder ==
  [][\A t \in Timers :
       (timer_state[t] = "Queued" /\ timer_state'[t] = "Fired") =>
         /\ now >= deadline[t]
         /\ \A u \in timerlist' : deadline[u] >= deadline[t]]_vars

\* A timer that is installed is served: the APIC timer counts, its interrupt is
\* on the way, or time_engine_progress will look at the timers again.
QueuedIsServed == timerlist # {} => count > 0 \/ irq \/ Progressing

\* Timers are stranded in one way only: the last interrupt of the APIC timer
\* came before next_deadline and was ignored, and nothing was set or cancelled
\* since.  Setting, cancelling and firing between the clock being read, the
\* comparison and the arming never leave a queued timer unserved.
OnlyEarlyStrands == QueuedIsServed \/ early

\* timer_set handles a timer that is queued.
NoSelfDeadlock == panic # "deadlock?"
=============================================================================
