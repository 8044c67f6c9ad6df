----------------------------- MODULE TimerProofs -----------------------------
(***************************************************************************)
(* Proofs about TimerEngine, for every set of timers and every length of   *)
(* the clock.                                                              *)
(***************************************************************************)
EXTENDS TimerEngine, TLAPS

\* Whatever is queued, next_deadline covers it or the engine will look again,
\* which it does before thread code continues; the clock does not run back.
Covered ==
  /\ tupdate \/ pc \in {"sample", "compare"}
       \/ \A t \in timerlist : next_deadline <= deadline[t]
  /\ pc = "run" => ~tupdate
  /\ sampled <= now

IInv == TypeOK /\ Covered

-----------------------------------------------------------------------------
\* The greater of two numbers.
LEMMA MaxOfTwo ==
  ASSUME NEW a \in Nat, NEW b \in Nat
  PROVE  Max({a, b}) = IF a >= b THEN a ELSE b
<1> DEFINE m == IF a >= b THEN a ELSE b
<1>1. m \in {a, b} /\ \A y \in {a, b} : m >= y
  OBVIOUS
<1>2. \A x \in {a, b} : (\A y \in {a, b} : x >= y) => x = m
  OBVIOUS
<1> QED
  BY <1>1, <1>2, Zenon DEF Max

\* apic_arm stores a positive count.
LEMMA TicksPositive ==
  ASSUME NEW delta \in Nat
  PROVE  Ticks(delta) \in Nat \ {0}
<1>1. delta \div Tick \in Nat
  BY TickAssumption
<1>2. Ticks(delta) = IF 1 >= delta \div Tick THEN 1 ELSE delta \div Tick
  BY <1>1, MaxOfTwo DEF Ticks
<1> QED
  BY <1>1, <1>2

\* The counter that apic_arm starts is a positive number of units of the clock.
LEMMA ArmPositive ==
  ASSUME NEW d \in Nat, now \in Nat, ApicArm(d)
  PROVE  count' \in Nat /\ count' > 0
<1> DEFINE n == IF d < now THEN 1 ELSE Ticks(d - now)
<1>1. n \in Nat \ {0}
  BY TicksPositive
<1>2. \A a, b \in Nat \ {0} : a * b \in Nat /\ a * b > 0
  OBVIOUS
<1>3. count' = Tick * n
  BY DEF ApicArm
<1> QED
  BY <1>1, <1>2, <1>3, TickAssumption

-----------------------------------------------------------------------------
(* Type correctness and ArmedForFirst.                                     *)

\* time_engine_init leaves no timer queued and nothing to cover.
LEMMA InitIInv ==
  Init => IInv
<1> SUFFICES ASSUME Init PROVE IInv
  OBVIOUS
<1>1. Never \in 0..Never /\ 0 \in 0..MaxNow
  BY TickAssumption DEF Never
<1>2. TypeOK
  BY <1>1 DEF Init, TypeOK
<1>3. Covered
  BY DEF Init, Covered
<1> QED
  BY <1>2, <1>3 DEF IInv

\* timer_set and timer_uninstall of thread code keep the invariant: whatever they
\* put into the heap, timer_update is enqueued with it.
LEMMA ThreadIInv ==
  ASSUME IInv, ThreadCode
  PROVE  IInv'
<1> USE TickAssumption
<1>1. PICK t \in Timers : (\E d \in now..MaxNow : SetInstall(t, d)) \/ SetQueued(t) \/ Uninstall(t)
  BY DEF ThreadCode
<1>2. ASSUME NEW d \in now..MaxNow, SetInstall(t, d)
      PROVE  IInv'
  BY <1>2 DEF IInv, TypeOK, Covered, SetInstall, Dispatched, At, hwVars, Never
<1>3. CASE SetQueued(t)
  BY <1>3 DEF IInv, TypeOK, Covered, SetQueued, At, hwVars, timerVars, Never
<1>4. CASE Uninstall(t)
  BY <1>4 DEF IInv, TypeOK, Covered, Uninstall, Dispatched, At, hwVars, Never
<1> QED
  BY <1>1, <1>2, <1>3, <1>4

\* The steps of timer_update and time_engine_progress keep the invariant: the
\* timer is armed only after the root of the heap was compared with the time.
LEMMA ProgressIInv ==
  ASSUME IInv, Progress
  PROVE  IInv'
<1> USE TickAssumption
<1>1. CASE RunQueue
  BY <1>1 DEF IInv, TypeOK, Covered, RunQueue, At, timerVars, hwVars, Never
<1>2. CASE Sample
  BY <1>2 DEF IInv, TypeOK, Covered, Sample, At, timerVars, hwVars, Never
<1>3. CASE ProgressEmpty
  <2>1. next_deadline' = Never /\ Never \in 0..Never /\ count' = 0 /\ early' = FALSE
    BY <1>3 DEF ProgressEmpty, Never
  <2>2. TypeOK'
    <3>1. /\ now' = now /\ sampled' = sampled /\ timer_state' = timer_state
          /\ deadline' = deadline /\ timerlist' = timerlist /\ irq' = irq
          /\ tupdate' = tupdate /\ pc' = "dpcs" /\ panic' = panic
      BY <1>3 DEF ProgressEmpty, timerVars
    <3>2. TypeOK
      BY DEF IInv
    <3> QED
      BY <2>1, <3>1, <3>2, Zenon DEF TypeOK
  <2>3. Covered'
    BY <1>3 DEF IInv, Covered, ProgressEmpty, At, timerVars
  <2> QED
    BY <2>2, <2>3 DEF IInv
<1>4. CASE ProgressArm
  <2>1. PICK t \in timerlist : /\ IsRoot(t)
                              /\ next_deadline' = deadline[t]
                              /\ ApicArm(deadline[t])
    BY <1>4 DEF ProgressArm
  <2>2. deadline[t] \in 0..Never /\ deadline[t] \in Nat /\ now \in Nat
    BY DEF IInv, TypeOK, Never
  <2>3. count' \in Nat
    BY <2>1, <2>2, ArmPositive
  <2>4. \A u \in timerlist : next_deadline' <= deadline[u]
    BY <2>1 DEF IsRoot
  <2> QED
    BY <1>4, <2>1, <2>2, <2>3, <2>4 DEF IInv, TypeOK, Covered, ProgressArm, At, timerVars, Never
<1>5. CASE ProgressFire
  BY <1>5 DEF IInv, TypeOK, Covered, ProgressFire, At, hwVars, Never
<1> QED
  BY <1>1, <1>2, <1>3, <1>4, <1>5 DEF Progress

\* The clock and its interrupt keep the invariant.
LEMMA HardwareIInv ==
  ASSUME IInv, TimePasses \/ ClockInterrupt \/ UNCHANGED vars
  PROVE  IInv'
<1> USE TickAssumption
<1>1. CASE TimePasses
  BY <1>1 DEF IInv, TypeOK, Covered, TimePasses, timerVars, Never
<1>2. CASE ClockInterrupt
  BY <1>2 DEF IInv, TypeOK, Covered, ClockInterrupt, timerVars, Never
<1>3. CASE UNCHANGED vars
  BY <1>3 DEF IInv, TypeOK, Covered, vars, timerVars, hwVars, Never
<1> QED
  BY <1>1, <1>2, <1>3

\* Every step keeps the invariant.
LEMMA StepIInv ==
  ASSUME IInv, [Next]_vars
  PROVE  IInv'
BY ThreadIInv, ProgressIInv, HardwareIInv DEF Next

\* The inductive invariant holds in every reachable state.
THEOREM Inductive == Spec => []IInv
<1>1. Init => IInv
  BY InitIInv
<1>2. IInv /\ [Next]_vars => IInv'
  BY StepIInv
<1> QED
  BY <1>1, <1>2, PTL DEF Spec

\* While thread code runs, next_deadline is not after the first deadline: every
\* path through time_engine_progress that leaves with a queued timer has stored
\* the deadline of the root of the heap, and whatever changes the heap enqueues
\* timer_update, which runs before the thread continues.
THEOREM NextDeadlineFirst == Spec => []ArmedForFirst
<1>1. IInv => ArmedForFirst
  BY DEF IInv, Covered, ArmedForFirst
<1> QED
  BY <1>1, Inductive, PTL

-----------------------------------------------------------------------------
(* FiresInOrder.                                                           *)

\* Only time_engine_progress makes a timer fire, and it takes the root of the
\* heap when its deadline is not after a time read before.
LEMMA StepFires ==
  ASSUME IInv, [Next]_vars, NEW t \in Timers,
         timer_state[t] = "Queued", timer_state'[t] = "Fired"
  PROVE  now >= deadline[t] /\ \A u \in timerlist' : deadline[u] >= deadline[t]
<1>1. CASE ProgressFire
  <2>1. PICK u \in timerlist : /\ IsRoot(u) /\ deadline[u] <= sampled
                              /\ timerlist' = timerlist \ {u}
                              /\ timer_state' = [timer_state EXCEPT ![u] = "Fired"]
    BY <1>1 DEF ProgressFire
  <2>2. u = t
    BY <2>1 DEF IInv, TypeOK
  <2> QED
    BY <2>1, <2>2, TickAssumption DEF IInv, TypeOK, Covered, IsRoot, Never
<1>2. CASE ~ProgressFire
  <2>1. CASE ThreadCode
    BY <2>1 DEF ThreadCode, SetInstall, SetQueued, Uninstall, timerVars, IInv, TypeOK
  <2>2. CASE RunQueue \/ Sample \/ ProgressEmpty \/ ProgressArm \/ TimePasses
               \/ ClockInterrupt \/ UNCHANGED vars
    BY <2>2 DEF RunQueue, Sample, ProgressEmpty, ProgressArm, TimePasses,
                ClockInterrupt, vars, timerVars
  <2> QED
    BY <1>2, <2>1, <2>2 DEF Next, Progress
<1> QED
  BY <1>1, <1>2

\* No timer fires before its deadline and none is overtaken by a later one, for
\* any number of timers set and cancelled while the engine runs.
THEOREM TimersFireInOrder == Spec => FiresInOrder
<1>1. IInv /\ [Next]_vars =>
        [\A t \in Timers :
           (timer_state[t] = "Queued" /\ timer_state'[t] = "Fired") =>
             /\ now >= deadline[t]
             /\ \A u \in timerlist' : deadline[u] >= deadline[t]]_vars
  BY StepFires
<1> QED
  BY <1>1, Inductive, PTL DEF Spec, FiresInOrder
-----------------------------------------------------------------------------
(* OnlyEarlyStrands.                                                       *)

\* Every step keeps the APIC timer counting, its interrupt pending or the engine
\* looking; the one exception, an interrupt before next_deadline, sets early.
LEMMA StepServed ==
  ASSUME IInv, OnlyEarlyStrands, [Next]_vars
  PROVE  OnlyEarlyStrands'
<1> USE TickAssumption DEF OnlyEarlyStrands, QueuedIsServed
<1>1. CASE ThreadCode
  BY <1>1 DEF ThreadCode, SetInstall, SetQueued, Uninstall, Dispatched, At, timerVars,
              hwVars, IInv, TypeOK, Covered, Progressing
<1>2. CASE RunQueue \/ Sample \/ ProgressEmpty \/ ProgressFire
  BY <1>2 DEF RunQueue, Sample, ProgressEmpty, ProgressFire, At, timerVars,
              hwVars, IInv, TypeOK, Progressing
<1>3. CASE ProgressArm
  <2>1. PICK t \in timerlist : ApicArm(deadline[t])
    BY <1>3 DEF ProgressArm
  <2>2. deadline[t] \in Nat /\ now \in Nat
    BY DEF IInv, TypeOK, Never
  <2> QED
    BY <2>1, <2>2, ArmPositive
<1>4. CASE TimePasses
  <2>1. /\ timerlist' = timerlist /\ early' = early
        /\ Progressing' <=> Progressing
    BY <1>4 DEF TimePasses, timerVars, Progressing
  <2>2. irq => irq'
    BY <1>4, Zenon DEF TimePasses
  <2>3. count = 1 => irq'
    BY <1>4, Zenon DEF TimePasses
  <2>4. count > 0 => count' > 0 \/ count = 1
    BY <1>4 DEF TimePasses, IInv, TypeOK
  <2> QED
    BY <2>1, <2>2, <2>3, <2>4
<1>5. CASE ClockInterrupt
  <2>1. now \in Nat /\ next_deadline \in Nat /\ count \in Nat
    BY DEF IInv, TypeOK, Never
  <2>2. CASE now >= next_deadline
    BY <1>5, <2>1, <2>2 DEF ClockInterrupt, Progressing
  <2>3. CASE now < next_deadline
    <3>1. count' = count /\ (count = 0 => early') /\ (early => early')
      BY <1>5, <2>3, Zenon DEF ClockInterrupt
    <3>2. count = 0 \/ count > 0
      BY <2>1
    <3> QED
      BY <3>1, <3>2, Zenon
  <2> QED
    BY <2>1, <2>2, <2>3
<1>6. CASE UNCHANGED vars
  BY <1>6 DEF vars, timerVars, hwVars, Progressing
<1> QED
  BY <1>1, <1>2, <1>3, <1>4, <1>5, <1>6 DEF Next, Progress

\* For any tick of the APIC timer, whatever is set, cancelled and fires while
\* time_engine_progress runs: a queued timer is left with a stopped counter and
\* no interrupt or update under way only when timer_handler has ignored an
\* interrupt that came before next_deadline.
THEOREM StrandedOnlyByEarly == Spec => []OnlyEarlyStrands
<1>1. Init => OnlyEarlyStrands
  BY DEF Init, OnlyEarlyStrands, QueuedIsServed
<1>2. IInv /\ OnlyEarlyStrands /\ [Next]_vars => OnlyEarlyStrands'
  BY StepServed
<1> QED
  BY <1>1, <1>2, Inductive, PTL DEF Spec
=============================================================================
