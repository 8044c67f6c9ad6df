----------------------------- MODULE DispatchObj -----------------------------
(***************************************************************************)
(* Dispatcher objects: waiting (kernel/sched/dispatch.c), events           *)
(* (kernel/lib/event.c), mutexes (kernel/lib/mutex.c) and timers as        *)
(* objects (kernel/lib/time.c).                                            *)
(*                                                                         *)
(* Every operation takes the object lock at DISPATCH level.  All threads   *)
(* run on one CPU, so a stretch of code at DISPATCH level is one step, and *)
(* a thread may be preempted wherever it is back at PASSIVE level: in the  *)
(* loop of mutex_acquire and in the middle of mutex_release.  pc is        *)
(*   "run"      outside this code                                          *)
(*   "waiting"  in sched_wait_single, blocked                              *)
(*   "acquire"  mutex_acquire, at the head of its loop                     *)
(*   "acqwait"  mutex_acquire, before it calls sched_wait_single           *)
(*   "holds"    mutex_acquire has returned STATUS_OK                       *)
(*   "signal"   mutex_release, before it calls event_signal                *)
(*                                                                         *)
(* The timeout of a wait is not here: sched_wait_single ignores it.        *)
(***************************************************************************)
EXTENDS Naturals, Sequences, Functions

CONSTANTS
  Threads,
  NoThread,
  Events,    \* events of type kObjTypeEvent
  Notifs,    \* events of type kObjTypeEventNotif
  Timers,
  Mutexes    \* mutexes, each standing for the event inside it

Objects == Events \cup Notifs \cup Timers \cup Mutexes

\* The event inside a mutex is used by the mutex only.
ASSUME DispatchAssumption ==
  /\ NoThread \notin Threads
  /\ Mutexes \cap (Events \cup Notifs \cup Timers) = {}

VARIABLES
  signalcount, waiters, waitercount,   \* obj_header_t
  timer_state,
  owner,                               \* mutex_t.owner
  wait_status, target, pc,             \* of a thread
  panic                                \* the message of the panic, or "none"

objVars    == <<signalcount, waiters, waitercount>>
threadVars == <<wait_status, target, pc>>
vars == <<objVars, timer_state, owner, threadVars, panic>>

Signaled(o) == signalcount[o] # 0

\* Thread t can continue at place; nothing continues after a panic.
At(t, place) == panic = "none" /\ pc[t] = place

-----------------------------------------------------------------------------
(* Waiting and waking                                                      *)

WaitSingleUncounted(t, o, next) ==
  \/ /\ Signaled(o)
     /\ signalcount' = IF o \in Notifs THEN signalcount
                       ELSE [signalcount EXCEPT ![o] = @ - 1]
     /\ wait_status' = [wait_status EXCEPT ![t] = "OK"]
     /\ pc' = [pc EXCEPT ![t] = next]
     /\ UNCHANGED <<waiters, waitercount>>
  \/ /\ ~Signaled(o)
     /\ waiters' = [waiters EXCEPT ![o] = Append(@, t)]
     /\ wait_status' = [wait_status EXCEPT ![t] = "WAITING"]
     /\ pc' = [pc EXCEPT ![t] = "waiting"]
     /\ UNCHANGED <<signalcount, waitercount>>

\* sched_wait_single: take the signal of a signaled object and continue at
\* next, or join the list of waiters and block.
WaitSingle(t, o, next) ==
  \/ /\ Signaled(o)
     /\ signalcount' = IF o \in Notifs THEN signalcount
                       ELSE [signalcount EXCEPT ![o] = @ - 1]
     /\ wait_status' = [wait_status EXCEPT ![t] = "OK"]
     /\ pc' = [pc EXCEPT ![t] = next]
     /\ UNCHANGED <<waiters, waitercount>>
  \/ /\ ~Signaled(o)
     /\ waiters' = [waiters EXCEPT ![o] = Append(@, t)]
     /\ waitercount' = [waitercount EXCEPT ![o] = @ + 1]
     /\ wait_status' = [wait_status EXCEPT ![t] = "WAITING"]
     /\ pc' = [pc EXCEPT ![t] = "waiting"]
     /\ UNCHANGED signalcount

\* obj_satisfy for an object with waiters.  It takes the first waiter's
\* thread_lock and takes the waiter off the list, and sched_unwait calls
\* sched_resume, which acquires thread_lock again: the spinlock gives up with
\* its "deadlock?" assertion, before a second waiter is looked at.
Satisfy(o) ==
  LET t == Head(waiters[o]) IN
  /\ waiters' = [waiters EXCEPT ![o] = Tail(@)]
  /\ waitercount' = [waitercount EXCEPT ![o] = @ - 1]
  /\ wait_status' = [wait_status EXCEPT ![t] = "WAIT0"]
  /\ panic' = "deadlock?"
  /\ UNCHANGED signalcount

-----------------------------------------------------------------------------
(* Events                                                                  *)

EventSignalStores(t, e, next) ==
  /\ signalcount' = [signalcount EXCEPT ![e] = 1]
  /\ pc' = [pc EXCEPT ![t] = next]
  /\ UNCHANGED <<waiters, waitercount, wait_status, panic>>

\* event_signal, after which the thread continues at next.
EventSignal(t, e, next) ==
  \/ /\ Signaled(e)
     /\ pc' = [pc EXCEPT ![t] = next]
     /\ UNCHANGED <<objVars, wait_status, panic>>
  \/ /\ ~Signaled(e) /\ waitercount[e] # 0
     /\ Satisfy(e)
     /\ UNCHANGED pc
  \/ /\ ~Signaled(e) /\ waitercount[e] = 0
     /\ signalcount' = [signalcount EXCEPT ![e] = 1]
     /\ pc' = [pc EXCEPT ![t] = next]
     /\ UNCHANGED <<waiters, waitercount, wait_status, panic>>

Wait(t, o) ==
  /\ At(t, "run")
  /\ WaitSingle(t, o, "run")
  /\ target' = [target EXCEPT ![t] = o]
  /\ UNCHANGED <<timer_state, owner, panic>>

Signal(t, e) ==
  /\ At(t, "run")
  /\ EventSignal(t, e, "run")
  /\ UNCHANGED <<timer_state, owner, target>>

\* event_reset
Reset(t, e) ==
  /\ At(t, "run")
  /\ signalcount' = [signalcount EXCEPT ![e] = 0]
  /\ UNCHANGED <<waiters, waitercount, timer_state, owner, threadVars, panic>>

-----------------------------------------------------------------------------
(* Timers                                                                  *)

\* timer_set and timer_install
Install(t, o) ==
  /\ At(t, "run")
  /\ timer_state[o] # "Queued"
  /\ timer_state' = [timer_state EXCEPT ![o] = "Queued"]
  /\ signalcount' = [signalcount EXCEPT ![o] = 0]
  /\ UNCHANGED <<waiters, waitercount, owner, threadVars, panic>>

\* timer_uninstall
Uninstall(t, o) ==
  /\ At(t, "run")
  /\ timer_state' = [timer_state EXCEPT ![o] = "Canceled"]
  /\ UNCHANGED <<objVars, owner, threadVars, panic>>

\* time_engine_progress finds o due.
Fire(o) ==
  /\ panic = "none"
  /\ timer_state[o] = "Queued"
  /\ timer_state' = [timer_state EXCEPT ![o] = "Fired"]
  /\ \/ waitercount[o] > 0 /\ Satisfy(o)
     \/ waitercount[o] = 0 /\ UNCHANGED <<objVars, wait_status, panic>>
  /\ UNCHANGED <<owner, target, pc>>

-----------------------------------------------------------------------------
(* Mutexes                                                                 *)

\* mutex_acquire is called; a mutex is not acquired twice by one thread.
MutexAcquire(t, m) ==
  /\ At(t, "run")
  /\ pc' = [pc EXCEPT ![t] = "acquire"]
  /\ target' = [target EXCEPT ![t] = m]
  /\ UNCHANGED <<objVars, timer_state, owner, wait_status, panic>>

MutexTryKeepsSignal(t) ==
  LET m == target[t] IN
  /\ At(t, "acquire")
  /\ \/ /\ signalcount[m] = 1
        /\ owner' = [owner EXCEPT ![m] = t]
        /\ pc' = [pc EXCEPT ![t] = "holds"]
     \/ /\ signalcount[m] # 1
        /\ pc' = [pc EXCEPT ![t] = "acqwait"]
        /\ UNCHANGED owner
  /\ UNCHANGED <<objVars, timer_state, wait_status, target, panic>>

\* The head of the loop of mutex_acquire.
MutexTry(t) ==
  LET m == target[t] IN
  /\ At(t, "acquire")
  /\ \/ /\ signalcount[m] = 1
        /\ owner' = [owner EXCEPT ![m] = t]
        /\ signalcount' = [signalcount EXCEPT ![m] = 0]
        /\ pc' = [pc EXCEPT ![t] = "holds"]
     \/ /\ signalcount[m] # 1
        /\ pc' = [pc EXCEPT ![t] = "acqwait"]
        /\ UNCHANGED <<owner, signalcount>>
  /\ UNCHANGED <<waiters, waitercount, timer_state, wait_status, target, panic>>

\* The wait of mutex_acquire; STATUS_OK goes round the loop.
MutexWait(t) ==
  /\ At(t, "acqwait")
  /\ WaitSingle(t, target[t], "acquire")
  /\ UNCHANGED <<timer_state, owner, target, panic>>

\* mutex_release up to the call of event_signal.
MutexRelease(t) ==
  /\ At(t, "holds")
  /\ owner' = [owner EXCEPT ![target[t]] = NoThread]
  /\ pc' = [pc EXCEPT ![t] = "signal"]
  /\ UNCHANGED <<objVars, timer_state, wait_status, target, panic>>

MutexSignal(t) ==
  /\ At(t, "signal")
  /\ EventSignal(t, target[t], "run")
  /\ UNCHANGED <<timer_state, owner, target>>

-----------------------------------------------------------------------------
\* event_init, mutex_init, timer_init: an event may start signaled.
Init ==
  /\ signalcount \in {c \in [Objects -> {0, 1}] :
                        /\ \A m \in Mutexes : c[m] = 1
                        /\ \A o \in Timers : c[o] = 0}
  /\ waiters = [o \in Objects |-> <<>>]
  /\ waitercount = [o \in Objects |-> 0]
  /\ timer_state = [o \in Timers |-> "Unused"]
  /\ owner = [m \in Mutexes |-> NoThread]
  /\ wait_status = [t \in Threads |-> "OK"]
  /\ target \in [Threads -> Mutexes]
  /\ pc = [t \in Threads |-> "run"]
  /\ panic = "none"

ThreadStep(t) ==
  \/ \E o \in Events \cup Notifs \cup Timers : Wait(t, o)
  \/ \E e \in Events \cup Notifs : Signal(t, e) \/ Reset(t, e)
  \/ \E o \in Timers : Install(t, o) \/ Uninstall(t, o)
  \/ \E m \in Mutexes : MutexAcquire(t, m)
  \/ MutexTry(t) \/ MutexWait(t) \/ MutexRelease(t) \/ MutexSignal(t)

Next == (\E t \in Threads : ThreadStep(t)) \/ (\E o \in Timers : Fire(o))

Spec == Init /\ [][Next]_vars

-----------------------------------------------------------------------------
(* Properties                                                              *)

\* Objects and threads have their types; in particular the signal of an event
\* is at most one, however often event_signal is called.
TypeOK ==
  /\ signalcount \in [Objects -> {0, 1}]
  /\ waiters \in [Objects -> Seq(Threads)]
  /\ waitercount \in [Objects -> Nat]
  /\ timer_state \in [Timers -> {"Unused", "Queued", "Fired", "Canceled"}]
  /\ owner \in [Mutexes -> Threads \cup {NoThread}]
  /\ wait_status \in [Threads -> {"OK", "WAITING", "WAIT0"}]
  /\ target \in [Threads -> Objects]
  /\ pc \in [Threads -> {"run", "waiting", "acquire", "acqwait", "holds", "signal"}]
  /\ panic \in {"none", "deadlock?"}

\* The list of waiters of an object holds exactly the threads that are
\* blocked on it, each once, and waitercount counts them, so that
\* event_signal and time_engine_progress, which look at the count, and
\* obj_satisfy, which looks at the list, agree.
WaitersConsistent ==
  /\ TypeOK
  /\ panic = "none" =>
       \A o \in Objects :
         /\ waitercount[o] = Len(waiters[o])
         /\ IsInjective(waiters[o])
         /\ Range(waiters[o]) = {t \in Threads : pc[t] = "waiting" /\ target[t] = o}

\* No thread is blocked on an object that is signaled: a signal that comes
\* between the test of sched_wait_single and the wait is not missed.
NoWaiterOnSignaled ==
  panic = "none" => \A o \in Objects : Signaled(o) => waiters[o] = <<>>

\* The assertions of mutex_acquire and mutex_release: a mutex whose event is
\* signaled has no owner, and the thread that holds a mutex is its owner.
MutexExclusive ==
  /\ \A m \in Mutexes : Signaled(m) => owner[m] = NoThread
  /\ \A t \in Threads : pc[t] = "holds" => owner[target[t]] = t

\* The spinlock's assertion "deadlock?": waking a thread acquires no lock that
\* the waking code already holds.
NoSelfDeadlock == panic # "deadlock?"

\* A mutex that nobody owns and nobody is releasing can be acquired.
MutexNotLost ==
  panic = "none" =>
    \A m \in Mutexes :
      (owner[m] = NoThread /\ \A t \in Threads : pc[t] = "signal" => target[t] # m)
        => Signaled(m)

\* A thread that waits for a timer waits for one that is going to fire: the
\* timer is not one that has already fired.
TimerWaitEnds ==
  panic = "none" =>
    \A o \in Timers : timer_state[o] = "Fired" => waiters[o] = <<>>
=============================================================================
