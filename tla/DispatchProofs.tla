--------------------------- MODULE DispatchProofs ---------------------------
(***************************************************************************)
(* Proofs about DispatchObj, for every set of threads and objects.         *)
(***************************************************************************)
EXTENDS DispatchObj, SequenceTheorems, TLAPS

Busy(t) == pc[t] \in {"holds", "signal"}

\* The list and the count of the waiters of an object.
ListOf(o) ==
  /\ waitercount[o] = Len(waiters[o])
  /\ IsInjective(waiters[o])
  /\ Range(waiters[o]) = {t \in Threads : pc[t] = "waiting" /\ target[t] = o}

Listed == panic = "none" => \A o \in Objects : ListOf(o)

\* A thread inside mutex_acquire or mutex_release is at a mutex, not at an
\* event or a timer.
OnMutex ==
  \A t \in Threads :
    pc[t] \in {"acquire", "acqwait", "holds", "signal"} => target[t] \in Mutexes

\* Between the acquisition of a mutex and the signal of its release one thread
\* has to do with it, and its event is not signaled.
OneBusy ==
  /\ \A t \in Threads : pc[t] = "holds" => owner[target[t]] = t
  /\ \A t \in Threads : pc[t] = "signal" => owner[target[t]] = NoThread
  /\ \A t, u \in Threads : Busy(t) /\ Busy(u) /\ target[t] = target[u] => t = u
  /\ \A m \in Mutexes : Signaled(m) =>
       owner[m] = NoThread /\ \A t \in Threads : Busy(t) => target[t] # m

IInv == TypeOK /\ Listed /\ NoWaiterOnSignaled /\ OnMutex /\ OneBusy

-----------------------------------------------------------------------------
(* The lists of waiters.                                                   *)

\* A list that is left alone, and that no thread joins or leaves.
LEMMA ListStays ==
  ASSUME TypeOK, Listed, panic = "none", NEW o \in Objects,
         waiters'[o] = waiters[o], waitercount'[o] = waitercount[o],
         \A t \in Threads : (pc'[t] = "waiting" /\ target'[t] = o)
                              <=> (pc[t] = "waiting" /\ target[t] = o)
  PROVE  ListOf(o)'
<1>1. ListOf(o)
  BY DEF Listed
<1>2. {t \in Threads : pc'[t] = "waiting" /\ target'[t] = o}
        = {t \in Threads : pc[t] = "waiting" /\ target[t] = o}
  OBVIOUS
<1> QED
  BY <1>1, <1>2 DEF ListOf

\* sched_wait_single appends a thread that is on no list.
LEMMA ListGrows ==
  ASSUME TypeOK, Listed, panic = "none", NEW o \in Objects, NEW t \in Threads,
         pc[t] # "waiting",
         waiters'[o] = Append(waiters[o], t), waitercount'[o] = waitercount[o] + 1,
         pc'[t] = "waiting", target'[t] = o,
         \A u \in Threads : u # t => pc'[u] = pc[u] /\ target'[u] = target[u]
  PROVE  ListOf(o)'
<1> DEFINE w == waiters[o]
           v == Append(w, t)
<1>1. ListOf(o)
  BY DEF Listed
<1>2. w \in Seq(Threads) /\ Len(w) \in Nat
  BY DEF TypeOK
<1>3. /\ v \in Seq(Threads) /\ Len(v) = Len(w) + 1
      /\ \A i \in 1..Len(w) : v[i] = w[i]
      /\ v[Len(w) + 1] = t
  BY <1>2, AppendProperties
<1>4. DOMAIN w = 1..Len(w) /\ DOMAIN v = 1..(Len(w) + 1)
  BY <1>2, <1>3
<1>5. Range(w) = {w[i] : i \in 1..Len(w)} /\ Range(v) = {v[i] : i \in 1..(Len(w) + 1)}
  BY <1>4 DEF Range
<1>6. Range(v) = Range(w) \cup {t}
  BY <1>2, <1>3, <1>5
<1>7. t \notin Range(w)
  BY <1>1 DEF ListOf
<1>8. IsInjective(v)
  BY <1>1, <1>2, <1>3, <1>4, <1>5, <1>7 DEF ListOf, IsInjective
<1>9. Range(v) = {u \in Threads : pc'[u] = "waiting" /\ target'[u] = o}
  BY <1>1, <1>6 DEF ListOf
<1> QED
  BY <1>1, <1>3, <1>8, <1>9 DEF ListOf
-----------------------------------------------------------------------------
(* The steps.                                                              *)

\* Objects start without waiters and mutexes without an owner.
LEMMA InitIInv == Init => IInv
<1> SUFFICES ASSUME Init PROVE IInv
  OBVIOUS
<1>1. TypeOK
  BY EmptySeq DEF Init, TypeOK, Objects
<1>2. \A o \in Objects : ListOf(o)
  <2> TAKE o \in Objects
  <2>1. waiters[o] = <<>> /\ waitercount[o] = 0
    BY DEF Init
  <2>2. Range(waiters[o]) = {}
    BY <2>1 DEF Range
  <2>3. IsInjective(waiters[o])
    BY <2>1 DEF IsInjective
  <2>4. {t \in Threads : pc[t] = "waiting" /\ target[t] = o} = {}
    BY DEF Init
  <2> QED
    BY <2>1, <2>2, <2>3, <2>4 DEF ListOf
<1>3. NoWaiterOnSignaled /\ OnMutex /\ OneBusy
  BY DEF Init, NoWaiterOnSignaled, OnMutex, OneBusy, Busy
<1> QED
  BY <1>1, <1>2, <1>3 DEF IInv, Listed

\* sched_wait_single, from thread code on an event or a timer, or from
\* mutex_acquire on the event of the mutex.
LEMMA WaitSingleIInv ==
  ASSUME IInv, panic = "none", panic' = panic, owner' = owner,
         timer_state' = timer_state,
         NEW t \in Threads, NEW o \in Objects, NEW next,
         \/ pc[t] = "run" /\ next = "run" /\ o \notin Mutexes
         \/ pc[t] = "acqwait" /\ next = "acquire" /\ o \in Mutexes,
         WaitSingle(t, o, next),
         target' = [target EXCEPT ![t] = o]
  PROVE  IInv'
<1>1. target' \in [Threads -> Objects] /\ target'[t] = o
      /\ \A u \in Threads : u # t => target'[u] = target[u]
  BY DEF IInv, TypeOK
<1>2. CASE Signaled(o)
  <2>1. /\ pc' = [pc EXCEPT ![t] = next]
        /\ waiters' = waiters /\ waitercount' = waitercount
        /\ wait_status' = [wait_status EXCEPT ![t] = "OK"]
        /\ signalcount' = signalcount
           \/ signalcount' = [signalcount EXCEPT ![o] = signalcount[o] - 1]
    BY <1>2 DEF WaitSingle
  <2>2. signalcount[o] = 1 /\ signalcount' \in [Objects -> {0, 1}]
        /\ \A x \in Objects : signalcount'[x] # 0 => signalcount[x] # 0
    <3>1. signalcount \in [Objects -> {0, 1}] /\ signalcount[o] = 1
      BY <1>2 DEF IInv, TypeOK, Signaled
    <3>2. CASE signalcount' = signalcount
      BY <3>1, <3>2
    <3>3. CASE signalcount' = [signalcount EXCEPT ![o] = signalcount[o] - 1]
      <4>1. signalcount' = [signalcount EXCEPT ![o] = 0]
        BY <3>1, <3>3
      <4> QED
        BY <3>1, <4>1
    <3> QED
      BY <2>1, <3>1, <3>2, <3>3
  <2>3. TypeOK'
    BY <1>1, <2>1, <2>2 DEF IInv, TypeOK
  <2>4. pc'[t] = next /\ \A u \in Threads : u # t => pc'[u] = pc[u]
    BY <2>1 DEF IInv, TypeOK
  <2>5. Listed'
    BY <1>1, <2>1, <2>4, ListStays DEF IInv, Listed
  <2>6. NoWaiterOnSignaled'
    BY <2>1, <2>2 DEF IInv, NoWaiterOnSignaled, Signaled
  <2>7. OnMutex'
    BY <1>1, <2>4 DEF IInv, OnMutex
  <2>8. OneBusy'
    BY <1>1, <2>2, <2>4 DEF IInv, OneBusy, Busy, Signaled, Objects
  <2> QED
    BY <2>3, <2>5, <2>6, <2>7, <2>8 DEF IInv
<1>3. CASE ~Signaled(o)
  <2>1. /\ pc' = [pc EXCEPT ![t] = "waiting"]
        /\ waiters' = [waiters EXCEPT ![o] = Append(waiters[o], t)]
        /\ waitercount' = [waitercount EXCEPT ![o] = waitercount[o] + 1]
        /\ wait_status' = [wait_status EXCEPT ![t] = "WAITING"]
        /\ signalcount' = signalcount
    BY <1>3 DEF WaitSingle
  <2>2. Append(waiters[o], t) \in Seq(Threads)
    BY AppendProperties DEF IInv, TypeOK
  <2>3. TypeOK'
    BY <1>1, <2>1, <2>2 DEF IInv, TypeOK
  <2>4. pc'[t] = "waiting" /\ \A u \in Threads : u # t => pc'[u] = pc[u]
    BY <2>1 DEF IInv, TypeOK
  <2>5. ListOf(o)'
    <3>1. waiters'[o] = Append(waiters[o], t) /\ waitercount'[o] = waitercount[o] + 1
      BY <2>1 DEF IInv, TypeOK
    <3> QED
      BY <1>1, <2>4, <3>1, ListGrows DEF IInv
  <2>6. ASSUME NEW x \in Objects, x # o
        PROVE  ListOf(x)'
    <3>1. waiters'[x] = waiters[x] /\ waitercount'[x] = waitercount[x]
      BY <2>1, <2>6 DEF IInv, TypeOK
    <3> QED
      BY <1>1, <2>4, <2>6, <3>1, ListStays DEF IInv
  <2>7. Listed'
    BY <2>5, <2>6 DEF Listed
  <2>8. NoWaiterOnSignaled'
    BY <1>3, <2>1 DEF IInv, NoWaiterOnSignaled, Signaled, TypeOK
  <2>9. OnMutex'
    BY <1>1, <2>4 DEF IInv, OnMutex
  <2>10. OneBusy'
    BY <1>1, <2>1, <2>4 DEF IInv, OneBusy, Busy, Signaled
  <2> QED
    BY <2>3, <2>7, <2>8, <2>9, <2>10 DEF IInv
<1> QED
  BY <1>2, <1>3
\* Waking a waiter ends in the panic, after which nothing is promised of the
\* lists.
LEMMA SatisfyIInv ==
  ASSUME IInv, NEW o \in Objects, Satisfy(o), waitercount[o] # 0, panic = "none",
         owner' = owner, target' = target, pc' = pc,
         timer_state' \in [Timers -> {"Unused", "Queued", "Fired", "Canceled"}]
  PROVE  IInv'
<1>1. /\ waiters[o] \in Seq(Threads) /\ waitercount[o] = Len(waiters[o])
      /\ waitercount[o] \in Nat
  BY DEF IInv, TypeOK, Listed, ListOf
<1>2. waiters[o] # <<>>
  BY <1>1
<1>3. Head(waiters[o]) \in Threads /\ Tail(waiters[o]) \in Seq(Threads)
  BY <1>1, <1>2, HeadTailProperties
<1>4. waitercount[o] - 1 \in Nat
  BY <1>1
<1>5. TypeOK'
  BY <1>3, <1>4 DEF Satisfy, IInv, TypeOK
<1>6. panic' # "none" /\ signalcount' = signalcount
  BY DEF Satisfy
<1> QED
  BY <1>5, <1>6 DEF IInv, Listed, NoWaiterOnSignaled, OnMutex, OneBusy, Busy, Signaled

\* event_signal, from thread code on an event, or at the end of mutex_release.
LEMMA EventSignalIInv ==
  ASSUME IInv, panic = "none", NEW t \in Threads, NEW e \in Objects,
         \/ pc[t] = "run" /\ e \notin Mutexes
         \/ pc[t] = "signal" /\ e \in Mutexes /\ target[t] = e,
         EventSignal(t, e, "run"),
         owner' = owner, target' = target, timer_state' = timer_state
  PROVE  IInv'
<1>1. CASE ~Signaled(e) /\ waitercount[e] # 0 /\ Satisfy(e) /\ UNCHANGED pc
  <2>1. timer_state' \in [Timers -> {"Unused", "Queued", "Fired", "Canceled"}]
    BY DEF IInv, TypeOK
  <2> QED
    BY <1>1, <2>1, SatisfyIInv
<1>2. ASSUME pc' = [pc EXCEPT ![t] = "run"], UNCHANGED <<waiters, waitercount, wait_status, panic>>,
             \/ signalcount' = signalcount /\ Signaled(e)
             \/ signalcount' = [signalcount EXCEPT ![e] = 1] /\ waitercount[e] = 0
      PROVE  IInv'
  <2>1. TypeOK'
    BY <1>2 DEF IInv, TypeOK
  <2>2. pc'[t] = "run" /\ \A u \in Threads : u # t => pc'[u] = pc[u]
    BY <1>2 DEF IInv, TypeOK
  <2>3. Listed'
    BY <1>2, <2>2, ListStays DEF IInv, Listed
  <2>4. \A x \in Objects : x # e => signalcount'[x] = signalcount[x]
    BY <1>2 DEF IInv, TypeOK
  <2>5. waitercount[e] = 0 => waiters[e] = <<>>
    BY DEF IInv, Listed, ListOf, TypeOK
  <2>6. NoWaiterOnSignaled'
    BY <1>2, <2>4, <2>5 DEF IInv, NoWaiterOnSignaled, Signaled
  <2>7. OnMutex'
    BY <2>2 DEF IInv, OnMutex
  <2>8. OneBusy'
    BY <1>2, <2>2, <2>4 DEF IInv, OneBusy, Busy, Signaled, Objects
  <2> QED
    BY <2>1, <2>3, <2>6, <2>7, <2>8 DEF IInv
<1> QED
  BY <1>1, <1>2 DEF EventSignal, objVars

\* A step of a thread that is then not between an acquisition and the signal of
\* its release leaves every mutex as it was.
LEMMA NotBusyStep ==
  ASSUME OneBusy, NEW t \in Threads, ~Busy(t)',
         \A u \in Threads : u # t => pc'[u] = pc[u] /\ target'[u] = target[u],
         owner' = owner, signalcount' = signalcount
  PROVE  OneBusy'
<1>1. \A u \in Threads : Busy(u)' => u # t /\ Busy(u) /\ pc'[u] = pc[u] /\ target'[u] = target[u]
  BY DEF Busy
<1>2. \A u \in Threads : pc'[u] = "holds" => owner'[target'[u]] = u
  BY <1>1 DEF OneBusy, Busy
<1>3. \A u \in Threads : pc'[u] = "signal" => owner'[target'[u]] = NoThread
  BY <1>1 DEF OneBusy, Busy
<1>4. \A u, v \in Threads : Busy(u)' /\ Busy(v)' /\ target'[u] = target'[v] => u = v
  BY <1>1 DEF OneBusy
<1>5. \A m \in Mutexes : Signaled(m)' =>
        owner'[m] = NoThread /\ \A u \in Threads : Busy(u)' => target'[u] # m
  BY <1>1 DEF OneBusy, Signaled
<1> QED
  BY <1>2, <1>3, <1>4, <1>5 DEF OneBusy

\* Steps that leave the lists of waiters and the mutexes alone.
LEMMA OtherIInv ==
  ASSUME IInv, panic = "none", NEW t \in Threads,
         \/ \E e \in Events \cup Notifs : Reset(t, e)
         \/ \E o \in Timers : Install(t, o) \/ Uninstall(t, o)
         \/ \E m \in Mutexes : MutexAcquire(t, m)
         \/ MutexTry(t) \/ MutexRelease(t)
  PROVE  IInv'
<1> USE DispatchAssumption
<1>1. /\ waiters' = waiters /\ waitercount' = waitercount /\ panic' = panic
      /\ wait_status' = wait_status
  BY DEF Reset, Install, Uninstall, MutexAcquire, MutexTry, MutexRelease, objVars, threadVars
<1>2. TypeOK'
  <2>1. ASSUME NEW e \in Events \cup Notifs, Reset(t, e) PROVE TypeOK'
    BY <2>1 DEF Reset, threadVars, IInv, TypeOK
  <2>2. ASSUME NEW o \in Timers, Install(t, o) PROVE TypeOK'
    BY <2>2 DEF Install, threadVars, IInv, TypeOK
  <2>3. ASSUME NEW o \in Timers, Uninstall(t, o) PROVE TypeOK'
    BY <2>3 DEF Uninstall, objVars, threadVars, IInv, TypeOK
  <2>4. ASSUME NEW m \in Mutexes, MutexAcquire(t, m) PROVE TypeOK'
    BY <2>4 DEF MutexAcquire, objVars, IInv, TypeOK, Objects
  <2>5. CASE MutexTry(t)
    <3>1. target[t] \in Mutexes /\ target[t] \in Objects
      BY <2>5 DEF MutexTry, IInv, OnMutex, At, Objects
    <3>2. /\ owner' = owner \/ owner' = [owner EXCEPT ![target[t]] = t]
          /\ signalcount' = signalcount \/ signalcount' = [signalcount EXCEPT ![target[t]] = 0]
          /\ pc' = [pc EXCEPT ![t] = "holds"] \/ pc' = [pc EXCEPT ![t] = "acqwait"]
          /\ timer_state' = timer_state /\ target' = target
      BY <2>5 DEF MutexTry
    <3>3. /\ owner' \in [Mutexes -> Threads \cup {NoThread}]
          /\ signalcount' \in [Objects -> {0, 1}]
      <4>1. owner \in [Mutexes -> Threads \cup {NoThread}] /\ signalcount \in [Objects -> {0, 1}]
        BY DEF IInv, TypeOK
      <4>2. owner' \in [Mutexes -> Threads \cup {NoThread}]
        BY <3>1, <3>2, <4>1
      <4>3. signalcount' \in [Objects -> {0, 1}]
        BY <3>1, <3>2, <4>1
      <4> QED
        BY <4>2, <4>3
    <3> QED
      BY <1>1, <3>2, <3>3 DEF IInv, TypeOK
  <2>6. CASE MutexRelease(t)
    BY <2>6 DEF MutexRelease, objVars, IInv, TypeOK
  <2> QED
    BY <2>1, <2>2, <2>3, <2>4, <2>5, <2>6
<1>3. \A x \in Objects : signalcount'[x] # 0 => signalcount[x] # 0
  BY DEF IInv, TypeOK, OnMutex, Reset, Install, Uninstall, MutexAcquire, MutexTry,
         MutexRelease, objVars, threadVars, At, Objects
<1>4. \A u \in Threads : /\ u # t => pc'[u] = pc[u] /\ target'[u] = target[u]
                         /\ pc'[t] # "waiting" /\ pc[t] # "waiting"
  BY DEF IInv, TypeOK, Reset, Install, Uninstall, MutexAcquire, MutexTry,
         MutexRelease, objVars, threadVars, At
<1>5. Listed'
  BY <1>1, <1>4, ListStays DEF IInv, Listed
<1>6. NoWaiterOnSignaled'
  BY <1>1, <1>3 DEF IInv, NoWaiterOnSignaled, Signaled
<1>7. CASE (\E e \in Events \cup Notifs : Reset(t, e)) \/ \E o \in Timers : Install(t, o) \/ Uninstall(t, o)
  <2>1. pc' = pc /\ target' = target /\ owner' = owner
    BY <1>7 DEF Reset, Install, Uninstall, threadVars
  <2> QED
    BY <1>2, <1>3, <1>5, <1>6, <2>1 DEF IInv, OnMutex, OneBusy, Busy, Signaled, Objects
<1>8. ASSUME NEW m \in Mutexes, MutexAcquire(t, m)
      PROVE  OnMutex' /\ OneBusy'
  <2>1. pc'[t] = "acquire" /\ target'[t] = m /\ owner' = owner /\ signalcount' = signalcount
    BY <1>8 DEF MutexAcquire, IInv, TypeOK, objVars
  <2>2. OnMutex'
    BY <1>4, <2>1 DEF IInv, OnMutex
  <2>3. ~Busy(t)'
    BY <2>1 DEF Busy
  <2>4. OneBusy'
    BY <1>4, <2>1, <2>3, NotBusyStep DEF IInv
  <2> QED
    BY <2>2, <2>4
<1>9. CASE MutexTry(t)
  <2>1. target' = target /\ target[t] \in Mutexes
    BY <1>9 DEF MutexTry, IInv, OnMutex, At
  <2>2. CASE pc'[t] = "acqwait"
    <3>1. owner' = owner /\ signalcount' = signalcount
      BY <1>9, <2>2 DEF MutexTry, IInv, TypeOK
    <3>2. OnMutex'
      BY <1>4, <2>1 DEF IInv, OnMutex
    <3>3. ~Busy(t)'
      BY <2>2 DEF Busy
    <3>4. OneBusy'
      BY <1>4, <2>1, <3>1, <3>3, NotBusyStep DEF IInv
    <3> QED
      BY <1>2, <1>5, <1>6, <3>2, <3>4 DEF IInv
  <2>3. CASE pc'[t] # "acqwait"
    <3>1. /\ pc'[t] = "holds" /\ signalcount[target[t]] # 0
          /\ owner'[target[t]] = t /\ signalcount'[target[t]] = 0
          /\ \A m \in Mutexes : m # target[t] => owner'[m] = owner[m]
      BY <1>9, <2>1, <2>3 DEF MutexTry, IInv, TypeOK, Objects
    <3>2. \A u \in Threads : Busy(u) => target[u] # target[t]
      <4>1. Signaled(target[t])
        BY <3>1, Zenon DEF Signaled
      <4> QED
        BY <2>1, <4>1, Zenon DEF IInv, OneBusy
    <3>3. OnMutex'
      BY <1>4, <2>1 DEF IInv, OnMutex
    <3>4. OneBusy'
      <4>1. \A u \in Threads : u # t => pc'[u] = pc[u] /\ target'[u] = target[u]
        BY <1>4
      <4>2. \A u \in Threads : u # t /\ Busy(u)' => /\ Busy(u) /\ target'[u] # target[t]
                                                   /\ target'[u] \in Mutexes
        BY <2>1, <3>2, <4>1 DEF Busy, IInv, OnMutex
      <4>3. ASSUME NEW u \in Threads, pc'[u] = "holds"
            PROVE  owner'[target'[u]] = u
        <5>1. CASE u = t
          BY <2>1, <3>1, <5>1
        <5>2. CASE u # t
          <6>1. pc[u] = "holds" /\ target'[u] = target[u]
            BY <4>1, <4>3, <5>2
          <6>2. target[u] \in Mutexes /\ target[u] # target[t]
            BY <4>2, <4>3, <5>2, <6>1 DEF Busy
          <6>3. owner[target[u]] = u
            BY <6>1 DEF IInv, OneBusy
          <6> QED
            BY <3>1, <6>1, <6>2, <6>3
        <5> QED
          BY <5>1, <5>2
      <4>4. ASSUME NEW u \in Threads, pc'[u] = "signal"
            PROVE  owner'[target'[u]] = NoThread
        <5>2. CASE u # t
          <6>1. pc[u] = "signal" /\ target'[u] = target[u]
            BY <4>1, <4>4, <5>2
          <6>2. target[u] \in Mutexes /\ target[u] # target[t]
            BY <4>2, <4>4, <5>2, <6>1 DEF Busy
          <6>3. owner[target[u]] = NoThread
            BY <6>1 DEF IInv, OneBusy
          <6> QED
            BY <3>1, <6>1, <6>2, <6>3
        <5> QED
          BY <3>1, <4>4, <5>2
      <4>5. \A u, v \in Threads : Busy(u)' /\ Busy(v)' /\ target'[u] = target'[v] => u = v
        BY <2>1, <4>2 DEF IInv, OneBusy
      <4>6. ASSUME NEW m \in Mutexes, Signaled(m)'
            PROVE  owner'[m] = NoThread /\ \A u \in Threads : Busy(u)' => target'[u] # m
        <5>1. m # target[t] /\ Signaled(m)
          BY <1>3, <3>1, <4>6 DEF Signaled, Objects
        <5>2. owner[m] = NoThread /\ \A u \in Threads : Busy(u) => target[u] # m
          BY <5>1 DEF IInv, OneBusy
        <5> QED
          BY <2>1, <3>1, <4>2, <5>1, <5>2
      <4> QED
        BY <4>3, <4>4, <4>5, <4>6 DEF OneBusy
    <3> QED
      BY <1>2, <1>5, <1>6, <3>3, <3>4 DEF IInv
  <2> QED
    BY <2>2, <2>3
<1>10. CASE MutexRelease(t)
  <2>1. /\ target' = target /\ target[t] \in Mutexes /\ signalcount' = signalcount
        /\ pc[t] = "holds" /\ pc'[t] = "signal" /\ owner'[target[t]] = NoThread
        /\ \A m \in Mutexes : m # target[t] => owner'[m] = owner[m]
    BY <1>10 DEF MutexRelease, IInv, TypeOK, OnMutex, At, objVars
  <2>2. Busy(t) /\ \A u \in Threads : /\ Busy(u)' <=> Busy(u)
                                      /\ Busy(u) => target[u] \in Mutexes
                                      /\ u # t => pc'[u] = pc[u]
    BY <1>4, <2>1 DEF Busy, IInv, OnMutex
  <2>3. \A u \in Threads : u # t /\ Busy(u) => target[u] # target[t]
    BY <2>2 DEF IInv, OneBusy
  <2>4. \A u \in Threads : pc'[u] = "holds" => owner'[target[u]] = u
    BY <2>1, <2>2, <2>3 DEF IInv, OneBusy, Busy
  <2>5. \A u \in Threads : pc'[u] = "signal" => owner'[target[u]] = NoThread
    BY <2>1, <2>2, <2>3 DEF IInv, OneBusy, Busy
  <2>6. \A u, v \in Threads : Busy(u)' /\ Busy(v)' /\ target[u] = target[v] => u = v
    BY <2>2 DEF IInv, OneBusy
  <2>7. \A m \in Mutexes : Signaled(m)' =>
          owner'[m] = NoThread /\ \A u \in Threads : Busy(u)' => target[u] # m
    BY <2>1, <2>2 DEF IInv, OneBusy, Signaled
  <2>8. OneBusy'
    BY <2>1, <2>4, <2>5, <2>6, <2>7 DEF OneBusy
  <2>9. OnMutex'
    BY <2>1, <2>2 DEF IInv, OnMutex
  <2> QED
    BY <1>2, <1>5, <1>6, <2>8, <2>9 DEF IInv
<1> QED
  BY <1>2, <1>5, <1>6, <1>7, <1>8, <1>9, <1>10 DEF IInv

\* Every step of every thread keeps the invariant.
LEMMA StepIInv ==
  ASSUME IInv, [Next]_vars
  PROVE  IInv'
<1> USE DispatchAssumption
<1>1. ASSUME NEW t \in Threads, ThreadStep(t)
      PROVE  IInv'
  <2>1. ASSUME NEW o \in Events \cup Notifs \cup Timers, Wait(t, o)
        PROVE  IInv'
    <3>1. o \in Objects /\ o \notin Mutexes
      BY DEF Objects
    <3> QED
      BY <2>1, <3>1, WaitSingleIInv DEF Wait, At
  <2>2. ASSUME NEW e \in Events \cup Notifs, Signal(t, e)
        PROVE  IInv'
    <3>1. e \in Objects /\ e \notin Mutexes
      BY DEF Objects
    <3> QED
      BY <2>2, <3>1, EventSignalIInv DEF Signal, At
  <2>3. CASE MutexWait(t)
    <3>1. target[t] \in Mutexes /\ target[t] \in Objects
      BY <2>3 DEF IInv, OnMutex, MutexWait, At, Objects
    <3>2. target' = [target EXCEPT ![t] = target[t]]
      BY <2>3 DEF MutexWait, IInv, TypeOK
    <3> QED
      BY <2>3, <3>1, <3>2, WaitSingleIInv DEF MutexWait, At
  <2>4. CASE MutexSignal(t)
    <3>1. target[t] \in Mutexes /\ target[t] \in Objects
      BY <2>4 DEF IInv, OnMutex, MutexSignal, At, Objects
    <3> QED
      BY <2>4, <3>1, EventSignalIInv DEF MutexSignal, At
  <2>5. CASE \/ \E e \in Events \cup Notifs : Reset(t, e)
             \/ \E o \in Timers : Install(t, o) \/ Uninstall(t, o)
             \/ \E m \in Mutexes : MutexAcquire(t, m)
             \/ MutexTry(t) \/ MutexRelease(t)
    <3>1. panic = "none"
      BY <2>5 DEF Reset, Install, Uninstall, MutexAcquire, MutexTry, MutexRelease, At
    <3> QED
      BY <2>5, <3>1, OtherIInv
  <2> QED
    BY <1>1, <2>1, <2>2, <2>3, <2>4, <2>5 DEF ThreadStep
<1>2. ASSUME NEW o \in Timers, Fire(o)
      PROVE  IInv'
  <2>1. /\ o \in Objects /\ panic = "none" /\ waitercount[o] \in Nat
        /\ timer_state' \in [Timers -> {"Unused", "Queued", "Fired", "Canceled"}]
        /\ owner' = owner /\ target' = target /\ pc' = pc
    BY <1>2 DEF Fire, IInv, TypeOK, Objects
  <2>2. CASE waitercount[o] > 0 /\ Satisfy(o)
    BY <2>1, <2>2, SatisfyIInv
  <2>3. CASE UNCHANGED <<objVars, wait_status, panic>>
    BY <2>1, <2>3, ListStays DEF IInv, TypeOK, Listed, NoWaiterOnSignaled, OnMutex, OneBusy,
                      Busy, Signaled, objVars
  <2> QED
    BY <1>2, <2>2, <2>3 DEF Fire
<1>3. CASE UNCHANGED vars
  <2>1. /\ waiters' = waiters /\ waitercount' = waitercount /\ panic' = panic
        /\ signalcount' = signalcount /\ owner' = owner /\ pc' = pc /\ target' = target
        /\ timer_state' = timer_state /\ wait_status' = wait_status
    BY <1>3 DEF vars, objVars, threadVars
  <2>2. TypeOK'
    BY <2>1 DEF IInv, TypeOK
  <2>3. Listed'
    BY <2>1, ListStays DEF IInv, Listed
  <2>4. NoWaiterOnSignaled' /\ OnMutex'
    BY <2>1 DEF IInv, NoWaiterOnSignaled, Signaled, OnMutex
  <2>5. OneBusy'
    BY <2>1 DEF IInv, OneBusy, Busy, Signaled
  <2> QED
    BY <2>2, <2>3, <2>4, <2>5 DEF IInv
<1> QED
  BY <1>1, <1>2, <1>3 DEF Next

\* The inductive invariant holds in every reachable state.
THEOREM Inductive == Spec => []IInv
<1>1. Init => IInv
  BY InitIInv
<1>2. IInv /\ [Next]_vars => IInv'
  BY StepIInv
<1> QED
  BY <1>1, <1>2, PTL DEF Spec

\* Up to the first wake-up, the list of an object holds exactly the threads that
\* sched_wait_single has blocked on it, each once, and waitercount counts them,
\* for any number of threads and objects.
THEOREM WaitersCounted == Spec => []WaitersConsistent
<1>1. IInv => WaitersConsistent
  BY DEF IInv, Listed, ListOf, WaitersConsistent
<1> QED
  BY <1>1, Inductive, PTL

\* No thread is blocked on a signaled object, for any number of threads: the
\* test and the append of sched_wait_single are one step for event_signal.
THEOREM SignalNotMissed == Spec => []NoWaiterOnSignaled
<1>1. IInv => NoWaiterOnSignaled
  BY DEF IInv
<1> QED
  BY <1>1, Inductive, PTL

\* A mutex whose event is signaled has no owner, and the thread mutex_acquire
\* returned to is the owner, for any number of threads, although mutex_acquire
\* and mutex_release are several separate critical sections.
THEOREM MutexHasOneOwner == Spec => []MutexExclusive
<1>1. IInv => MutexExclusive
  BY DEF IInv, OneBusy, MutexExclusive
<1> QED
  BY <1>1, Inductive, PTL
=============================================================================
