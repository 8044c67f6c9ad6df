----------------------------- MODULE SchedProofs -----------------------------
(***************************************************************************)
(* Proofs about Sched, for every set of threads and every assignment of    *)
(* priorities.                                                             *)
(***************************************************************************)
EXTENDS Sched, SequenceTheorems, TLAPS

\* No ready thread is above the running one, and a thread selected to preempt
\* is not below it, at any point of the dispatch path.
QueuesBelow ==
  /\ \A t \in Threads : Queued(t) => priority[t] <= priority[cur]
  /\ next # NoThread => priority[next] >= priority[cur]

\* The timer_update DPC is enqueued only when the CPU is going to run it.
UpdatePending == tupdate => softint \/ pc = "dpcs"

IInv ==
  /\ TypeOK
  /\ RunQueuesConsistent
  /\ OnePlace
  /\ QueuesBelow
  /\ PreemptionPending
  /\ UpdatePending
  /\ TimerServed

-----------------------------------------------------------------------------
(* How the two queue operations change the run queues                      *)

\* sched_insert's first branch adds t behind the threads of its queue and
\* leaves every other queue alone.
LEMMA EnqueueQueues ==
  ASSUME TypeOK, NEW t \in Threads, NEW c \in AllThreads, Enqueue(t, c)
  PROVE  LET p == priority[t] IN
         /\ p \in Priorities
         /\ runq' \in [Priorities -> Seq(Threads)]
         /\ \A q \in Priorities : q # p => runq'[q] = runq[q]
         /\ Len(runq[p]) \in Nat
         /\ DOMAIN runq[p] = 1..Len(runq[p])
         /\ DOMAIN runq'[p] = 1..(Len(runq[p]) + 1)
         /\ \A i \in 1..Len(runq[p]) : runq'[p][i] = runq[p][i]
         /\ runq'[p][Len(runq[p]) + 1] = t
         /\ runq'[p] # <<>>
<1> DEFINE p == priority[t]
<1>1. p \in Priorities
  BY PriorityAssumption DEF AllThreads
<1>2. runq[p] \in Seq(Threads)
  BY <1>1 DEF TypeOK
<1>3. runq' = [runq EXCEPT ![p] = Append(runq[p], t)]
  BY DEF Enqueue
<1>4. /\ Append(runq[p], t) \in Seq(Threads)
      /\ Len(Append(runq[p], t)) = Len(runq[p]) + 1
      /\ \A i \in 1..Len(runq[p]) : Append(runq[p], t)[i] = runq[p][i]
      /\ Append(runq[p], t)[Len(runq[p]) + 1] = t
      /\ Append(runq[p], t) # <<>>
  BY <1>2, AppendProperties
<1>5. /\ runq'[p] = Append(runq[p], t)
      /\ runq' \in [Priorities -> Seq(Threads)]
      /\ \A q \in Priorities : q # p => runq'[q] = runq[q]
  BY <1>1, <1>3, <1>4 DEF TypeOK
<1>6. /\ Len(runq[p]) \in Nat
      /\ DOMAIN runq[p] = 1..Len(runq[p])
      /\ DOMAIN runq'[p] = 1..(Len(runq[p]) + 1)
  BY <1>2, <1>4, <1>5, LenProperties
<1> QED
  BY <1>1, <1>4, <1>5, <1>6

\* sched_next takes the head of a highest non-empty queue and leaves every
\* other queue alone.
LEMMA DequeueQueues ==
  ASSUME TypeOK, NEW p \in Priorities, NEW t, SchedNext(p, t)
  PROVE  \E q \in Priorities :
         /\ q >= p
         /\ runq[q] # <<>>
         /\ \A r \in Priorities : r >= p /\ runq[r] # <<>> => r <= q
         /\ runq' \in [Priorities -> Seq(Threads)]
         /\ \A r \in Priorities : r # q => runq'[r] = runq[r]
         /\ Len(runq[q]) \in Nat \ {0}
         /\ DOMAIN runq[q] = 1..Len(runq[q])
         /\ DOMAIN runq'[q] = 1..(Len(runq[q]) - 1)
         /\ \A i \in 1..(Len(runq[q]) - 1) : runq'[q][i] = runq[q][i + 1]
         /\ t = runq[q][1]
         /\ t \in Threads
         /\ run_mask' = IF runq'[q] = <<>> THEN run_mask \ {priority[t]}
                                           ELSE run_mask
<1>1. PICK q \in ReadyAbove(p) :
        /\ \A r \in ReadyAbove(p) : r <= q
        /\ t = Head(runq[q])
        /\ runq' = [runq EXCEPT ![q] = Tail(runq[q])]
        /\ run_mask' = IF Tail(runq[q]) = <<>> THEN run_mask \ {priority[t]}
                                               ELSE run_mask
  BY DEF SchedNext
<1>2. /\ q \in Priorities /\ q >= p /\ runq[q] # <<>>
      /\ \A r \in Priorities : r >= p /\ runq[r] # <<>> => r <= q
  BY <1>1 DEF ReadyAbove
<1>3. runq[q] \in Seq(Threads)
  BY <1>2 DEF TypeOK
<1>4. /\ Head(runq[q]) = runq[q][1]
      /\ Head(runq[q]) \in Threads
      /\ Tail(runq[q]) \in Seq(Threads)
      /\ Len(Tail(runq[q])) = Len(runq[q]) - 1
      /\ \A i \in 1..Len(Tail(runq[q])) : Tail(runq[q])[i] = runq[q][i + 1]
  BY <1>2, <1>3, HeadTailProperties
<1>5. /\ runq'[q] = Tail(runq[q])
      /\ runq' \in [Priorities -> Seq(Threads)]
      /\ \A r \in Priorities : r # q => runq'[r] = runq[r]
  BY <1>1, <1>2, <1>4 DEF TypeOK
<1>6. /\ Len(runq[q]) \in Nat \ {0}
      /\ DOMAIN runq[q] = 1..Len(runq[q])
      /\ DOMAIN runq'[q] = 1..(Len(runq[q]) - 1)
  BY <1>2, <1>3, <1>4, <1>5, LenProperties, EmptySeq
<1> QED
  BY <1>1, <1>2, <1>4, <1>5, <1>6


\* sched_next leaves queues of threads and a mask of priorities.
LEMMA DequeueTypes ==
  ASSUME TypeOK, NEW p \in Priorities, NEW t, SchedNext(p, t)
  PROVE  runq' \in [Priorities -> Seq(Threads)] /\ run_mask' \in SUBSET Priorities
<1>1. runq' \in [Priorities -> Seq(Threads)]
  BY DequeueQueues
<1>2. run_mask' \in SUBSET run_mask
  BY DEF SchedNext
<1> QED
  BY <1>1, <1>2 DEF TypeOK

\* Adding a thread that is in no queue keeps the queues consistent.
LEMMA EnqueueConsistent ==
  ASSUME TypeOK, RunQueuesConsistent, NoDuplicates,
         NEW t \in Threads, NEW c \in AllThreads, ~Queued(t), Enqueue(t, c)
  PROVE  /\ RunQueuesConsistent'
         /\ NoDuplicates'
         /\ \A u \in Threads : Queued(u)' <=> (Queued(u) \/ u = t)
<1> DEFINE p == priority[t]
           n == Len(runq[p])
<1>1. /\ p \in Priorities
      /\ runq' \in [Priorities -> Seq(Threads)]
      /\ \A q \in Priorities : q # p => runq'[q] = runq[q]
      /\ n \in Nat
      /\ DOMAIN runq[p] = 1..n
      /\ DOMAIN runq'[p] = 1..(n + 1)
      /\ \A i \in 1..n : runq'[p][i] = runq[p][i]
      /\ runq'[p][n + 1] = t
      /\ runq'[p] # <<>>
  BY EnqueueQueues
<1>2. run_mask' = run_mask \cup {p}
  BY DEF Enqueue
<1>3. RunQueuesConsistent'
  <2>1. ASSUME NEW q \in Priorities
        PROVE  /\ q \in run_mask' <=> runq'[q] # <<>>
               /\ \A i \in DOMAIN runq'[q] : priority[runq'[q][i]] = q
    <3> HIDE DEF n
    <3>1. CASE q # p
      BY <1>1, <1>2, <3>1 DEF RunQueuesConsistent
    <3>2. CASE q = p
      <4>1. ASSUME NEW i \in 1..(n + 1) PROVE priority[runq'[p][i]] = p
        <5>1. i \in 1..n \/ i = n + 1
          BY <1>1
        <5>2. CASE i = n + 1
          BY <1>1, <5>2
        <5>3. CASE i \in 1..n
          <6> HIDE DEF p
          <6>1. \A j \in DOMAIN runq[p] : priority[runq[p][j]] = p
            BY <1>1 DEF RunQueuesConsistent
          <6> QED
            BY <1>1, <5>3, <6>1
        <5> QED
          BY <5>1, <5>2, <5>3
      <4> QED
        BY <1>1, <1>2, <3>2, <4>1
    <3> QED
      BY <3>1, <3>2
  <2> QED
    BY <2>1 DEF RunQueuesConsistent
<1>i. ASSUME NEW r \in Priorities, NEW i \in DOMAIN runq'[r]
      PROVE  \/ i \in DOMAIN runq[r] /\ runq'[r][i] = runq[r][i]
             \/ r = p /\ i = n + 1 /\ runq'[r][i] = t
  <2>1. CASE r = p
    <3>1. i \in 1..n \/ i = n + 1
      BY <1>1, <2>1
    <3> QED
      BY <1>1, <2>1, <3>1
  <2>2. CASE r # p
    BY <1>1, <2>2
  <2> QED
    BY <2>1, <2>2
<1>j. ASSUME NEW r \in Priorities, NEW i \in DOMAIN runq[r]
      PROVE  /\ i \in DOMAIN runq'[r] /\ runq'[r][i] = runq[r][i]
             /\ runq[r][i] # t
  <2>1. runq[r][i] # t
    BY DEF Queued
  <2>2. CASE r = p
    <3>1. i \in 1..n
      BY <1>1, <2>2
    <3>2. i \in 1..(n + 1)
      BY <1>1, <3>1
    <3> QED
      BY <1>1, <2>1, <2>2, <3>1, <3>2
  <2>3. CASE r # p
    BY <1>1, <2>1, <2>3
  <2> QED
    BY <2>2, <2>3
<1>4. NoDuplicates'
  <2> SUFFICES ASSUME NEW r \in Priorities, NEW s \in Priorities,
                      NEW i \in DOMAIN runq'[r], NEW j \in DOMAIN runq'[s],
                      runq'[r][i] = runq'[s][j]
               PROVE  r = s /\ i = j
    BY DEF NoDuplicates
  <2>1. CASE runq'[r][i] = t
    <3>1. r = p /\ i = n + 1
      BY <1>i, <1>j, <2>1
    <3>2. runq'[s][j] = t
      BY <2>1
    <3>3. s = p /\ j = n + 1
      BY <1>i, <1>j, <3>2
    <3> QED
      BY <3>1, <3>3
  <2>2. CASE runq'[r][i] # t
    <3>1. i \in DOMAIN runq[r] /\ runq'[r][i] = runq[r][i]
      BY <1>i, <2>2
    <3>2. j \in DOMAIN runq[s] /\ runq'[s][j] = runq[s][j]
      BY <1>i, <2>2
    <3>3. runq[r][i] = runq[s][j]
      BY <3>1, <3>2
    <3> QED
      BY <3>1, <3>2, <3>3 DEF NoDuplicates
  <2> QED
    BY <2>1, <2>2
<1>5. \A u \in Threads : Queued(u)' <=> (Queued(u) \/ u = t)
  <2>1. Queued(t)'
    BY <1>1 DEF Queued
  <2>2. ASSUME NEW u \in Threads, Queued(u) PROVE Queued(u)'
    BY <1>j, <2>2 DEF Queued
  <2>3. ASSUME NEW u \in Threads, Queued(u)' PROVE Queued(u) \/ u = t
    BY <1>i, <2>3 DEF Queued
  <2> QED
    BY <2>1, <2>2, <2>3
<1> QED
  BY <1>3, <1>4, <1>5

\* Taking the next thread keeps the queues consistent, and no ready thread at
\* or above the given priority is above the one taken.
LEMMA DequeueConsistent ==
  ASSUME TypeOK, RunQueuesConsistent, NoDuplicates,
         NEW p \in Priorities, NEW t, SchedNext(p, t)
  PROVE  /\ RunQueuesConsistent'
         /\ NoDuplicates'
         /\ t \in Threads
         /\ Queued(t) /\ ~Queued(t)'
         /\ \A u \in Threads \ {t} : Queued(u)' <=> Queued(u)
         /\ priority[t] >= p
         /\ \A u \in Threads :
              Queued(u) /\ priority[u] >= p => priority[u] <= priority[t]
<1>1. PICK q \in Priorities :
        /\ q >= p
        /\ runq[q] # <<>>
        /\ \A r \in Priorities : r >= p /\ runq[r] # <<>> => r <= q
        /\ runq' \in [Priorities -> Seq(Threads)]
        /\ \A r \in Priorities : r # q => runq'[r] = runq[r]
        /\ Len(runq[q]) \in Nat \ {0}
        /\ DOMAIN runq[q] = 1..Len(runq[q])
        /\ DOMAIN runq'[q] = 1..(Len(runq[q]) - 1)
        /\ \A i \in 1..(Len(runq[q]) - 1) : runq'[q][i] = runq[q][i + 1]
        /\ t = runq[q][1]
        /\ t \in Threads
        /\ run_mask' = IF runq'[q] = <<>> THEN run_mask \ {priority[t]}
                                          ELSE run_mask
  BY DequeueQueues
<1> DEFINE n == Len(runq[q])
           old(r, i) == IF r = q THEN i + 1 ELSE i
<1>2. priority[t] = q
  BY <1>1 DEF RunQueuesConsistent
<1>i. ASSUME NEW r \in Priorities, NEW i \in DOMAIN runq'[r]
      PROVE  /\ old(r, i) \in DOMAIN runq[r]
             /\ runq'[r][i] = runq[r][old(r, i)]
             /\ r = q => i \in Nat /\ old(r, i) # 1
  <2>1. CASE r = q
    <3>1. i \in 1..(n - 1) /\ n \in Nat
      BY <1>1, <2>1
    <3>2. i + 1 \in 1..n /\ i + 1 # 1
      BY <3>1
    <3> QED
      BY <1>1, <2>1, <3>1, <3>2
  <2>2. CASE r # q
    BY <1>1, <2>2
  <2> QED
    BY <2>1, <2>2
<1> HIDE DEF old
<1>3. RunQueuesConsistent'
  <2> SUFFICES ASSUME NEW r \in Priorities
               PROVE  /\ r \in run_mask' <=> runq'[r] # <<>>
                      /\ \A i \in DOMAIN runq'[r] : priority[runq'[r][i]] = r
    BY DEF RunQueuesConsistent
  <2>1. \A i \in DOMAIN runq'[r] : priority[runq'[r][i]] = r
    BY <1>i DEF RunQueuesConsistent
  <2>2. r # q => (r \in run_mask' <=> runq'[r] # <<>>)
    BY <1>1, <1>2 DEF RunQueuesConsistent
  <2>3. q \in run_mask
    BY <1>1 DEF RunQueuesConsistent
  <2>4. q \in run_mask' <=> runq'[q] # <<>>
    BY <1>1, <1>2, <2>3
  <2> QED
    BY <2>1, <2>2, <2>4
<1>4. NoDuplicates'
  <2> SUFFICES ASSUME NEW r \in Priorities, NEW s \in Priorities,
                      NEW i \in DOMAIN runq'[r], NEW j \in DOMAIN runq'[s],
                      runq'[r][i] = runq'[s][j]
               PROVE  r = s /\ i = j
    BY DEF NoDuplicates
  <2>1. r = s /\ old(r, i) = old(s, j)
    BY <1>i DEF NoDuplicates
  <2> QED
    BY <1>i, <2>1 DEF old
<1>5. Queued(t)
  BY <1>1 DEF Queued
<1>6. ~Queued(t)'
  <2> SUFFICES ASSUME NEW r \in Priorities, NEW i \in DOMAIN runq'[r],
                      runq'[r][i] = t
               PROVE  FALSE
    BY DEF Queued
  <2>1. 1 \in DOMAIN runq[q] /\ runq[q][1] = t
    BY <1>1
  <2>2. r = q /\ old(r, i) = 1
    BY <1>i, <2>1 DEF NoDuplicates
  <2> QED
    BY <1>i, <2>2
<1>7. ASSUME NEW u \in Threads \ {t} PROVE Queued(u)' <=> Queued(u)
  <2>1. ASSUME NEW r \in Priorities, NEW i \in DOMAIN runq[r], runq[r][i] = u
        PROVE  Queued(u)'
    <3>1. CASE r = q
      <4>1. i \in 2..n
        BY <1>1, <1>7, <2>1, <3>1
      <4>2. i - 1 \in DOMAIN runq'[q] /\ runq'[q][i - 1] = u
        BY <1>1, <2>1, <3>1, <4>1
      <4> QED
        BY <4>2 DEF Queued
    <3>2. CASE r # q
      BY <1>1, <2>1, <3>2 DEF Queued
    <3> QED
      BY <3>1, <3>2
  <2>2. ASSUME NEW r \in Priorities, NEW i \in DOMAIN runq'[r], runq'[r][i] = u
        PROVE  Queued(u)
    <3>1. CASE r = q
      <4>1. i + 1 \in DOMAIN runq[q] /\ runq[q][i + 1] = u
        BY <1>1, <2>2, <3>1
      <4> QED
        BY <4>1 DEF Queued
    <3>2. CASE r # q
      BY <1>1, <2>2, <3>2 DEF Queued
    <3> QED
      BY <3>1, <3>2
  <2> QED
    BY <2>1, <2>2 DEF Queued
<1>8. ASSUME NEW u \in Threads, Queued(u), priority[u] >= p
      PROVE  priority[u] <= priority[t]
  <2>1. PICK r \in Priorities : \E i \in DOMAIN runq[r] : runq[r][i] = u
    BY <1>8 DEF Queued
  <2>2. priority[u] = r /\ runq[r] # <<>>
    BY <2>1, EmptySeq DEF RunQueuesConsistent
  <2> QED
    BY <1>1, <1>2, <1>8, <2>2
<1> QED
  BY <1>1, <1>2, <1>3, <1>4, <1>5, <1>6, <1>7, <1>8

\* When all run queues are empty, no thread is ready.
LEMMA NothingReady ==
  ASSUME TypeOK, ReadyAbove(0) = {}, NEW t \in Threads
  PROVE  ~Queued(t)
<1>1. \A p \in Priorities : runq[p] = <<>>
  BY PriorityAssumption DEF ReadyAbove, Priorities
<1> QED
  BY <1>1 DEF Queued

-----------------------------------------------------------------------------
(* What the helpers of the actions preserve                                *)

\* Priorities are numbers, and the idle thread has the lowest.
LEMMA PriorityTypes ==
  \A t \in AllThreads : priority[t] \in Priorities /\ priority[t] \in Nat
BY PriorityAssumption DEF Priorities

\* A step that leaves the queues, the thread states and the thread pointers
\* alone keeps what is said about them.
LEMMA QuietStep ==
  ASSUME RunQueuesConsistent, OnePlace, QueuesBelow,
         UNCHANGED <<state, queueVars, cur, next, done>>
  PROVE  RunQueuesConsistent' /\ OnePlace' /\ QueuesBelow'
<1> USE DEF queueVars
<1>1. RunQueuesConsistent' /\ NoDuplicates'
  BY DEF RunQueuesConsistent, OnePlace, NoDuplicates
<1>2. \A t \in Threads : Queued(t)' <=> Queued(t)
  BY DEF Queued
<1>3. OnePlace'
  BY <1>1, <1>2 DEF OnePlace
<1>4. QueuesBelow'
  BY <1>2 DEF QueuesBelow
<1> QED
  BY <1>1, <1>3, <1>4

\* What check_timer does to the timer and to its DPC: afterwards a queued
\* timer and an enqueued DPC are going to be served.
LEMMA EnqueueTimer ==
  ASSUME TypeOK, tupdate => softint, NEW t \in Threads, NEW c \in AllThreads,
         Enqueue(t, c)
  PROVE  /\ state' \in [AllThreads -> {"Null", "Ready", "Waiting", "Standby"}]
         /\ state'[t] = "Ready"
         /\ \A u \in AllThreads : u # t => state'[u] = state[u]
         /\ run_mask' \in SUBSET Priorities
         /\ softint' \in BOOLEAN /\ tupdate' \in BOOLEAN
         /\ ptimer' \in {"Unused", "Fired", "Queued", "Canceled"}
         /\ due' \in BOOLEAN /\ armed' \in BOOLEAN /\ early' \in BOOLEAN
         /\ tupdate' => softint'
         /\ ptimer' = "Queued" => tupdate'
<1>1. /\ state' = [state EXCEPT ![t] = "Ready"]
      /\ run_mask' = run_mask \cup {priority[t]}
      /\ CheckTimer(c, run_mask')
  BY DEF Enqueue
<1>2. /\ state' \in [AllThreads -> {"Null", "Ready", "Waiting", "Standby"}]
      /\ state'[t] = "Ready"
      /\ \A u \in AllThreads : u # t => state'[u] = state[u]
  BY <1>1 DEF TypeOK, AllThreads
<1>3. run_mask' \in SUBSET Priorities
  BY <1>1, PriorityTypes DEF TypeOK, AllThreads
<1>4. /\ due' = FALSE /\ armed' = armed /\ early' = early
      /\ ptimer' \in {"Queued", "Canceled"}
      /\ \/ ptimer' = "Queued" /\ EnqueueUpdate
         \/ ptimer' = "Canceled" /\ EnqueueUpdate
         \/ ptimer' = "Canceled" /\ UNCHANGED dpcVars
  BY <1>1 DEF CheckTimer
<1>5. /\ softint' \in BOOLEAN /\ tupdate' \in BOOLEAN
      /\ tupdate' => softint'
      /\ ptimer' = "Queued" => tupdate'
  <2>1. CASE EnqueueUpdate
    BY <2>1, Zenon DEF EnqueueUpdate, TypeOK
  <2>2. CASE ptimer' = "Canceled" /\ UNCHANGED dpcVars
    <3>1. softint' = softint /\ tupdate' = tupdate
      BY <2>2 DEF dpcVars
    <3> QED
      BY <2>2, <3>1 DEF TypeOK
  <2> QED
    BY <1>4, <2>1, <2>2
<1> QED
  BY <1>2, <1>3, <1>4, <1>5 DEF TypeOK

\* sched_yield_internal runs a highest ready thread, or the idle thread when
\* no thread is ready.
LEMMA YieldRunsHighest ==
  ASSUME TypeOK, RunQueuesConsistent, NoDuplicates, YieldInternal
  PROVE  /\ RunQueuesConsistent'
         /\ NoDuplicates'
         /\ runq' \in [Priorities -> Seq(Threads)]
         /\ run_mask' \in SUBSET Priorities
         /\ cur' \in AllThreads
         /\ cur' = Idle \/ Queued(cur')
         /\ \A u \in Threads : Queued(u)' => Queued(u) /\ u # cur'
         /\ \A u \in Threads : Queued(u)' => priority[u] <= priority[cur']
         /\ cont' \in [AllThreads -> {"lower", "loop"}]
         /\ pc' \in {"lower", "loop"}
<1> DEFINE Switched(t) == SwitchTo(t, "lower")
<1>0. ASSUME NEW t \in AllThreads, Switched(t)
      PROVE  /\ cur' = t
             /\ cont' \in [AllThreads -> {"lower", "loop"}]
             /\ pc' \in {"lower", "loop"}
  BY <1>0 DEF SwitchTo, TypeOK
<1>1. CASE ReadyAbove(0) = {} /\ Switched(Idle) /\ UNCHANGED queueVars
  <2>1. \A u \in Threads : ~Queued(u)
    BY <1>1, NothingReady
  <2>2. \A u \in Threads : ~Queued(u)'
    BY <1>1, <2>1 DEF Queued, queueVars
  <2>3. RunQueuesConsistent' /\ NoDuplicates'
    BY <1>1 DEF RunQueuesConsistent, NoDuplicates, queueVars
  <2>4. Idle \in AllThreads
    BY DEF AllThreads
  <2> HIDE DEF Switched
  <2> QED
    BY <1>0, <1>1, <2>2, <2>3, <2>4 DEF queueVars, TypeOK
<1>2. ASSUME NEW t \in Threads, SchedNext(0, t), Switched(t)
      PROVE  /\ RunQueuesConsistent'
             /\ NoDuplicates'
             /\ runq' \in [Priorities -> Seq(Threads)]
             /\ run_mask' \in SUBSET Priorities
             /\ cur' = t /\ Queued(t)
             /\ \A u \in Threads : Queued(u)' => Queued(u) /\ u # t
             /\ \A u \in Threads : Queued(u)' => priority[u] <= priority[t]
             /\ cont' \in [AllThreads -> {"lower", "loop"}]
             /\ pc' \in {"lower", "loop"}
  <2>1. 0 \in Priorities
    BY PriorityAssumption DEF Priorities
  <2>2. /\ RunQueuesConsistent' /\ NoDuplicates'
        /\ Queued(t) /\ ~Queued(t)'
        /\ \A u \in Threads \ {t} : Queued(u)' <=> Queued(u)
        /\ \A u \in Threads :
             Queued(u) /\ priority[u] >= 0 => priority[u] <= priority[t]
    BY <1>2, <2>1, DequeueConsistent
  <2>3. runq' \in [Priorities -> Seq(Threads)] /\ run_mask' \in SUBSET Priorities
    BY <1>2, <2>1, DequeueTypes
  <2>4. \A u \in Threads : Queued(u)' => Queued(u) /\ u # t
    BY <2>2
  <2>5. \A u \in Threads : priority[u] >= 0
    BY PriorityTypes DEF AllThreads
  <2>6. t \in AllThreads
    BY DEF AllThreads
  <2> HIDE DEF Switched
  <2> QED
    BY <1>0, <1>2, <2>2, <2>3, <2>4, <2>5, <2>6
<1>3. \/ ReadyAbove(0) = {} /\ Switched(Idle) /\ UNCHANGED queueVars
      \/ \E t \in Threads : SchedNext(0, t) /\ Switched(t)
  BY DEF YieldInternal
<1> HIDE DEF Switched
<1>4. CASE \E t \in Threads : SchedNext(0, t) /\ Switched(t)
  <2>1. PICK t \in Threads : SchedNext(0, t) /\ Switched(t)
    BY <1>4
  <2>2. t \in AllThreads
    BY DEF AllThreads
  <2>3. /\ RunQueuesConsistent'
        /\ NoDuplicates'
        /\ runq' \in [Priorities -> Seq(Threads)]
        /\ run_mask' \in SUBSET Priorities
        /\ cur' = t /\ Queued(t)
        /\ \A u \in Threads : Queued(u)' => Queued(u) /\ u # t
        /\ \A u \in Threads : Queued(u)' => priority[u] <= priority[t]
        /\ cont' \in [AllThreads -> {"lower", "loop"}]
        /\ pc' \in {"lower", "loop"}
    BY <1>2, <2>1
  <2>4. Queued(cur')
    BY <2>3
  <2> QED
    BY <2>2, <2>3, <2>4
<1> QED
  BY <1>1, <1>3, <1>4

-----------------------------------------------------------------------------
(* IInv is inductive                                                       *)

\* sched_init leaves the CPU in a state that satisfies the invariant.
LEMMA InitIInv == Init => IInv
<1> SUFFICES ASSUME Init PROVE IInv
  OBVIOUS
<1> USE DEF Init
<1>1. TypeOK
  BY EmptySeq DEF TypeOK, AllThreads
<1>2. RunQueuesConsistent /\ NoDuplicates
  BY DEF RunQueuesConsistent, NoDuplicates
<1>3. \A t \in Threads : ~Queued(t)
  BY DEF Queued
<1>4. OnePlace
  BY <1>2, <1>3, ThreadsAssumption DEF OnePlace, AllThreads
<1>5. QueuesBelow
  BY <1>3 DEF QueuesBelow
<1>6. PreemptionPending /\ UpdatePending /\ TimerServed
  BY DEF PreemptionPending, UpdatePending, TimerServed
<1> QED
  BY <1>1, <1>2, <1>4, <1>5, <1>6 DEF IInv

\* Starting a thread keeps the invariant: at PASSIVE level no preemption is
\* pending, so the thread is compared with the running one.
LEMMA ResumeIInv ==
  ASSUME IInv, NEW t \in Threads, Resume(t)
  PROVE  IInv'
<1> USE DEF IInv
<1>1. /\ pc = "run" /\ state[t] = "Null" /\ pc' = "lower"
      /\ cur' = cur /\ done' = done /\ cont' = cont
  BY DEF Resume
<1>2. next = NoThread
  BY <1>1 DEF PreemptionPending
<1>3. /\ ~Queued(t) /\ t # cur /\ t \notin done
      /\ tupdate => softint
      /\ NoDuplicates
      /\ cur \in AllThreads
  BY <1>1 DEF OnePlace, UpdatePending, TypeOK
<1>4. \/ priority[cur] >= priority[t] /\ Enqueue(t, cur) /\ next' = NoThread
      \/ priority[cur] < priority[t] /\ Standby(t) /\ next' = t
  BY <1>2 DEF Resume, Insert
<1>5. CASE priority[cur] >= priority[t] /\ Enqueue(t, cur) /\ next' = NoThread
  <2>1. /\ RunQueuesConsistent' /\ NoDuplicates'
        /\ \A u \in Threads : Queued(u)' <=> (Queued(u) \/ u = t)
    BY <1>3, <1>5, EnqueueConsistent
  <2>2. runq' \in [Priorities -> Seq(Threads)]
    BY <1>3, <1>5, EnqueueQueues
  <2>3. /\ state' \in [AllThreads -> {"Null", "Ready", "Waiting", "Standby"}]
        /\ state'[t] = "Ready"
        /\ \A u \in AllThreads : u # t => state'[u] = state[u]
        /\ run_mask' \in SUBSET Priorities
        /\ softint' \in BOOLEAN /\ tupdate' \in BOOLEAN
        /\ ptimer' \in {"Unused", "Fired", "Queued", "Canceled"}
        /\ due' \in BOOLEAN /\ armed' \in BOOLEAN /\ early' \in BOOLEAN
        /\ tupdate' => softint'
        /\ ptimer' = "Queued" => tupdate'
    BY <1>3, <1>5, EnqueueTimer
  <2>4. TypeOK'
    BY <1>1, <1>5, <2>2, <2>3 DEF TypeOK
  <2>5. OnePlace'
    BY <1>1, <1>2, <1>3, <1>5, <2>1, <2>3 DEF OnePlace, AllThreads
  <2>6. QueuesBelow'
    BY <1>1, <1>5, <2>1 DEF QueuesBelow
  <2>7. PreemptionPending' /\ UpdatePending' /\ TimerServed'
    BY <1>1, <1>5, <2>3 DEF PreemptionPending, UpdatePending, TimerServed
  <2> QED
    BY <2>1, <2>4, <2>5, <2>6, <2>7
<1>6. CASE priority[cur] < priority[t] /\ Standby(t) /\ next' = t
  <2>1. /\ state' = [state EXCEPT ![t] = "Standby"] /\ softint' = TRUE
        /\ runq' = runq /\ run_mask' = run_mask /\ tupdate' = tupdate
        /\ ptimer' = ptimer /\ due' = due /\ armed' = armed /\ early' = early
    BY <1>6 DEF Standby, queueVars, timerVars
  <2>2. \A u \in Threads : Queued(u)' <=> Queued(u)
    BY <2>1 DEF Queued
  <2>3. RunQueuesConsistent' /\ NoDuplicates'
    BY <1>3, <2>1 DEF RunQueuesConsistent, NoDuplicates
  <2>4. TypeOK'
    BY <1>1, <1>6, <2>1 DEF TypeOK
  <2>5. OnePlace'
    BY <1>1, <1>3, <1>6, <2>1, <2>2, <2>3 DEF OnePlace, TypeOK, AllThreads
  <2>6. QueuesBelow'
    <3>1. \A u \in Threads : Queued(u)' => priority[u] <= priority[cur']
      BY <1>1, <2>2 DEF QueuesBelow
    <3>2. t \in AllThreads /\ cur \in AllThreads
      BY <1>3 DEF TypeOK, AllThreads
    <3>3. priority[t] \in Nat /\ priority[cur] \in Nat
      BY <3>2, PriorityTypes
    <3>4. priority[next'] >= priority[cur']
      BY <1>1, <1>6, <3>3
    <3> QED
      BY <3>1, <3>4 DEF QueuesBelow
  <2>7. PreemptionPending' /\ UpdatePending' /\ TimerServed'
    BY <1>1, <2>1 DEF PreemptionPending, UpdatePending, TimerServed
  <2> QED
    BY <2>3, <2>4, <2>5, <2>6, <2>7
<1> QED
  BY <1>4, <1>5, <1>6

\* A thread that waits or exits leaves its scheduling state behind and the
\* highest ready thread runs.
LEMMA YieldIInv ==
  ASSUME IInv, Wait \/ Exit
  PROVE  IInv'
<1> USE DEF IInv
<1>1. /\ pc = "run" /\ cur # Idle /\ YieldInternal
      /\ next' = next /\ UNCHANGED <<dpcVars, timerVars>>
  BY DEF Wait, Exit
<1>2. next = NoThread
  BY <1>1 DEF PreemptionPending
<1>3. NoDuplicates /\ cur \in Threads
  BY <1>1 DEF OnePlace, TypeOK, AllThreads
<1>4. /\ RunQueuesConsistent' /\ NoDuplicates'
      /\ runq' \in [Priorities -> Seq(Threads)]
      /\ run_mask' \in SUBSET Priorities
      /\ cur' \in AllThreads
      /\ cur' = Idle \/ Queued(cur')
      /\ \A u \in Threads : Queued(u)' => Queued(u) /\ u # cur'
      /\ \A u \in Threads : Queued(u)' => priority[u] <= priority[cur']
      /\ cont' \in [AllThreads -> {"lower", "loop"}]
      /\ pc' \in {"lower", "loop"}
  BY <1>1, <1>3, YieldRunsHighest
<1>5. /\ cur' # cur
      /\ cur' \notin done
      /\ cur' # NoThread
      /\ \A u \in Threads : state[u] \in {"Null", "Waiting"} => u # cur'
  <2>1. done \in SUBSET Threads
    BY DEF TypeOK
  <2>2. CASE cur' = Idle
    BY <1>1, <2>1, <2>2, ThreadsAssumption DEF AllThreads
  <2>3. CASE cur' # Idle
    <3>1. cur' \in Threads /\ Queued(cur')
      BY <1>4, <2>3 DEF AllThreads
    <3>2. cur' \notin {cur, next} \cup done /\ state[cur'] = "Ready"
      BY <3>1, Zenon DEF OnePlace
    <3> QED
      BY <3>1, <3>2, ThreadsAssumption DEF AllThreads
  <2> QED
    BY <2>2, <2>3
<1>6. /\ softint' = softint /\ tupdate' = tupdate
      /\ ptimer' = ptimer /\ due' = due /\ armed' = armed /\ early' = early
  BY <1>1 DEF dpcVars, timerVars
<1>7. CASE Wait
  <2>1. state' = [state EXCEPT ![cur] = "Waiting"] /\ done' = done
    BY <1>7 DEF Wait
  <2>2. TypeOK'
    BY <1>1, <1>3, <1>4, <1>6, <2>1 DEF TypeOK
  <2>3. OnePlace'
    <3>1. state'[cur] = "Waiting" /\ \A u \in Threads : u # cur => state'[u] = state[u]
      BY <1>3, <2>1 DEF TypeOK, AllThreads
    <3>2. ASSUME NEW u \in Threads, Queued(u)'
          PROVE  u \notin {cur', next'} \cup done' /\ state'[u] = "Ready"
      <4>1. Queued(u) /\ u # cur'
        BY <1>4, <3>2
      <4>2. u # cur /\ u # next /\ u \notin done /\ state[u] = "Ready"
        BY <4>1 DEF OnePlace
      <4> QED
        BY <1>1, <2>1, <3>1, <4>1, <4>2
    <3>3. ASSUME NEW u \in Threads, state'[u] \in {"Null", "Waiting"}
          PROVE  u \notin {cur', next'} \cup done'
      <4>1. u = cur \/ state[u] \in {"Null", "Waiting"}
        BY <3>1, <3>3
      <4>2. u # next /\ u \notin done
        BY <4>1 DEF OnePlace
      <4>3. u # cur'
        BY <1>5, <4>1
      <4> QED
        BY <1>1, <2>1, <4>2, <4>3
    <3>4. cur' # next' /\ {cur', next'} \cap done' = {}
      BY <1>1, <1>2, <1>5, <2>1 DEF OnePlace
    <3> QED
      BY <1>4, <3>2, <3>3, <3>4 DEF OnePlace
  <2> QED
    BY <1>1, <1>2, <1>4, <1>6, <2>2, <2>3
    DEF QueuesBelow, PreemptionPending, UpdatePending, TimerServed
<1>8. CASE Exit
  <2>1. state' = state /\ done' = done \cup {cur}
    BY <1>8 DEF Exit
  <2>2. TypeOK'
    BY <1>1, <1>3, <1>4, <1>6, <2>1 DEF TypeOK
  <2>3. OnePlace'
    <3>1. ASSUME NEW u \in Threads, Queued(u)'
          PROVE  u \notin {cur', next'} \cup done' /\ state'[u] = "Ready"
      <4>1. Queued(u) /\ u # cur'
        BY <1>4, <3>1
      <4>2. u # cur /\ u # next /\ u \notin done /\ state[u] = "Ready"
        BY <4>1 DEF OnePlace
      <4> QED
        BY <1>1, <2>1, <4>1, <4>2
    <3>2. ASSUME NEW u \in Threads, state'[u] \in {"Null", "Waiting"}
          PROVE  u \notin {cur', next'} \cup done'
      <4>1. state[u] \in {"Null", "Waiting"}
        BY <2>1, <3>2
      <4>2. u # cur /\ u # next /\ u \notin done
        BY <4>1 DEF OnePlace
      <4>3. u # cur'
        BY <1>5, <4>1
      <4> QED
        BY <1>1, <2>1, <4>2, <4>3
    <3>3. cur' # next' /\ {cur', next'} \cap done' = {}
      <4>1. next \notin done /\ next # cur
        BY DEF OnePlace
      <4> QED
        BY <1>1, <1>2, <1>5, <2>1, <4>1
    <3> QED
      BY <1>4, <3>1, <3>2, <3>3 DEF OnePlace
  <2> QED
    BY <1>1, <1>2, <1>4, <1>6, <2>2, <2>3
    DEF QueuesBelow, PreemptionPending, UpdatePending, TimerServed
<1> QED
  BY <1>7, <1>8

\* sched_preempt puts the running thread back at the tail of its queue before
\* it switches, so the thread it switches to is in no other place.
LEMMA PreemptIInv ==
  ASSUME IInv, Preempt
  PROVE  IInv'
<1> USE DEF IInv
<1>1. /\ pc = "check" /\ next \in Threads /\ next' = NoThread /\ done' = done
      /\ cur' = next
      /\ cont' \in [AllThreads -> {"lower", "loop"}]
      /\ pc' \in {"lower", "loop"}
  BY DEF Preempt, SwitchTo, TypeOK, AllThreads
<1>2. /\ cur # next /\ cur \notin done /\ next \notin done
      /\ ~Queued(next)
      /\ state[next] \notin {"Null", "Waiting"}
      /\ tupdate => softint
      /\ NoDuplicates
      /\ next # NoThread /\ NoThread \notin Threads \cup done
      /\ priority[cur] <= priority[next]
      /\ priority[cur] \in Nat /\ priority[next] \in Nat
  BY <1>1, PriorityTypes, ThreadsAssumption
  DEF OnePlace, UpdatePending, QueuesBelow, TypeOK, AllThreads
<1>3. CASE cur = Idle
  <2>1. UNCHANGED <<state, queueVars, dpcVars, timerVars>>
    BY <1>3 DEF Preempt
  <2>2. /\ state' = state /\ runq' = runq /\ run_mask' = run_mask
        /\ softint' = softint /\ tupdate' = tupdate
        /\ ptimer' = ptimer /\ due' = due /\ armed' = armed /\ early' = early
    BY <2>1 DEF queueVars, dpcVars, timerVars
  <2>3. \A u \in Threads : Queued(u)' <=> Queued(u)
    BY <2>2 DEF Queued
  <2>4. RunQueuesConsistent' /\ NoDuplicates'
    <3>1. RunQueuesConsistent'
      BY <2>2 DEF RunQueuesConsistent
    <3>2. NoDuplicates'
      BY <1>2, <2>2 DEF NoDuplicates
    <3> QED
      BY <3>1, <3>2
  <2>5. TypeOK'
    BY <1>1, <2>2 DEF TypeOK, AllThreads
  <2>6. OnePlace'
    BY <1>1, <1>2, <2>2, <2>3, <2>4 DEF OnePlace
  <2>7. QueuesBelow'
    <3>1. ASSUME NEW u \in Threads, Queued(u)'
          PROVE  priority[u] <= priority[next]
      <4>1. Queued(u)
        BY <2>3, <3>1
      <4>2. priority[u] <= priority[cur]
        BY <4>1 DEF QueuesBelow
      <4>3. priority[u] \in Nat
        BY PriorityTypes DEF AllThreads
      <4> QED
        BY <1>2, <4>2, <4>3
    <3> QED
      BY <1>1, <3>1 DEF QueuesBelow
  <2>8. PreemptionPending' /\ UpdatePending' /\ TimerServed'
    BY <1>1, <1>2, <2>2 DEF PreemptionPending, UpdatePending, TimerServed
  <2> QED
    BY <2>4, <2>5, <2>6, <2>7, <2>8
<1>4. CASE cur # Idle
  <2>1. cur \in Threads /\ cur \in AllThreads /\ ~Queued(cur)
    BY <1>4 DEF OnePlace, TypeOK, AllThreads
  <2>2. Insert(cur, NoThread)
    BY <1>4 DEF Preempt
  <2>3. Enqueue(cur, cur)
    BY <1>2, <2>2, SMTT(30) DEF Insert
  <2>4. /\ RunQueuesConsistent' /\ NoDuplicates'
        /\ \A u \in Threads : Queued(u)' <=> (Queued(u) \/ u = cur)
    BY <1>2, <2>1, <2>3, EnqueueConsistent
  <2>5. runq' \in [Priorities -> Seq(Threads)]
    BY <2>1, <2>3, EnqueueQueues
  <2>6. /\ state' \in [AllThreads -> {"Null", "Ready", "Waiting", "Standby"}]
        /\ state'[cur] = "Ready"
        /\ \A u \in AllThreads : u # cur => state'[u] = state[u]
        /\ run_mask' \in SUBSET Priorities
        /\ softint' \in BOOLEAN /\ tupdate' \in BOOLEAN
        /\ ptimer' \in {"Unused", "Fired", "Queued", "Canceled"}
        /\ due' \in BOOLEAN /\ armed' \in BOOLEAN /\ early' \in BOOLEAN
        /\ tupdate' => softint'
        /\ ptimer' = "Queued" => tupdate'
    BY <1>2, <2>1, <2>3, EnqueueTimer
  <2>7. TypeOK'
    BY <1>1, <2>5, <2>6 DEF TypeOK, AllThreads
  <2>8. OnePlace'
    BY <1>1, <1>2, <2>1, <2>4, <2>6, ZenonT(40) DEF OnePlace, AllThreads
  <2>9. QueuesBelow'
    <3>1. ASSUME NEW u \in Threads, Queued(u)'
          PROVE  priority[u] <= priority[next]
      <4>1. Queued(u) \/ u = cur
        BY <2>4, <3>1
      <4>2. priority[u] \in Nat
        BY PriorityTypes DEF AllThreads
      <4>3. CASE Queued(u)
        <5>1. priority[u] <= priority[cur]
          BY <4>3 DEF QueuesBelow
        <5> QED
          BY <1>2, <4>2, <5>1
      <4>4. CASE u = cur
        BY <1>2, <4>2, <4>4
      <4> QED
        BY <4>1, <4>3, <4>4
    <3> QED
      BY <1>1, <3>1 DEF QueuesBelow
  <2>10. PreemptionPending' /\ UpdatePending' /\ TimerServed'
    BY <1>1, <2>6 DEF PreemptionPending, UpdatePending, TimerServed
  <2> QED
    BY <2>4, <2>7, <2>8, <2>9, <2>10
<1> QED
  BY <1>3, <1>4

\* sched_reschedule keeps the invariant, also when it replaces a thread_next
\* that is already set.
LEMMA ExpireIInv ==
  ASSUME IInv, Expire
  PROVE  IInv'
<1> USE DEF IInv
<1>1. /\ pc = "progress" /\ pc' = pc /\ cur' = cur /\ done' = done
      /\ state' = state /\ cont' = cont /\ armed' = armed /\ early' = early
      /\ softint' = softint /\ tupdate' = tupdate
      /\ ptimer' = "Fired" /\ due' = FALSE
      /\ Reschedule
  BY DEF Expire, dpcVars
<1>2. PreemptionPending' /\ UpdatePending' /\ TimerServed'
  BY <1>1 DEF PreemptionPending, UpdatePending, TimerServed
<1>3. CASE UNCHANGED <<queueVars, next>>
  <2>1. RunQueuesConsistent' /\ OnePlace' /\ QueuesBelow'
    BY <1>1, <1>3, QuietStep
  <2>2. TypeOK'
    BY <1>1, <1>3 DEF TypeOK, queueVars
  <2> QED
    BY <1>2, <2>1, <2>2
<1>4. CASE SchedNext(priority[cur], next')
  <2>1. PICK p \in Priorities : p = priority[cur]
    BY PriorityTypes DEF TypeOK
  <2>2. PICK t : t = next'
    OBVIOUS
  <2>3. SchedNext(p, t) /\ NoDuplicates
    BY <1>4, <2>1, <2>2 DEF OnePlace
  <2>4. /\ RunQueuesConsistent' /\ NoDuplicates'
        /\ t \in Threads
        /\ Queued(t) /\ ~Queued(t)'
        /\ \A u \in Threads \ {t} : Queued(u)' <=> Queued(u)
        /\ priority[t] >= p
    BY <2>3, DequeueConsistent
  <2>5. runq' \in [Priorities -> Seq(Threads)] /\ run_mask' \in SUBSET Priorities
    BY <2>3, DequeueTypes
  <2>6. \A u \in Threads : Queued(u)' => Queued(u) /\ u # t
    BY <2>4
  <2>7. TypeOK'
    BY <1>1, <2>2, <2>4, <2>5 DEF TypeOK
  <2>8. OnePlace'
    BY <1>1, <2>2, <2>4, <2>6 DEF OnePlace
  <2>9. QueuesBelow'
    BY <1>1, <2>1, <2>2, <2>4, <2>6 DEF QueuesBelow
  <2> QED
    BY <1>2, <2>4, <2>7, <2>8, <2>9
<1> QED
  BY <1>1, <1>3, <1>4 DEF Reschedule

\* The steps that only move along the dispatch path, and the hardware's.
LEMMA QuietIInv ==
  ASSUME IInv,
         \/ Lower \/ Loop \/ RunQueue \/ Arm \/ NoPreempt
         \/ TimePasses \/ ClockInterrupt \/ UNCHANGED vars
  PROVE  IInv'
<1> USE DEF IInv
<1>1. UNCHANGED <<state, queueVars, cur, next, done, cont>>
  BY DEF Lower, Loop, RunQueue, Arm, NoPreempt, TimePasses, ClockInterrupt, vars
<1>2. RunQueuesConsistent' /\ OnePlace' /\ QueuesBelow'
  BY <1>1, QuietStep
<1>3. /\ state' \in [AllThreads -> {"Null", "Ready", "Waiting", "Standby"}]
      /\ runq' \in [Priorities -> Seq(Threads)]
      /\ run_mask' \in SUBSET Priorities
      /\ cur' \in AllThreads
      /\ next' \in Threads \cup {NoThread}
      /\ done' \in SUBSET Threads
      /\ cont' \in [AllThreads -> {"lower", "loop"}]
      /\ next' = next
  BY <1>1 DEF TypeOK, queueVars
<1> USE DEF TypeOK, PreemptionPending, UpdatePending, TimerServed, dpcVars, timerVars
<1>4. CASE Lower
  BY <1>2, <1>3, <1>4 DEF Lower
<1>5. CASE Loop
  BY <1>2, <1>3, <1>5 DEF Loop
<1>6. CASE RunQueue
  BY <1>2, <1>3, <1>6 DEF RunQueue
<1>7. CASE Arm
  BY <1>2, <1>3, <1>7 DEF Arm
<1>8. CASE NoPreempt
  BY <1>2, <1>3, <1>8 DEF NoPreempt
<1>9. CASE TimePasses
  BY <1>2, <1>3, <1>9 DEF TimePasses
<1>10. CASE ClockInterrupt /\ HandleReached
  <2>1. /\ armed' = FALSE /\ due' = due /\ ptimer' = ptimer /\ early' = early
        /\ tupdate' = TRUE /\ softint' = (softint \/ ~tupdate)
        /\ pc # "loop" /\ pc' = IF pc = "run" THEN "loop" ELSE pc
    BY <1>10 DEF ClockInterrupt, HandleReached, EnqueueUpdate
  <2>2. softint' \in BOOLEAN /\ tupdate' \in BOOLEAN
    BY <2>1
  <2>3. softint' \/ pc' = "dpcs"
    BY <2>1
  <2>4. softint => softint'
    BY <2>1
  <2> QED
    BY <1>2, <1>3, <2>1, <2>2, <2>3, <2>4
<1>12. CASE ClockInterrupt /\ HandleEarly
  BY <1>2, <1>3, <1>12 DEF ClockInterrupt, HandleEarly
<1>11. CASE UNCHANGED vars
  BY <1>2, <1>3, <1>11 DEF vars
<1> QED
  BY <1>4, <1>5, <1>6, <1>7, <1>8, <1>9, <1>10, <1>11, <1>12 DEF ClockInterrupt

\* The inductive invariant holds whatever the threads do and whenever the
\* clock interrupts.
THEOREM Inductive == Spec => []IInv
<1>1. ASSUME IInv, [Next]_vars PROVE IInv'
  <2>1. CASE Dispatch
    BY <1>1, <2>1, QuietIInv, ExpireIInv, PreemptIInv DEF Dispatch
  <2>2. CASE ThreadCode
    BY <1>1, <2>2, YieldIInv, ResumeIInv, QuietIInv DEF ThreadCode, IdleHalt
  <2>3. CASE TimePasses \/ ClockInterrupt \/ UNCHANGED vars
    BY <1>1, <2>3, QuietIInv
  <2> QED
    BY <1>1, <2>1, <2>2, <2>3 DEF Next
<1> QED
  BY InitIInv, <1>1, PTL DEF Spec

-----------------------------------------------------------------------------
(* The results                                                             *)

\* Type correctness of the scheduler's state.
THEOREM TypeCorrect == Spec => []TypeOK
<1>1. IInv => TypeOK
  BY DEF IInv
<1> QED
  BY Inductive, <1>1, PTL

\* run_mask never disagrees with the run queues, whatever sched_insert and
\* sched_next do to them.
THEOREM MaskCorrect == Spec => []RunQueuesConsistent
<1>1. IInv => RunQueuesConsistent
  BY DEF IInv
<1> QED
  BY Inductive, <1>1, PTL

\* A thread_t is never in two places at once.
THEOREM ThreadsInOnePlace == Spec => []OnePlace
<1>1. IInv => OnePlace
  BY DEF IInv
<1> QED
  BY Inductive, <1>1, PTL

\* Thread code never runs at PASSIVE level while a ready thread has a higher
\* priority.
THEOREM HighestRuns == Spec => []PassiveRunsHighest
<1>1. IInv => PassiveRunsHighest
  BY DEF IInv, QueuesBelow, PassiveRunsHighest
<1> QED
  BY Inductive, <1>1, PTL

\* A set thread_next is always on its way to sched_preempt.
THEOREM PreemptionNotLost == Spec => []PreemptionPending
<1>1. IInv => PreemptionPending
  BY DEF IInv
<1> QED
  BY Inductive, <1>1, PTL

\* A queued preemption timer is always going to be looked at again, unless the
\* interrupt of the APIC timer came before the deadline and was ignored.
THEOREM TimerNotStranded == Spec => []TimerServed
<1>1. IInv => TimerServed
  BY DEF IInv
<1> QED
  BY Inductive, <1>1, PTL

=============================================================================
