---------------------------- MODULE SoftintProofs ----------------------------
(***************************************************************************)
(* Proofs about Softint, for any DPCs and any interrupt sources.  They rest *)
(* on the order of the frames on the stack: a frame returns to a level that *)
(* is at least the one every frame below it executes at.                   *)
(***************************************************************************)
EXTENDS Softint, TLAPS

\* Steps are by Zenon, but those that cite the SMT solver.
USE ZenonT(60)

-----------------------------------------------------------------------------
(* Sequences.                                                              *)

\* A sequence is a function on the numbers up to its length.
LEMMA SeqLength ==
  ASSUME NEW S, NEW s \in Seq(S)
  PROVE  Len(s) \in Nat /\ s \in [1..Len(s) -> S] /\ DOMAIN s = 1..Len(s)
BY SMTT(60)

\* A sequence over a set is one over a larger set.
LEMMA SeqWider ==
  ASSUME NEW S, NEW T, NEW s \in Seq(S), S \subseteq T
  PROVE  s \in Seq(T)
BY SMTT(60)

\* Only the empty sequence has length zero.
LEMMA SeqEmpty ==
  ASSUME NEW S
  PROVE  <<>> \in Seq(S) /\ Len(<<>>) = 0 /\ \A s \in Seq(S) : s # <<>> => Len(s) \in Nat \ {0}
BY SMTT(60)

\* What is left when the first element is taken.
LEMMA SeqHeadTail ==
  ASSUME NEW S, NEW s \in Seq(S), s # <<>>
  PROVE  /\ Head(s) \in S /\ Tail(s) \in Seq(S) /\ Len(Tail(s)) = Len(s) - 1
         /\ \A i \in 1..Len(Tail(s)) : Tail(s)[i] = s[i + 1]
BY SMTT(60)

\* What is where when an element is put at the end.
LEMMA SeqAppend ==
  ASSUME NEW S, NEW s \in Seq(S), NEW e \in S
  PROVE  /\ Append(s, e) \in Seq(S) /\ Append(s, e) # <<>> /\ Len(Append(s, e)) = Len(s) + 1
         /\ Append(s, e)[Len(s) + 1] = e
         /\ \A i \in 1..Len(s) : Append(s, e)[i] = s[i]
BY SMTT(60)

\* What is where when two sequences are joined.
LEMMA SeqConcat ==
  ASSUME NEW S, NEW s \in Seq(S), NEW t \in Seq(S)
  PROVE  /\ s \o t \in Seq(S) /\ Len(s \o t) = Len(s) + Len(t)
         /\ \A i \in 1..(Len(s) + Len(t)) :
              (s \o t)[i] = IF i <= Len(s) THEN s[i] ELSE t[i - Len(s)]
BY SMTT(60)

-----------------------------------------------------------------------------
Frames == [at : Places, to : 0..15, old : BOOLEAN, iret : BOOLEAN,
           dpc : Dpcs \cup {NoDpc}]

\* A frame at one of these places runs at a level that its place tells.
Fixed(f) == f.at \in {"passive", "test", "enter", "raised", "dpcs", "fn", "end"}

\* The least level at which a frame can execute.
Base(f) ==
  IF f.at \in {"raised", "dpcs", "fn", "end"} \/ (f.at = "lower" /\ ~f.iret)
  THEN DISPATCH
  ELSE IF f.at \in {"isr", "isrend", "lower"} THEN 3 ELSE f.to

\* The level n is not below what frame f needs.
Floor(f, n) == n >= Base(f) /\ n >= f.to

\* A frame that executes with interrupts enabled.
Open(f) == f.at # "loop" /\ (f.at \in {"lower", "test", "enter"} => ~f.iret)

\* What holds of a frame wherever it is.
Sound(f) ==
  /\ f.at \in {"enter", "loop", "dpcs", "fn", "end"} => f.to < DISPATCH
  /\ ~f.iret => f.old
  /\ f.at = "fn" <=> f.dpc # NoDpc
  /\ f.at \in {"isr", "isrend"} => ~f.iret

\* The stack: thread code at the bottom, interrupted frames below the top, and
\* levels that a return leads to in order.
Stacked(s) ==
  /\ s \in Seq(Frames) /\ s # <<>>
  /\ s[1].at \in {"passive", "raised"} /\ s[1].to = PASSIVE
  /\ \A i \in 2..Len(s) : s[i].at \notin {"passive", "raised"}
  /\ \A i \in 1..Len(s) : Sound(s[i])
  /\ \A i \in 1..Len(s) : i < Len(s) => Open(s[i])
  /\ \A i, j \in 1..Len(s) : i < j => Floor(s[i], s[j].to)
  /\ \A i, j \in 1..Len(s) : j = i + 1 /\ Fixed(s[i]) => s[j].to = Base(s[i])

\* The level and the interrupt flag are those of the frame that executes.
AtLevel(f, n, b) ==
  /\ Floor(f, n)
  /\ Fixed(f) => n = Base(f)
  /\ b = Open(f)

Registers == irql \in 0..15 /\ ints \in BOOLEAN /\ AtLevel(Top, irql, ints)

\* The queue, its flags and its count agree.
Queue ==
  /\ pending \subseteq {DISPATCH}
  /\ dpcq \in Seq(Dpcs)
  /\ count = Len(dpcq)
  /\ enqueued = Range(dpcq)
  /\ \A i, j \in 1..Len(dpcq) : dpcq[i] = dpcq[j] => i = j

\* A DPC that waits is announced, or dpc_run_queue is going to find it.
Announced(s) ==
  dpcq # <<>> => DISPATCH \in pending \/ \E i \in 1..Len(s) : s[i].at \in {"dpcs", "fn"}

Quiet(f) == f.at = "passive" => pending = {} /\ dpcq = <<>>

IInv ==
  /\ Stacked(stack)
  /\ Registers
  /\ Queue
  /\ Announced(stack)
  /\ Quiet(Top)

-----------------------------------------------------------------------------
(* The stack as a sequence.                                                *)

\* The sequence without its last element.
LEMMA FrontOf ==
  ASSUME NEW S, NEW s \in Seq(S), s # <<>>
  PROVE  /\ Front(s) \in Seq(S)
         /\ Len(s) \in Nat \ {0}
         /\ Len(Front(s)) = Len(s) - 1
         /\ \A i \in 1..(Len(s) - 1) : Front(s)[i] = s[i]
<1>1. Len(s) \in Nat \ {0}
  BY SeqEmpty
<1>2. Front(s) = [i \in 1..(Len(s) - 1) |-> s[i]]
  BY <1>1, SMTT(60) DEF Front
<1> QED
  BY <1>1, <1>2, SMTT(60)

\* A new element in place of the last one.
LEMMA ReplaceLast ==
  ASSUME NEW S, NEW s \in Seq(S), s # <<>>, NEW e \in S
  PROVE  /\ Front(s) \o <<e>> \in Seq(S) /\ Front(s) \o <<e>> # <<>>
         /\ Len(Front(s) \o <<e>>) = Len(s)
         /\ (Front(s) \o <<e>>)[Len(s)] = e
         /\ \A i \in 1..Len(s) : i < Len(s) => (Front(s) \o <<e>>)[i] = s[i]
<1> DEFINE t == Front(s) \o <<e>>
<1>1. /\ Front(s) \in Seq(S) /\ Len(s) \in Nat \ {0}
      /\ Len(Front(s)) = Len(s) - 1
      /\ \A i \in 1..(Len(s) - 1) : Front(s)[i] = s[i]
  BY FrontOf
<1> HIDE DEF Front
<1>2. <<e>> \in Seq(S) /\ Len(<<e>>) = 1 /\ <<e>>[1] = e
  BY SMTT(60)
<1>3. t \in Seq(S) /\ Len(t) = Len(s)
  BY <1>1, <1>2, SMTT(60)
<1>4. t[Len(s)] = e
  BY <1>1, <1>2, SMTT(60)
<1>5. \A i \in 1..Len(s) : i < Len(s) => t[i] = s[i]
  BY <1>1, <1>2, SMTT(60)
<1> QED
  BY <1>1, <1>3, <1>4, <1>5

\* Thread code that executes is alone on the stack.
LEMMA ThreadIsAlone ==
  ASSUME NEW s, Stacked(s), Last(s).at \in {"passive", "raised"}
  PROVE  Len(s) = 1 /\ Last(s).to = PASSIVE
<1>1. Len(s) \in Nat \ {0} /\ Last(s) = s[Len(s)]
  BY SeqEmpty DEF Stacked, Last
<1>2. Len(s) \notin 2..Len(s)
  BY <1>1 DEF Stacked
<1>3. Len(s) = 1
  BY <1>1, <1>2, SMTT(60)
<1> QED
  BY <1>1, <1>3 DEF Stacked

\* The frame that executes moves on and returns to the same level.
LEMMA GotoStacked ==
  ASSUME NEW s, Stacked(s), NEW e \in Frames, e.to = Last(s).to, Sound(e),
         Len(s) = 1 => e.at \in {"passive", "raised"},
         Len(s) # 1 => e.at \notin {"passive", "raised"},
         NEW t, t = Front(s) \o <<e>>
  PROVE  Stacked(t) /\ Last(t) = e /\ Len(t) = Len(s)
<1> DEFINE n == Len(s)
<1>1. s \in Seq(Frames) /\ s # <<>> /\ n \in Nat \ {0} /\ Last(s) = s[n]
  BY SeqEmpty DEF Stacked, Last
<1>2. /\ t \in Seq(Frames) /\ t # <<>> /\ Len(t) = n
      /\ t[n] = e
      /\ \A i \in 1..n : i < n => t[i] = s[i]
  BY <1>1, ReplaceLast, SMTT(60)
<1>3. \A i \in 1..n : t[i].to = s[i].to
  BY <1>1, <1>2, SMTT(60)
<1>4. t[1].at \in {"passive", "raised"} /\ t[1].to = PASSIVE
  <2>1. 1 \in 1..n /\ s[1].at \in {"passive", "raised"} /\ s[1].to = PASSIVE
    BY <1>1, SMTT(60) DEF Stacked
  <2>2. CASE n = 1
    BY <1>2, <1>3, <2>1, <2>2
  <2>3. CASE n # 1
    BY <1>1, <1>2, <2>1, <2>3, SMTT(60)
  <2> QED
    BY <2>2, <2>3
<1>5. \A i \in 2..n : t[i].at \notin {"passive", "raised"}
  BY <1>1, <1>2, SMTT(30) DEF Stacked
<1>6. \A i \in 1..n : Sound(t[i])
  BY <1>1, <1>2, SMTT(60) DEF Stacked
<1>7. \A i \in 1..n : i < n => Open(t[i])
  BY <1>1, <1>2 DEF Stacked
<1>8. \A i, j \in 1..n : i < j => Floor(t[i], t[j].to)
  <2> TAKE i, j \in 1..n
  <2> HAVE i < j
  <2>1. i < n
    BY <1>1, SMTT(60)
  <2>2. t[i] = s[i] /\ t[j].to = s[j].to
    BY <1>2, <1>3, <2>1
  <2>3. Floor(s[i], s[j].to)
    BY DEF Stacked
  <2> QED
    BY <2>2, <2>3
<1>9. \A i, j \in 1..n : j = i + 1 /\ Fixed(t[i]) => t[j].to = Base(t[i])
  BY <1>1, <1>2, <1>3, SMTT(60) DEF Stacked
<1> QED
  BY <1>2, <1>4, <1>5, <1>6, <1>7, <1>8, <1>9 DEF Stacked, Last

\* The frame that executes returns to the one below it.
LEMMA PopStacked ==
  ASSUME NEW s, Stacked(s), Last(s).at \notin {"passive", "raised"},
         NEW t, t = Front(s)
  PROVE  /\ Stacked(t) /\ Len(t) = Len(s) - 1 /\ Len(s) \in Nat
         /\ \A i \in 1..Len(t) : t[i] = s[i] /\ i \in 1..Len(s) /\ Floor(s[i], Last(s).to)
         /\ AtLevel(Last(t), Last(s).to, TRUE)
<1> DEFINE n == Len(s)
<1>1. s \in Seq(Frames) /\ s # <<>> /\ n \in Nat \ {0} /\ Last(s) = s[n]
  BY SeqEmpty DEF Stacked, Last
<1>2. n > 1
  BY <1>1, SMTT(60) DEF Stacked
<1>3. t \in Seq(Frames) /\ Len(t) = n - 1 /\ \A i \in 1..(n - 1) : t[i] = s[i]
  BY <1>1, FrontOf
<1>4. t # <<>>
  BY <1>2, <1>3, SMTT(60)
<1>5. Stacked(t)
  BY <1>1, <1>2, <1>3, <1>4, SMTT(60) DEF Stacked
<1>6. \A i \in 1..(n - 1) : i \in 1..n /\ i < n /\ Floor(s[i], s[n].to)
  BY <1>1, SMTT(60) DEF Stacked
<1>7. Last(t) = s[n - 1] /\ n - 1 \in 1..(n - 1) /\ n \in 1..n /\ n = (n - 1) + 1
  BY <1>1, <1>2, <1>3, SMTT(60) DEF Last
<1>8. AtLevel(s[n - 1], s[n].to, TRUE)
  <2>1. Floor(s[n - 1], s[n].to) /\ n - 1 \in 1..n
    BY <1>6, <1>7
  <2>2. Fixed(s[n - 1]) => s[n].to = Base(s[n - 1])
    BY <1>7, <2>1 DEF Stacked
  <2>3. Open(s[n - 1])
    BY <1>6, <1>7, <2>1 DEF Stacked
  <2> QED
    BY <2>1, <2>2, <2>3 DEF AtLevel, Open
<1> QED
  BY <1>1, <1>3, <1>5, <1>6, <1>7, <1>8

\* An interrupt above the level of the frame that executes.
LEMMA PushStacked ==
  ASSUME NEW s, Stacked(s), NEW n \in 0..15, AtLevel(Last(s), n, TRUE),
         NEW t, t = Append(s, Frame("isr", n))
  PROVE  Stacked(t) /\ Last(t) = Frame("isr", n) /\ Len(t) = Len(s) + 1
         /\ Len(s) \in Nat /\ \A i \in 1..Len(s) : t[i] = s[i]
<1> DEFINE m == Len(s)
           e == Frame("isr", n)
<1>1. s \in Seq(Frames) /\ s # <<>> /\ m \in Nat \ {0} /\ Last(s) = s[m]
  BY SeqEmpty DEF Stacked, Last
<1>2. e \in Frames /\ e.to = n /\ e.at = "isr"
  BY DEF Frame, Frames, Places
<1>3. Sound(e)
  BY DEF Frame, Sound
<1> HIDE DEF e
<1>4. /\ t \in Seq(Frames) /\ t # <<>> /\ Len(t) = m + 1 /\ t[m + 1] = e
      /\ \A i \in 1..m : t[i] = s[i]
  BY <1>1, <1>2, SMTT(60) DEF e
<1>5. ASSUME NEW i \in 1..m PROVE Floor(s[i], n) /\ Open(s[i])
  <2>1. CASE i = m
    BY <1>1, <2>1 DEF AtLevel
  <2>2. CASE i # m
    <3>1. m \in 1..m /\ i < m
      BY <1>1, <2>2, SMTT(60)
    <3>2. Floor(s[i], s[m].to) /\ Open(s[i])
      BY <3>1 DEF Stacked
    <3>3. Floor(s[m], n)
      BY <1>1 DEF AtLevel
    <3>4. s[m] \in Frames /\ s[i] \in Frames
      BY <1>1, <3>1, SMTT(60)
    <3>5. s[m].to \in Int /\ s[i].to \in Int /\ Base(s[i]) \in Int
      <4>1. \A f \in Frames : f.to \in Int /\ Base(f) \in Int
        BY SMTT(60) DEF Frames, Base, DISPATCH
      <4> QED
        BY <3>4, <4>1
    <3>6. n >= s[m].to /\ s[m].to >= s[i].to /\ s[m].to >= Base(s[i])
      BY <3>2, <3>3 DEF Floor
    <3>7. \A a, b, c \in Int : a >= b /\ b >= c => a >= c
      BY SMTT(60)
    <3>8. n >= s[i].to /\ n >= Base(s[i])
      BY <3>5, <3>6, <3>7, SMTT(60)
    <3> QED
      BY <3>2, <3>8 DEF Floor
  <2> QED
    BY <2>1, <2>2
<1>6. t[1].at \in {"passive", "raised"} /\ t[1].to = PASSIVE
  BY <1>1, <1>4, SMTT(60) DEF Stacked
<1>7. \A i \in 1..(m + 1) : i \in 1..m \/ i = m + 1
  BY <1>1, SMTT(60)
<1>8. \A i \in 2..(m + 1) : t[i].at \notin {"passive", "raised"}
  BY <1>1, <1>2, <1>4, SMTT(60) DEF Stacked
<1>9. \A i \in 1..(m + 1) : Sound(t[i])
  BY <1>3, <1>4, <1>7 DEF Stacked
<1>10. \A i \in 1..(m + 1) : i < m + 1 => Open(t[i])
  BY <1>1, <1>4, <1>5, <1>7, SMTT(60)
<1>11. ASSUME NEW i \in 1..(m + 1), NEW j \in 1..(m + 1), i < j
       PROVE  Floor(t[i], t[j].to)
  <2>1. i \in 1..m
    BY <1>1, <1>11, SMTT(60)
  <2>2. CASE j = m + 1
    BY <1>2, <1>4, <1>5, <2>1, <2>2
  <2>3. CASE j \in 1..m
    BY <1>4, <1>11, <2>1, <2>3 DEF Stacked
  <2> QED
    BY <1>7, <2>2, <2>3
<1>12. ASSUME NEW i \in 1..(m + 1), NEW j \in 1..(m + 1), j = i + 1, Fixed(t[i])
       PROVE  t[j].to = Base(t[i])
  <2>1. i \in 1..m
    BY <1>1, <1>12, SMTT(60)
  <2>2. CASE j = m + 1
    <3>1. i = m
      BY <1>1, <1>12, <2>2, SMTT(60)
    <3> QED
      BY <1>1, <1>2, <1>4, <1>12, <2>1, <2>2, <3>1 DEF AtLevel
  <2>3. CASE j \in 1..m
    BY <1>4, <1>12, <2>1, <2>3, SMTT(60) DEF Stacked
  <2> QED
    BY <1>7, <2>2, <2>3
<1>13. Last(t) = e
  BY <1>4 DEF Last
<1> QED
  BY <1>1, <1>4, <1>6, <1>8, <1>9, <1>10, <1>11, <1>12, <1>13, SMTT(60) DEF Stacked, e

-----------------------------------------------------------------------------
(* The invariant.                                                          *)

\* A step that leaves the queue alone.
SameQueue == UNCHANGED <<pending, dpcVars>>

\* The CPU starts with thread code at PASSIVE level.
LEMMA InitIInv ==
  Init => IInv
<1> SUFFICES ASSUME Init PROVE IInv
  OBVIOUS
<1> DEFINE e == Frame("passive", PASSIVE)
<1>1. e \in Frames /\ e.at = "passive" /\ e.to = 0 /\ Sound(e) /\ Open(e)
  BY SMTT(60) DEF Frame, Frames, Places, Sound, Open, PASSIVE
<1> HIDE DEF e
<1>2. stack = <<e>> /\ Top = e
  BY DEF Init, Top, Last, e
<1>3. stack \in Seq(Frames) /\ Len(stack) = 1 /\ stack[1] = e /\ stack # <<>>
  BY <1>1, <1>2, SMTT(60)
<1>4. Stacked(stack)
  BY <1>1, <1>3, SMTT(60) DEF Stacked, PASSIVE
<1>5. AtLevel(e, 0, TRUE)
  BY <1>1, SMTT(60) DEF AtLevel, Floor, Base
<1>6. Registers
  <2>1. irql = 0 /\ ints = TRUE
    BY DEF Init, PASSIVE
  <2>2. irql \in 0..15
    BY <2>1, SMTT(60)
  <2>3. AtLevel(Top, irql, ints)
    BY <1>2, <1>5, <2>1
  <2> QED
    BY <2>1, <2>2, <2>3 DEF Registers
<1>7. Queue
  BY SMTT(60) DEF Init, Queue, Range
<1>8. Announced(stack) /\ Quiet(Top)
  BY DEF Init, Announced, Quiet
<1> QED
  BY <1>4, <1>6, <1>7, <1>8 DEF IInv

\* dpc_enqueue keeps the queue consistent and announces what it adds.
LEMMA EnqueueQueue ==
  ASSUME Queue, NEW d \in Dpcs, Enqueue(d)
  PROVE  /\ Queue'
         /\ pending \subseteq pending'
         /\ dpcq' = dpcq \/ DISPATCH \in pending'
<1>1. CASE d \in enqueued
  BY <1>1 DEF Enqueue, Queue, dpcVars
<1>2. CASE d \notin enqueued
  <2>1. /\ dpcq' = Append(dpcq, d) /\ count' = count + 1
        /\ enqueued' = enqueued \cup {d} /\ pending' = pending \cup {DISPATCH}
    BY <1>2 DEF Enqueue
  <2>2. /\ dpcq \in Seq(Dpcs) /\ Len(dpcq) \in Nat /\ dpcq' \in Seq(Dpcs)
        /\ Len(dpcq') = Len(dpcq) + 1 /\ dpcq'[Len(dpcq) + 1] = d
        /\ \A i \in 1..Len(dpcq) : dpcq'[i] = dpcq[i]
    BY <2>1, SMTT(60) DEF Queue
  <2>3. \A i \in 1..(Len(dpcq) + 1) : i \in 1..Len(dpcq) \/ i = Len(dpcq) + 1
    BY <2>2, SMTT(60)
  <2>4. \A i \in 1..Len(dpcq) : dpcq[i] # d
    BY <1>2, <2>2, SMTT(60) DEF Queue, Range
  <2>5. enqueued' = Range(dpcq')
    <3>1. Range(dpcq') = Range(dpcq) \cup {d}
      BY <2>2, <2>3, SMTT(60) DEF Range
    <3> QED
      BY <2>1, <3>1 DEF Queue
  <2>6. ASSUME NEW i \in 1..Len(dpcq'), NEW j \in 1..Len(dpcq'), dpcq'[i] = dpcq'[j]
        PROVE  i = j
    BY <2>2, <2>3, <2>4, <2>6 DEF Queue
  <2>7. pending' \subseteq {DISPATCH} /\ count' = Len(dpcq')
    BY <2>1, <2>2 DEF Queue
  <2> QED
    BY <2>1, <2>2, <2>5, <2>6, <2>7 DEF Queue
<1> QED
  BY <1>1, <1>2

\* dpc_run_queue takes the first DPC and keeps the queue consistent.
LEMMA DequeueQueue ==
  ASSUME Queue, dpcq # <<>>, pending' = pending,
         dpcq' = Tail(dpcq), count' = count - 1, enqueued' = enqueued \ {Head(dpcq)}
  PROVE  Queue' /\ Head(dpcq) \in Dpcs
<1>1. /\ dpcq \in Seq(Dpcs) /\ Len(dpcq) \in Nat \ {0} /\ dpcq' \in Seq(Dpcs)
      /\ Len(dpcq') = Len(dpcq) - 1 /\ Head(dpcq) = dpcq[1] /\ Head(dpcq) \in Dpcs
      /\ \A i \in 1..Len(dpcq') : dpcq'[i] = dpcq[i + 1] /\ i + 1 \in 1..Len(dpcq)
  BY SeqEmpty, SeqHeadTail, SMTT(60) DEF Queue
<1>2. \A i \in 1..Len(dpcq) : i = 1 \/ (i - 1 \in 1..Len(dpcq') /\ i = (i - 1) + 1)
  BY <1>1, SMTT(60)
<1>3. \A i, j \in 1..Len(dpcq) : dpcq[i] = dpcq[j] => i = j
  BY DEF Queue
<1>4. \A i \in 1..Len(dpcq') : dpcq'[i] # dpcq[1]
  BY <1>1, <1>3, SMTT(60)
<1>5. Range(dpcq') = Range(dpcq) \ {dpcq[1]}
  <2>1. /\ Range(dpcq) = {dpcq[i] : i \in 1..Len(dpcq)}
        /\ Range(dpcq') = {dpcq'[i] : i \in 1..Len(dpcq')}
    <3>1. DOMAIN dpcq = 1..Len(dpcq) /\ DOMAIN dpcq' = 1..Len(dpcq')
      BY <1>1, SeqLength
    <3> QED
      BY <3>1 DEF Range
  <2>2. ASSUME NEW i \in 1..Len(dpcq') PROVE dpcq'[i] \in Range(dpcq) \ {dpcq[1]}
    BY <1>1, <1>4, <2>1
  <2>3. ASSUME NEW i \in 1..Len(dpcq), dpcq[i] # dpcq[1] PROVE dpcq[i] \in Range(dpcq')
    <3>1. i - 1 \in 1..Len(dpcq') /\ i = (i - 1) + 1
      BY <1>2, <2>3
    <3>2. dpcq'[i - 1] = dpcq[i]
      BY <1>1, <3>1
    <3> QED
      BY <2>1, <3>1, <3>2
  <2> QED
    BY <2>1, <2>2, <2>3, SMTT(60)
<1>6. \A i, j \in 1..Len(dpcq') : dpcq'[i] = dpcq'[j] => i = j
  BY <1>1, <1>3, SMTT(60)
<1>7. enqueued' = Range(dpcq') /\ count' = Len(dpcq')
  BY <1>1, <1>5 DEF Queue
<1> QED
  BY <1>1, <1>6, <1>7 DEF Queue

\* The frame that executes moves to another place.
LEMMA MoveIInv ==
  ASSUME IInv, NEW e \in Frames, stack' = Front(stack) \o <<e>>,
         e.to = Top.to, Sound(e),
         Top.at \in {"passive", "raised"} => e.at \in {"passive", "raised"},
         Top.at \notin {"passive", "raised"} => e.at \notin {"passive", "raised"},
         irql' \in 0..15, ints' \in BOOLEAN, AtLevel(e, irql', ints'),
         Queue',
         \/ dpcq' = <<>>
         \/ DISPATCH \in pending'
         \/ e.at \in {"dpcs", "fn"}
         \/ /\ dpcq' = dpcq /\ pending \subseteq pending'
            /\ Top.at \notin {"dpcs", "fn"},
         e.at = "passive" => pending' = {} /\ dpcq' = <<>>
  PROVE  IInv'
<1> DEFINE n == Len(stack)
<1>1. stack \in Seq(Frames) /\ stack # <<>> /\ n \in Nat \ {0} /\ Top = stack[n]
  BY SeqEmpty DEF IInv, Stacked, Top, Last
<1>2. n = 1 <=> Top.at \in {"passive", "raised"}
  BY <1>1, SMTT(60) DEF IInv, Stacked
<1>3. Stacked(stack') /\ Last(stack') = e /\ Len(stack') = n
  BY <1>2, GotoStacked DEF IInv, Top
<1>4. Top' = e
  BY <1>3 DEF Top
<1>5. stack'[n] = e /\ \A i \in 1..n : i < n => stack'[i] = stack[i]
  BY <1>1, ReplaceLast, SMTT(60)
<1>6. Announced(stack)'
  <2> SUFFICES ASSUME dpcq' # <<>>, DISPATCH \notin pending'
               PROVE  \E i \in 1..n : stack'[i].at \in {"dpcs", "fn"}
    BY <1>3 DEF Announced
  <2>1. CASE e.at \in {"dpcs", "fn"}
    BY <1>1, <1>5, <2>1, SMTT(60)
  <2>2. CASE /\ dpcq' = dpcq /\ pending \subseteq pending'
             /\ Top.at \notin {"dpcs", "fn"}
    <3>1. PICK i \in 1..n : stack[i].at \in {"dpcs", "fn"}
      BY <2>2 DEF IInv, Announced
    <3>2. i < n
      BY <1>1, <2>2, <3>1, SMTT(60)
    <3> QED
      BY <1>5, <3>1, <3>2
  <2> QED
    BY <2>1, <2>2
<1>7. Quiet(Top)'
  BY <1>4 DEF Quiet
<1>8. Registers'
  BY <1>4 DEF Registers
<1> QED
  BY <1>3, <1>6, <1>7, <1>8 DEF IInv

\* The frame that executes returns, when nothing is pending above its level.
LEMMA ReturnIInv ==
  ASSUME IInv, Top.at \in {"test", "loop"}, ~PendingAbove(Top.to),
         Return, irql' = Top.to, SameQueue
  PROVE  IInv' /\ AtLevel(Last(stack'), irql', TRUE) /\ ints'
<1> DEFINE n == Len(stack)
<1>1. stack \in Seq(Frames) /\ stack # <<>> /\ n \in Nat \ {0} /\ Top = stack[n]
  BY SeqEmpty DEF IInv, Stacked, Top, Last
<1>2. Top \in Frames /\ Sound(Top)
  BY <1>1, SMTT(60) DEF IInv, Stacked
<1>3. /\ Stacked(stack') /\ Len(stack') = n - 1
      /\ \A i \in 1..(n - 1) : /\ stack'[i] = stack[i] /\ i \in 1..n
                               /\ Floor(stack[i], Top.to)
      /\ AtLevel(Last(stack'), Top.to, TRUE)
  <2>1. /\ stack' = Front(stack) /\ Stacked(stack) /\ Top = Last(stack)
        /\ Last(stack).at \notin {"passive", "raised"}
    BY DEF IInv, Return, Top
  <2> HIDE DEF n
  <2>2. /\ Stacked(stack') /\ Len(stack') = Len(stack) - 1
        /\ \A i \in 1..Len(stack') : /\ stack'[i] = stack[i] /\ i \in 1..Len(stack)
                                     /\ Floor(stack[i], Last(stack).to)
        /\ AtLevel(Last(stack'), Last(stack).to, TRUE)
    BY <2>1, PopStacked
  <2> QED
    BY <2>1, <2>2 DEF n
<1>4. ints' = TRUE
  <2>1. Top.iret \/ Top.old
    BY <1>2 DEF Sound
  <2> QED
    BY <2>1 DEF Return
<1>5. irql' \in 0..15
  BY <1>2 DEF Frames
<1>6. Registers'
  <2>1. AtLevel(Top, irql, ints)'
    BY <1>3, <1>4 DEF Top
  <2> QED
    BY <1>4, <1>5, <2>1 DEF Registers
<1>7. Queue' /\ pending' = pending /\ dpcq' = dpcq
  BY DEF IInv, Queue, SameQueue, dpcVars
<1>8. Announced(stack)'
  <2> SUFFICES ASSUME dpcq # <<>>, DISPATCH \notin pending
               PROVE  \E i \in 1..(n - 1) : stack'[i].at \in {"dpcs", "fn"}
    BY <1>3, <1>7 DEF Announced
  <2>1. PICK i \in 1..n : stack[i].at \in {"dpcs", "fn"}
    BY DEF IInv, Announced
  <2>2. i \in 1..(n - 1)
    BY <1>1, <2>1, SMTT(60)
  <2> QED
    BY <1>3, <2>1, <2>2
<1>9. Quiet(Top)'
  <2> SUFFICES ASSUME Last(stack').at = "passive" PROVE pending = {} /\ dpcq = <<>>
    BY <1>7 DEF Quiet, Top
  <2>1. Top.to = PASSIVE
    <3>1. Last(stack').to = PASSIVE
      BY <1>3, ThreadIsAlone
    <3> QED
      BY <1>3, <3>1 DEF AtLevel, Fixed, Base
  <2>2. pending = {}
    BY <2>1, SMTT(60) DEF IInv, Queue, PendingAbove, PASSIVE, DISPATCH
  <2>3. ASSUME dpcq # <<>> PROVE FALSE
    <3>1. PICK i \in 1..n : stack[i].at \in {"dpcs", "fn"}
      BY <2>2, <2>3 DEF IInv, Announced
    <3>2. i \in 1..(n - 1)
      BY <1>1, <3>1, SMTT(60)
    <3>3. Floor(stack[i], PASSIVE) /\ Base(stack[i]) = DISPATCH
      BY <1>3, <2>1, <3>1, <3>2 DEF Base
    <3> QED
      BY <3>3, SMTT(60) DEF Floor, PASSIVE, DISPATCH
  <2> QED
    BY <2>2, <2>3
<1>10. AtLevel(Last(stack'), irql', TRUE)
  BY <1>3
<1> QED
  BY <1>3, <1>4, <1>6, <1>7, <1>8, <1>9, <1>10 DEF IInv

\* What the invariant says of the frame that executes.
LEMMA TopFacts ==
  ASSUME IInv
  PROVE  /\ Top \in Frames /\ Sound(Top)
         /\ irql \in 0..15 /\ ints \in BOOLEAN /\ AtLevel(Top, irql, ints)
         /\ Queue /\ pending \subseteq {DISPATCH}
<1>1. stack \in Seq(Frames) /\ stack # <<>> /\ Len(stack) \in Nat \ {0} /\ Top = stack[Len(stack)]
  BY SeqEmpty DEF IInv, Stacked, Top, Last
<1>2. Top \in Frames /\ Sound(Top)
  BY <1>1, SMTT(60) DEF IInv, Stacked
<1> QED
  BY <1>2 DEF IInv, Registers, Queue

\* irql_lower and softint_dispatch.
LEMMA LowerIInv ==
  ASSUME IInv, Lower \/ Test \/ Enter
  PROVE  IInv'
<1>1. /\ Top \in Frames /\ Sound(Top)
      /\ irql \in 0..15 /\ ints \in BOOLEAN /\ AtLevel(Top, irql, ints)
      /\ Queue /\ pending \subseteq {DISPATCH}
  BY TopFacts
<1>2. CASE Lower
  <2> DEFINE e == [Top EXCEPT !.at = "test"]
  <2>1. /\ Top.at = "lower" /\ irql' = Top.to /\ stack' = Front(stack) \o <<e>>
        /\ ints' = ints /\ SameQueue
    BY <1>2 DEF Lower, At, Goto, SameQueue
  <2>2. e \in Frames /\ e.to = Top.to /\ e.at = "test" /\ Sound(e)
    BY <1>1, <2>1 DEF Frames, Places, Sound
  <2>3. Open(e) = Open(Top)
    BY <1>1, <2>1 DEF Open, Frames
  <2>4. Floor(e, Top.to) /\ Base(e) = Top.to /\ irql' \in 0..15
    BY <1>1, <2>1, <2>2, SMTT(60) DEF Floor, Base, Frames
  <2>5. ints' = Open(e)
    BY <1>1, <2>1, <2>3 DEF AtLevel
  <2>6. AtLevel(e, irql', ints')
    BY <2>1, <2>4, <2>5 DEF AtLevel
  <2>7. Queue' /\ dpcq' = dpcq /\ pending' = pending
    BY <1>1, <2>1 DEF Queue, SameQueue, dpcVars
  <2> HIDE DEF e
  <2> QED
    BY <1>1, <2>1, <2>2, <2>4, <2>6, <2>7, MoveIInv
<1>3. CASE Test /\ PendingAbove(Top.to)
  <2> DEFINE e == [Top EXCEPT !.at = "enter"]
  <2>1. /\ Top.at = "test" /\ irql' = irql /\ stack' = Front(stack) \o <<e>>
        /\ ints' = ints /\ SameQueue
    BY <1>3 DEF Test, At, Goto, SameQueue
  <2>2. Top.to < DISPATCH
    BY <1>1, <1>3 DEF PendingAbove, DISPATCH, Frames
  <2>3. e \in Frames /\ e.to = Top.to /\ e.at = "enter" /\ Sound(e)
    BY <1>1, <2>1, <2>2 DEF Frames, Places, Sound
  <2>4. Open(e) = Open(Top)
    BY <1>1, <2>1 DEF Open, Frames
  <2>5. Floor(e, irql) /\ Base(e) = irql
    BY <1>1, <2>1, <2>3 DEF AtLevel, Fixed, Floor, Base, Frames
  <2>6. ints' = Open(e)
    BY <1>1, <2>1, <2>4 DEF AtLevel
  <2>7. AtLevel(e, irql', ints')
    BY <2>1, <2>5, <2>6 DEF AtLevel
  <2>8. Queue' /\ dpcq' = dpcq /\ pending' = pending
    BY <1>1, <2>1 DEF Queue, SameQueue, dpcVars
  <2> HIDE DEF e
  <2> QED
    BY <1>1, <2>1, <2>3, <2>7, <2>8, MoveIInv
<1>4. CASE Test /\ ~PendingAbove(Top.to)
  <2>1. /\ Top.at = "test" /\ Return /\ irql' = irql /\ SameQueue
    BY <1>4 DEF Test, At, SameQueue
  <2>2. irql' = Top.to
    BY <1>1, <2>1 DEF AtLevel, Fixed, Base
  <2> QED
    BY <1>4, <2>1, <2>2, ReturnIInv
<1>5. CASE Enter
  <2> DEFINE e == [Top EXCEPT !.at = "loop", !.old = ints]
  <2>1. /\ Top.at = "enter" /\ irql' = irql /\ stack' = Front(stack) \o <<e>>
        /\ ints' = FALSE /\ SameQueue
    BY <1>5 DEF Enter, At, SameQueue
  <2>2. e \in Frames /\ e.to = Top.to /\ e.at = "loop"
    BY <1>1, <2>1 DEF Frames, Places
  <2>3. ~Top.iret => ints
    BY <1>1, <2>1 DEF AtLevel, Open
  <2>4. Sound(e)
    BY <1>1, <2>1, <2>3 DEF Frames, Sound
  <2>5. AtLevel(e, irql, FALSE)
    BY <1>1, <2>1, <2>2 DEF AtLevel, Fixed, Floor, Base, Open, Frames
  <2>6. Queue' /\ dpcq' = dpcq /\ pending' = pending
    BY <1>1, <2>1 DEF Queue, SameQueue, dpcVars
  <2> HIDE DEF e
  <2>7. AtLevel(e, irql', ints')
    BY <2>1, <2>5
  <2> QED
    BY <1>1, <2>1, <2>2, <2>4, <2>6, <2>7, MoveIInv
<1> QED
  BY <1>2, <1>3, <1>4, <1>5

\* The loop of softint_dispatch, dpc_interrupt and dpc_run_queue.
LEMMA DispatchIInv ==
  ASSUME IInv, Loop \/ RunQueue \/ FnReturn \/ End
  PROVE  IInv'
<1>1. /\ Top \in Frames /\ Sound(Top)
      /\ irql \in 0..15 /\ ints \in BOOLEAN /\ AtLevel(Top, irql, ints)
      /\ Queue /\ pending \subseteq {DISPATCH}
  BY TopFacts
<1>2. CASE Loop /\ PendingAbove(Top.to)
  <2> DEFINE e == [Top EXCEPT !.at = "dpcs"]
  <2>1. /\ Top.at = "loop" /\ irql' = DISPATCH /\ stack' = Front(stack) \o <<e>>
        /\ ints' = TRUE /\ pending' = pending \ {DISPATCH} /\ UNCHANGED dpcVars
    BY <1>2 DEF Loop, At, Goto
  <2>2. e \in Frames /\ e.to = Top.to /\ e.at = "dpcs" /\ Sound(e)
    BY <1>1, <2>1 DEF Frames, Places, Sound
  <2>3. AtLevel(e, DISPATCH, TRUE) /\ DISPATCH \in 0..15
    BY <1>1, <2>1, <2>2, SMTT(60) DEF AtLevel, Fixed, Floor, Base, Open, Sound, Frames, DISPATCH
  <2>4. Queue'
    BY <1>1, <2>1 DEF Queue, dpcVars
  <2> HIDE DEF e
  <2>5. AtLevel(e, irql', ints')
    BY <2>1, <2>3
  <2> QED
    BY <1>1, <2>1, <2>2, <2>3, <2>4, <2>5, MoveIInv
<1>3. CASE Loop /\ ~PendingAbove(Top.to)
  <2>1. Top.at = "loop" /\ Return /\ irql' = Top.to /\ SameQueue
    BY <1>3 DEF Loop, At, SameQueue
  <2> QED
    BY <1>3, <2>1, ReturnIInv
<1>4. CASE RunQueue /\ dpcq = <<>>
  <2> DEFINE e == [Top EXCEPT !.at = "end"]
  <2>1. /\ Top.at = "dpcs" /\ stack' = Front(stack) \o <<e>>
        /\ irql' = irql /\ ints' = ints /\ SameQueue
    BY <1>4 DEF RunQueue, At, Goto, SameQueue
  <2>2. e \in Frames /\ e.to = Top.to /\ e.at = "end" /\ Sound(e)
    BY <1>1, <2>1 DEF Frames, Places, Sound
  <2>3. AtLevel(e, irql, ints)
    BY <1>1, <2>1, <2>2 DEF AtLevel, Fixed, Floor, Base, Open
  <2>4. Queue' /\ dpcq' = <<>>
    BY <1>1, <1>4, <2>1, SMTT(60) DEF Queue, SameQueue, dpcVars
  <2> HIDE DEF e
  <2>5. AtLevel(e, irql', ints')
    BY <2>1, <2>3
  <2> QED
    BY <1>1, <2>1, <2>2, <2>4, <2>5, MoveIInv
<1>5. CASE RunQueue /\ dpcq # <<>>
  <2> DEFINE e == [Top EXCEPT !.at = "fn", !.dpc = Head(dpcq)]
  <2>1. /\ Top.at = "dpcs" /\ stack' = Front(stack) \o <<e>>
        /\ irql' = irql /\ ints' = ints /\ pending' = pending
        /\ dpcq' = Tail(dpcq) /\ count' = count - 1 /\ enqueued' = enqueued \ {Head(dpcq)}
    BY <1>5 DEF RunQueue, At
  <2>2. Queue' /\ Head(dpcq) \in Dpcs
    BY <1>1, <1>5, <2>1, DequeueQueue
  <2>3. e \in Frames /\ e.to = Top.to /\ e.at = "fn" /\ Sound(e)
    BY <1>1, <2>1, <2>2, LevelAssumption DEF Frames, Places, Sound
  <2>4. AtLevel(e, irql, ints)
    BY <1>1, <2>1, <2>3 DEF AtLevel, Fixed, Floor, Base, Open
  <2> HIDE DEF e
  <2>5. AtLevel(e, irql', ints')
    BY <2>1, <2>4
  <2> QED
    BY <1>1, <2>1, <2>2, <2>3, <2>5, MoveIInv
<1>6. CASE FnReturn
  <2> DEFINE e == [Top EXCEPT !.at = "dpcs", !.dpc = NoDpc]
  <2>1. /\ Top.at = "fn" /\ stack' = Front(stack) \o <<e>>
        /\ irql' = irql /\ ints' = ints /\ SameQueue
    BY <1>6 DEF FnReturn, At, SameQueue
  <2>2. e \in Frames /\ e.to = Top.to /\ e.at = "dpcs" /\ Sound(e)
    BY <1>1, <2>1 DEF Frames, Places, Sound
  <2>3. AtLevel(e, irql, ints)
    BY <1>1, <2>1, <2>2 DEF AtLevel, Fixed, Floor, Base, Open
  <2>4. Queue'
    BY <1>1, <2>1 DEF Queue, SameQueue, dpcVars
  <2> HIDE DEF e
  <2>5. AtLevel(e, irql', ints')
    BY <2>1, <2>3
  <2> QED
    BY <1>1, <2>1, <2>2, <2>4, <2>5, MoveIInv
<1>7. CASE End
  <2> DEFINE e == [Top EXCEPT !.at = "loop"]
  <2>1. /\ Top.at = "end" /\ stack' = Front(stack) \o <<e>>
        /\ irql' = irql /\ ints' = FALSE /\ SameQueue
    BY <1>7 DEF End, At, Goto, SameQueue
  <2>2. e \in Frames /\ e.to = Top.to /\ e.at = "loop" /\ Sound(e)
    BY <1>1, <2>1 DEF Frames, Places, Sound
  <2>3. AtLevel(e, irql, FALSE)
    BY <1>1, <2>1, <2>2 DEF AtLevel, Fixed, Floor, Base, Open
  <2>4. Queue' /\ dpcq' = dpcq /\ pending' = pending
    BY <1>1, <2>1 DEF Queue, SameQueue, dpcVars
  <2> HIDE DEF e
  <2>5. AtLevel(e, irql', ints')
    BY <2>1, <2>3
  <2> QED
    BY <1>1, <2>1, <2>2, <2>4, <2>5, MoveIInv
<1> QED
  BY <1>2, <1>3, <1>4, <1>5, <1>6, <1>7

\* Interrupts and handle_irq.
LEMMA InterruptIInv ==
  ASSUME IInv, Handler \/ IsrEnd \/ \E i \in Irqs : Interrupt(i)
  PROVE  IInv'
<1>1. /\ Top \in Frames /\ Sound(Top)
      /\ irql \in 0..15 /\ ints \in BOOLEAN /\ AtLevel(Top, irql, ints)
      /\ Queue /\ pending \subseteq {DISPATCH}
  BY TopFacts
<1>2. CASE Handler
  <2> DEFINE e == [Top EXCEPT !.at = "isrend"]
  <2>1. /\ Top.at = "isr" /\ stack' = Front(stack) \o <<e>>
        /\ irql' = irql /\ ints' = ints
        /\ SameQueue \/ \E d \in Dpcs : Enqueue(d)
    BY <1>2 DEF Handler, At, Goto, SameQueue
  <2>2. e \in Frames /\ e.to = Top.to /\ e.at = "isrend" /\ Sound(e)
    BY <1>1, <2>1 DEF Frames, Places, Sound
  <2>3. AtLevel(e, irql, ints)
    BY <1>1, <2>1, <2>2 DEF AtLevel, Fixed, Floor, Base, Open
  <2>4. /\ Queue' /\ pending \subseteq pending'
        /\ dpcq' = dpcq \/ DISPATCH \in pending'
    <3>1. CASE SameQueue
      BY <1>1, <3>1 DEF Queue, SameQueue, dpcVars
    <3> QED
      BY <1>1, <2>1, <3>1, EnqueueQueue
  <2> HIDE DEF e
  <2>5. AtLevel(e, irql', ints')
    BY <2>1, <2>3
  <2> QED
    BY <1>1, <2>1, <2>2, <2>4, <2>5, MoveIInv
<1>3. CASE IsrEnd
  <2> DEFINE e == [Top EXCEPT !.at = "lower", !.iret = TRUE]
  <2>1. /\ Top.at = "isrend" /\ stack' = Front(stack) \o <<e>>
        /\ irql' = irql /\ ints' = FALSE /\ SameQueue
    BY <1>3 DEF IsrEnd, At, SameQueue
  <2>2. e \in Frames /\ e.to = Top.to /\ e.at = "lower" /\ e.iret = TRUE /\ Sound(e)
    BY <1>1, <2>1 DEF Frames, Places, Sound
  <2>3. AtLevel(e, irql, FALSE)
    BY <1>1, <2>1, <2>2 DEF AtLevel, Fixed, Floor, Base, Open
  <2>4. Queue' /\ dpcq' = dpcq /\ pending' = pending
    BY <1>1, <2>1 DEF Queue, SameQueue, dpcVars
  <2> HIDE DEF e
  <2>5. AtLevel(e, irql', ints')
    BY <2>1, <2>3
  <2> QED
    BY <1>1, <2>1, <2>2, <2>4, <2>5, MoveIInv
<1>4. ASSUME NEW i \in Irqs, Interrupt(i) PROVE IInv'
  <2> DEFINE e == Frame("isr", irql)
  <2>1. /\ ints = TRUE /\ ints' = TRUE /\ level[i] > irql /\ irql' = level[i]
        /\ stack' = Append(stack, e) /\ SameQueue
    BY <1>1, <1>4 DEF Interrupt, SameQueue
  <2>2. AtLevel(Last(stack), irql, TRUE)
    BY <1>1, <2>1 DEF Top
  <2>3. /\ Stacked(stack') /\ Last(stack') = e /\ Len(stack') = Len(stack) + 1
        /\ Len(stack) \in Nat /\ \A j \in 1..Len(stack) : stack'[j] = stack[j]
    BY <1>1, <2>1, <2>2, PushStacked DEF IInv
  <2>4. e.at = "isr" /\ e.to = irql /\ e.iret = FALSE
    BY DEF Frame
  <2>5. level[i] \in 3..15
    BY LevelAssumption
  <2> HIDE DEF e
  <2>6. AtLevel(e, level[i], TRUE) /\ irql' \in 0..15
    BY <1>1, <2>1, <2>4, <2>5, SMTT(60) DEF AtLevel, Fixed, Floor, Base, Open
  <2>7. Top' = e
    BY <2>3 DEF Top
  <2>8. Registers'
    <3>1. AtLevel(e, irql', ints')
      BY <2>1, <2>6
    <3> QED
      BY <2>1, <2>6, <2>7, <3>1 DEF Registers
  <2>9. Queue' /\ dpcq' = dpcq /\ pending' = pending
    BY <1>1, <2>1 DEF Queue, SameQueue, dpcVars
  <2>10. Announced(stack)'
    BY <2>3, <2>9, SMTT(60) DEF IInv, Announced
  <2>11. Quiet(Top)'
    BY <2>4, <2>7 DEF Quiet
  <2> QED
    BY <2>3, <2>8, <2>9, <2>10, <2>11 DEF IInv
<1> QED
  BY <1>2, <1>3, <1>4

\* irql_lower is called: thread code at DISPATCH level has no frame below it.
LEMMA CallLowerIInv ==
  ASSUME IInv, CallLower
  PROVE  IInv'
<1> DEFINE p == Frame("passive", PASSIVE)
           e == Frame("lower", PASSIVE)
<1>1. /\ Top \in Frames /\ Sound(Top)
      /\ irql \in 0..15 /\ ints \in BOOLEAN /\ AtLevel(Top, irql, ints)
      /\ Queue /\ pending \subseteq {DISPATCH}
  BY TopFacts
<1>2. /\ Top.at = "raised" /\ stack' = Front(stack) \o <<p, e>>
      /\ irql' = irql /\ ints' = ints /\ SameQueue
  BY DEF CallLower, At, SameQueue
<1> HIDE DEF p, e
<1>3. stack \in Seq(Frames) /\ stack # <<>> /\ Len(stack) \in Nat \ {0} /\ Top = stack[Len(stack)]
  BY SeqEmpty DEF IInv, Stacked, Top, Last
<1>4. Len(stack) = 1
  BY <1>2, ThreadIsAlone DEF IInv, Top
<1>5. Front(stack) \in Seq(Frames) /\ Len(Front(stack)) = 0
  BY <1>3, <1>4, FrontOf, SMTT(60)
<1>6. /\ p \in Frames /\ p.at = "passive" /\ p.to = 0 /\ Sound(p) /\ Open(p)
      /\ e \in Frames /\ e.at = "lower" /\ e.to = 0 /\ e.iret = FALSE /\ Sound(e) /\ Open(e)
  BY SMTT(60) DEF p, e, Frame, Frames, Places, Sound, Open, PASSIVE
<1>7. stack' = <<p, e>>
  <2>1. Front(stack) = <<>>
    BY <1>5, SeqEmpty
  <2> QED
    BY <1>2, <1>6, <2>1, SMTT(60)
<1>8. /\ stack' \in Seq(Frames) /\ Len(stack') = 2 /\ stack'[1] = p /\ stack'[2] = e
      /\ stack' # <<>> /\ Last(stack') = e
  BY <1>6, <1>7, SMTT(60) DEF Last
<1>9. Floor(p, 0) /\ Base(p) = 0
  BY <1>6, SMTT(60) DEF Floor, Base
<1>10. \A i, j \in 1..2 : i < j => i = 1 /\ j = 2
  BY SMTT(60)
<1>11. Stacked(stack')
  <2>1. \A i, j \in 1..2 : i < j => Floor(stack'[i], stack'[j].to)
    BY <1>6, <1>8, <1>9, <1>10
  <2>2. \A i, j \in 1..2 : j = i + 1 /\ Fixed(stack'[i]) => stack'[j].to = Base(stack'[i])
    BY <1>6, <1>8, <1>9, SMTT(60)
  <2>3. \A i \in 1..2 : Sound(stack'[i]) /\ Open(stack'[i])
    BY <1>6, <1>8, SMTT(60)
  <2>4. \A i \in 2..2 : stack'[i].at \notin {"passive", "raised"}
    BY <1>6, <1>8, SMTT(60)
  <2> QED
    BY <1>6, <1>8, <2>1, <2>2, <2>3, <2>4 DEF Stacked, PASSIVE
<1>12. Top' = e
  BY <1>8 DEF Top
<1>13. irql = DISPATCH /\ ints = TRUE
  BY <1>1, <1>2 DEF AtLevel, Fixed, Base, Open
<1>14. AtLevel(e, DISPATCH, TRUE)
  BY <1>6, SMTT(60) DEF AtLevel, Fixed, Floor, Base, Open, DISPATCH
<1>15. Registers'
  <2>1. AtLevel(e, irql', ints')
    BY <1>2, <1>13, <1>14
  <2> QED
    BY <1>1, <1>2, <1>12, <2>1 DEF Registers
<1>16. Queue' /\ dpcq' = dpcq /\ pending' = pending
  BY <1>1, <1>2 DEF Queue, SameQueue, dpcVars
<1>17. Announced(stack)'
  <2>1. \A i \in 1..Len(stack) : stack[i].at = "raised"
    BY <1>2, <1>3, <1>4, SMTT(60)
  <2> QED
    BY <1>16, <2>1 DEF IInv, Announced
<1>18. Quiet(Top)'
  BY <1>6, <1>12 DEF Quiet
<1> QED
  BY <1>11, <1>15, <1>16, <1>17, <1>18 DEF IInv

\* The other steps of thread code, and a DPC function that enqueues a DPC.
LEMMA ThreadIInv ==
  ASSUME IInv, Raise \/ \E d \in Dpcs : ThreadEnqueue(d) \/ FnEnqueue(d)
  PROVE  IInv'
<1>1. /\ Top \in Frames /\ Sound(Top)
      /\ irql \in 0..15 /\ ints \in BOOLEAN /\ AtLevel(Top, irql, ints)
      /\ Queue /\ pending \subseteq {DISPATCH}
  BY TopFacts
<1>2. CASE Raise
  <2> DEFINE e == [Top EXCEPT !.at = "raised"]
  <2>1. /\ Top.at = "passive" /\ stack' = Front(stack) \o <<e>>
        /\ irql' = DISPATCH /\ ints' = ints /\ SameQueue
    BY <1>2 DEF Raise, At, Goto, SameQueue
  <2>2. e \in Frames /\ e.to = Top.to /\ e.at = "raised" /\ Sound(e)
    BY <1>1, <2>1 DEF Frames, Places, Sound
  <2>3. Top.to = 0
    BY <2>1, ThreadIsAlone DEF IInv, Top, PASSIVE
  <2>4. AtLevel(e, DISPATCH, ints) /\ DISPATCH \in 0..15
    BY <1>1, <2>1, <2>2, <2>3, SMTT(60) DEF AtLevel, Fixed, Floor, Base, Open, DISPATCH
  <2>5. Queue' /\ dpcq' = dpcq /\ pending' = pending
    BY <1>1, <2>1 DEF Queue, SameQueue, dpcVars
  <2> HIDE DEF e
  <2>6. AtLevel(e, irql', ints')
    BY <2>1, <2>4
  <2> QED
    BY <1>1, <2>1, <2>2, <2>4, <2>5, <2>6, MoveIInv
<1>3. ASSUME NEW d \in Dpcs, ThreadEnqueue(d) \/ FnEnqueue(d)
      PROVE  IInv'
  <2>1. /\ Top.at \in {"raised", "fn"} /\ stack' = stack
        /\ irql' = irql /\ ints' = ints /\ Enqueue(d)
    BY <1>3 DEF ThreadEnqueue, FnEnqueue, At
  <2>2. /\ Queue' /\ pending \subseteq pending'
        /\ dpcq' = dpcq \/ DISPATCH \in pending'
    BY <1>1, <2>1, EnqueueQueue
  <2>3. Stacked(stack') /\ Top' = Top
    BY <2>1 DEF IInv, Top
  <2>4. Registers'
    <3>1. AtLevel(Top', irql', ints')
      BY <1>1, <2>1, <2>3
    <3> QED
      BY <1>1, <2>1, <3>1 DEF Registers
  <2>5. Announced(stack)'
    BY <2>1, <2>2 DEF IInv, Announced
  <2>6. Quiet(Top)'
    BY <2>1, <2>3 DEF Quiet
  <2> QED
    BY <2>2, <2>3, <2>4, <2>5, <2>6 DEF IInv
<1> QED
  BY <1>2, <1>3

\* Every step keeps the invariant.
LEMMA StepIInv ==
  IInv /\ [Next]_vars => IInv'
<1> SUFFICES ASSUME IInv, [Next]_vars PROVE IInv'
  OBVIOUS
<1>1. CASE UNCHANGED vars
  <2>1. /\ stack' = stack /\ irql' = irql /\ ints' = ints /\ pending' = pending
        /\ dpcq' = dpcq /\ count' = count /\ enqueued' = enqueued
    BY <1>1 DEF vars, dpcVars
  <2>2. Stacked(stack') /\ Top' = Top
    BY <2>1 DEF IInv, Top
  <2>3. Registers'
    BY <2>1, <2>2 DEF IInv, Registers
  <2> QED
    BY <2>1, <2>2, <2>3, SMTT(60) DEF IInv, Queue, Announced, Quiet
<1>2. CASE Next
  BY <1>2, LowerIInv, DispatchIInv, InterruptIInv, CallLowerIInv, ThreadIInv
     DEF Next, Dispatcher, ThreadCode
<1> QED
  BY <1>1, <1>2

\* The inductive invariant holds wherever interrupts fall.
THEOREM Inductive == Spec => []IInv
<1> QED
  BY InitIInv, StepIInv, PTL DEF Spec

\* No software interrupt is lost: thread code at PASSIVE level has no DPC waiting,
\* whatever sources there are and wherever they interrupt irql_lower.
THEOREM NothingWaitsAtPassive == Spec => []PassiveIsQuiet
<1>1. IInv => PassiveIsQuiet
  BY DEF IInv, Quiet, PassiveIsQuiet, At, PendingAbove
<1> QED
  BY <1>1, Inductive, PTL

-----------------------------------------------------------------------------
(* Returns.                                                                *)

\* A step that makes the stack shorter is a return of irql_lower.
LEMMA OnlyReturnPops ==
  ASSUME IInv, Next, Len(stack') < Len(stack)
  PROVE  /\ Top.at \in {"test", "loop"} /\ ~PendingAbove(Top.to)
         /\ Return /\ irql' = Top.to /\ SameQueue
<1>1. /\ stack \in Seq(Frames) /\ stack # <<>> /\ Len(stack) \in Nat \ {0}
      /\ Top = stack[Len(stack)] /\ Top \in Frames /\ AtLevel(Top, irql, ints)
  BY SeqEmpty, TopFacts DEF IInv, Stacked, Top, Last
<1>2. ASSUME NEW e, stack' = Front(stack) \o <<e>> PROVE FALSE
  <2>1. Front(stack) \in Seq(Frames) /\ Len(Front(stack)) = Len(stack) - 1
    BY <1>1, FrontOf
  <2>2. Front(stack) \in Seq(Frames \cup {e}) /\ <<e>> \in Seq(Frames \cup {e}) /\ Len(<<e>>) = 1
    BY <2>1, SeqWider, SMTT(60)
  <2>3. Len(stack') = Len(stack)
    BY <1>1, <1>2, <2>1, <2>2, SeqConcat, SMTT(60)
  <2> QED
    BY <1>1, <2>3, SMTT(60)
<1>3. \A place : ~Goto(place)
  BY <1>2 DEF Goto
<1>4. stack' # stack
  BY <1>1, SMTT(60)
<1>5. ~CallLower
  <2> SUFFICES ASSUME CallLower PROVE FALSE
    OBVIOUS
  <2>1. Top.at = "raised"
    BY DEF CallLower, At
  <2>2. Len(stack) = 1
    BY <2>1, ThreadIsAlone DEF IInv, Top
  <2>3. Stacked(stack')
    BY CallLowerIInv DEF IInv
  <2>4. Len(stack') \in Nat \ {0}
    BY <2>3, SeqEmpty DEF Stacked
  <2> QED
    BY <2>2, <2>4, SMTT(60)
<1>6. \A i \in Irqs : ~Interrupt(i)
  <2> SUFFICES ASSUME NEW i \in Irqs, Interrupt(i) PROVE FALSE
    OBVIOUS
  <2>1. Frame("isr", irql) \in Frames
    BY TopFacts DEF Frame, Frames, Places
  <2>2. Len(stack') = Len(stack) + 1
    BY <1>1, <2>1, SeqAppend DEF Interrupt
  <2> QED
    BY <1>1, <2>2, SMTT(60)
<1>7. ~Enter /\ ~FnReturn /\ ~IsrEnd /\ ~RunQueue
  BY <1>2, <1>3 DEF Enter, FnReturn, IsrEnd, RunQueue
<1>8. ~Lower /\ ~End /\ ~Handler /\ ~Raise
  BY <1>3 DEF Lower, End, Handler, Raise
<1>9. \A d \in Dpcs : ~FnEnqueue(d) /\ ~ThreadEnqueue(d)
  BY <1>4 DEF FnEnqueue, ThreadEnqueue
<1>10. Test \/ Loop
  BY <1>5, <1>6, <1>7, <1>8, <1>9 DEF Next, Dispatcher, ThreadCode
<1>11. CASE Test
  <2>1. Top.at = "test" /\ ~PendingAbove(Top.to) /\ Return /\ irql' = irql /\ SameQueue
    BY <1>3, <1>11 DEF Test, At, SameQueue
  <2>2. irql = Top.to
    BY <1>1, <2>1 DEF AtLevel, Fixed, Base
  <2> QED
    BY <2>1, <2>2
<1>12. CASE Loop
  BY <1>3, <1>12 DEF Loop, At, SameQueue
<1> QED
  BY <1>10, <1>11, <1>12

\* Returning from irql_lower restores the level that the code below expects and
\* enables interrupts, however deep interrupts are nested.
THEOREM ReturnRestoresLevel == Spec => LevelRestored
<1> DEFINE A == Len(stack') < Len(stack) =>
                  /\ ints'
                  /\ irql' = CASE Last(stack').at = "passive" -> PASSIVE
                               [] Last(stack').at \in {"raised", "dpcs", "fn", "end"} -> DISPATCH
                               [] OTHER -> Top.to
<1>1. IInv /\ [Next]_vars => [A]_vars
  <2> SUFFICES ASSUME IInv, Next, Len(stack') < Len(stack)
               PROVE  /\ ints'
                      /\ irql' = CASE Last(stack').at = "passive" -> PASSIVE
                                   [] Last(stack').at \in {"raised", "dpcs", "fn", "end"} -> DISPATCH
                                   [] OTHER -> Top.to
    OBVIOUS
  <2>1. /\ Top.at \in {"test", "loop"} /\ ~PendingAbove(Top.to)
        /\ Return /\ irql' = Top.to /\ SameQueue
    BY OnlyReturnPops
  <2>2. IInv' /\ AtLevel(Last(stack'), irql', TRUE) /\ ints'
    BY <2>1, ReturnIInv
  <2> DEFINE f == Last(stack')
  <2>3. f.at = "passive" => irql' = PASSIVE
    <3> SUFFICES ASSUME f.at = "passive" PROVE irql' = PASSIVE
      OBVIOUS
    <3>1. f.to = PASSIVE
      BY <2>2, ThreadIsAlone DEF IInv
    <3> QED
      BY <2>2, <3>1 DEF AtLevel, Fixed, Base
  <2>4. f.at \in {"raised", "dpcs", "fn", "end"} => irql' = DISPATCH
    BY <2>2 DEF AtLevel, Fixed, Base
  <2> HIDE DEF f
  <2>5. irql' = CASE f.at = "passive" -> PASSIVE
                  [] f.at \in {"raised", "dpcs", "fn", "end"} -> DISPATCH
                  [] OTHER -> Top.to
    <3>1. CASE f.at = "passive"
      BY <2>3, <3>1
    <3>2. CASE f.at \in {"raised", "dpcs", "fn", "end"}
      BY <2>4, <3>2
    <3>3. CASE f.at \notin {"passive", "raised", "dpcs", "fn", "end"}
      BY <2>1, <3>3
    <3> QED
      BY <3>1, <3>2, <3>3
  <2> QED
    BY <2>2, <2>5 DEF f
<1>2. Spec => [][A]_vars
  BY <1>1, Inductive, PTL DEF Spec
<1> QED
  BY <1>2 DEF LevelRestored

-----------------------------------------------------------------------------
(* Softint implements DpcQueue, without its fairness.                      *)

\* Running, of a stack.
RunningOf(s) ==
  IF \E i \in DOMAIN s : s[i].dpc # NoDpc
  THEN s[CHOOSE i \in DOMAIN s : s[i].dpc # NoDpc].dpc
  ELSE NoDpc

\* At most one DPC function is running.
LEMMA OneRuns ==
  ASSUME NEW s, Stacked(s), NEW i \in 1..Len(s), NEW j \in 1..Len(s),
         s[i].dpc # NoDpc, s[j].dpc # NoDpc
  PROVE  i = j
<1>1. \A k, m \in 1..Len(s) : ~(k < m /\ s[k].dpc # NoDpc /\ s[m].dpc # NoDpc)
  <2> SUFFICES ASSUME NEW k \in 1..Len(s), NEW m \in 1..Len(s), k < m,
                      s[k].dpc # NoDpc, s[m].dpc # NoDpc
               PROVE  FALSE
    OBVIOUS
  <2>1. s[k] \in Frames /\ s[m] \in Frames /\ Sound(s[k]) /\ Sound(s[m]) /\ Floor(s[k], s[m].to)
    BY SMTT(60) DEF Stacked
  <2>2. s[k].at = "fn" /\ s[m].at = "fn"
    BY <2>1 DEF Sound
  <2>3. s[m].to < DISPATCH /\ s[m].to >= DISPATCH /\ s[m].to \in 0..15
    BY <2>1, <2>2 DEF Sound, Floor, Base, Frames
  <2>4. \A x \in 0..15 : ~(x < DISPATCH /\ x >= DISPATCH)
    BY SMTT(60) DEF DISPATCH
  <2> QED
    BY <2>3, <2>4
<1>2. i \in Int /\ j \in Int
  BY SMTT(60)
<1>3. ~(i < j) /\ ~(j < i)
  BY <1>1
<1> QED
  BY <1>2, <1>3, SMTT(60)

\* The frame with a DPC tells which function runs; without one, none does.
LEMMA RunningFrame ==
  ASSUME NEW s, Stacked(s)
  PROVE  /\ \A i \in 1..Len(s) : s[i].dpc # NoDpc => RunningOf(s) = s[i].dpc
         /\ (\A i \in 1..Len(s) : s[i].dpc = NoDpc) => RunningOf(s) = NoDpc
<1>1. DOMAIN s = 1..Len(s)
  BY SeqLength DEF Stacked
<1>2. ASSUME NEW i \in 1..Len(s), s[i].dpc # NoDpc PROVE RunningOf(s) = s[i].dpc
  <2> DEFINE c == CHOOSE k \in DOMAIN s : s[k].dpc # NoDpc
  <2>1. c \in 1..Len(s) /\ s[c].dpc # NoDpc
    BY <1>1, <1>2
  <2>2. c = i
    BY <1>2, <2>1, OneRuns
  <2>3. RunningOf(s) = s[c].dpc
    BY <1>1, <1>2 DEF RunningOf
  <2> QED
    BY <2>2, <2>3
<1>3. (\A i \in 1..Len(s) : s[i].dpc = NoDpc) => RunningOf(s) = NoDpc
  BY <1>1 DEF RunningOf
<1> QED
  BY <1>2, <1>3

\* What a move of the executing frame does to the function that runs.
LEMMA RunningMoves ==
  ASSUME NEW s, Stacked(s), NEW e \in Frames, NEW t, t = Front(s) \o <<e>>, Stacked(t)
  PROVE  /\ e.dpc = Last(s).dpc => RunningOf(t) = RunningOf(s)
         /\ e.dpc # NoDpc => RunningOf(t) = e.dpc
         /\ Last(s).dpc # NoDpc => RunningOf(s) = Last(s).dpc
         /\ e.dpc # NoDpc /\ Last(s).dpc = NoDpc => RunningOf(s) = NoDpc
         /\ e.dpc = NoDpc /\ Last(s).dpc # NoDpc => RunningOf(t) = NoDpc
<1> DEFINE n == Len(s)
<1>1. s \in Seq(Frames) /\ s # <<>> /\ n \in Nat \ {0} /\ Last(s) = s[n] /\ n \in 1..n
  BY SeqEmpty, SMTT(60) DEF Stacked, Last
<1>2. /\ Len(t) = n /\ t[n] = e
      /\ \A i \in 1..n : i < n => t[i] = s[i]
  BY <1>1, ReplaceLast, SMTT(60)
<1>3. \A i \in 1..n : i < n \/ i = n
  BY <1>1, SMTT(60)
<1>4. e.dpc # NoDpc => RunningOf(t) = e.dpc
  <2>1. n \in 1..Len(t) /\ t[n] = e
    BY <1>1, <1>2
  <2> QED
    BY <2>1, RunningFrame
<1>5. Last(s).dpc # NoDpc => RunningOf(s) = Last(s).dpc
  BY <1>1, RunningFrame, SMTT(60)
<1>6. ASSUME e.dpc # NoDpc, Last(s).dpc = NoDpc PROVE RunningOf(s) = NoDpc
  <2>1. ASSUME NEW i \in 1..n, s[i].dpc # NoDpc PROVE FALSE
    <3>1. i < n /\ t[i].dpc # NoDpc
      BY <1>1, <1>2, <1>3, <1>6, <2>1
    <3>2. i \in 1..Len(t) /\ n \in 1..Len(t) /\ t[n].dpc # NoDpc
      BY <1>1, <1>2, <1>6
    <3>3. i = n
      BY <3>1, <3>2, OneRuns
    <3> QED
      BY <3>1, <3>3, SMTT(60)
  <2> QED
    BY <2>1, RunningFrame
<1>7. ASSUME e.dpc = NoDpc, Last(s).dpc # NoDpc PROVE RunningOf(t) = NoDpc
  <2>1. ASSUME NEW i \in 1..n, t[i].dpc # NoDpc PROVE FALSE
    <3>1. i < n /\ s[i].dpc # NoDpc
      BY <1>2, <1>3, <1>7, <2>1
    <3>2. i = n
      BY <1>1, <1>7, <3>1, OneRuns, SMTT(60)
    <3> QED
      BY <3>1, <3>2, SMTT(60)
  <2> QED
    BY <1>2, <2>1, RunningFrame
<1>8. ASSUME e.dpc = Last(s).dpc PROVE RunningOf(t) = RunningOf(s)
  <2>1. \A i \in 1..n : t[i].dpc = s[i].dpc
    BY <1>1, <1>2, <1>3, <1>8
  <2>2. CASE \A i \in 1..n : s[i].dpc = NoDpc
    <3>1. RunningOf(s) = NoDpc
      BY <1>1, <2>2, RunningFrame
    <3>2. \A i \in 1..Len(t) : t[i].dpc = NoDpc
      BY <1>2, <2>1, <2>2
    <3> QED
      BY <3>1, <3>2, RunningFrame
  <2>3. CASE \E i \in 1..n : s[i].dpc # NoDpc
    <3>1. PICK i \in 1..n : s[i].dpc # NoDpc
      BY <2>3
    <3>2. i \in 1..Len(t) /\ t[i].dpc = s[i].dpc /\ t[i].dpc # NoDpc
      BY <1>2, <2>1, <3>1
    <3>3. RunningOf(s) = s[i].dpc
      BY <3>1, RunningFrame
    <3>4. RunningOf(t) = t[i].dpc
      BY <3>2, RunningFrame
    <3> QED
      BY <3>2, <3>3, <3>4
  <2> QED
    BY <2>2, <2>3
<1> QED
  BY <1>4, <1>5, <1>6, <1>7, <1>8

\* dpc_enqueue is a step of the abstract queue, or none.
LEMMA EnqueueRefines ==
  ASSUME Queue, NEW d \in Dpcs, Enqueue(d), Running' = Running
  PROVE  Abstract!Enqueue(d) \/ UNCHANGED Abstract!vars
<1>1. CASE d \in enqueued
  BY <1>1 DEF Enqueue, dpcVars, Abstract!vars
<1>2. CASE d \notin enqueued
  <2>1. dpcq' = Append(dpcq, d)
    BY <1>2 DEF Enqueue
  <2>2. \A i \in DOMAIN dpcq : dpcq[i] # d
    BY <1>2 DEF Queue, Range
  <2> QED
    BY <2>1, <2>2 DEF Abstract!Enqueue
<1> QED
  BY <1>1, <1>2

\* A frame without a DPC that comes or goes does not change the function that runs.
LEMMA RunningBelow ==
  ASSUME NEW s, Stacked(s), NEW t, Stacked(t), Len(t) = Len(s) + 1,
         t[Len(t)].dpc = NoDpc, \A i \in 1..Len(s) : t[i] = s[i]
  PROVE  RunningOf(t) = RunningOf(s)
<1> DEFINE n == Len(s)
<1>1. n \in Nat /\ Len(t) = n + 1 /\ \A i \in 1..(n + 1) : i \in 1..n \/ i = n + 1
  BY SeqEmpty, SMTT(60) DEF Stacked
<1>2. CASE \E i \in 1..n : s[i].dpc # NoDpc
  <2>1. PICK i \in 1..n : s[i].dpc # NoDpc
    BY <1>2
  <2>2. i \in 1..Len(t) /\ t[i] = s[i]
    BY <1>1, <2>1, SMTT(60)
  <2>3. RunningOf(s) = s[i].dpc
    BY <2>1, RunningFrame
  <2>4. RunningOf(t) = t[i].dpc
    BY <2>1, <2>2, RunningFrame
  <2> QED
    BY <2>2, <2>3, <2>4
<1>3. CASE \A i \in 1..n : s[i].dpc = NoDpc
  <2>1. RunningOf(s) = NoDpc
    BY <1>3, RunningFrame
  <2>2. \A i \in 1..Len(t) : t[i].dpc = NoDpc
    BY <1>1, <1>3
  <2>3. RunningOf(t) = NoDpc
    BY <2>2, RunningFrame
  <2> QED
    BY <2>1, <2>3
<1> QED
  BY <1>2, <1>3

\* Running before and after a step, and what the invariant says of the stacks.
LEMMA RunningNow ==
  ASSUME IInv, IInv'
  PROVE  /\ Running = RunningOf(stack) /\ Running' = RunningOf(stack')
         /\ Stacked(stack) /\ Stacked(stack')
         /\ Top = Last(stack) /\ Top \in Frames /\ Sound(Top)
<1>1. Running = RunningOf(stack) /\ Running' = RunningOf(stack')
  BY DEF Running, RunningOf
<1> QED
  BY <1>1, TopFacts DEF IInv, Top

\* A move of the executing frame that keeps its DPC keeps the function that runs.
LEMMA MoveRuns ==
  ASSUME IInv, IInv', NEW e \in Frames, stack' = Front(stack) \o <<e>>, e.dpc = Top.dpc
  PROVE  Running' = Running
<1>1. /\ Running = RunningOf(stack) /\ Running' = RunningOf(stack')
      /\ Stacked(stack) /\ Stacked(stack') /\ Top = Last(stack)
  BY RunningNow
<1>2. RunningOf(stack') = RunningOf(stack)
  BY <1>1, RunningMoves
<1> QED
  BY <1>1, <1>2

\* So does a move that changes only the place.
LEMMA GotoRuns ==
  ASSUME IInv, IInv', NEW place \in Places, Goto(place)
  PROVE  Running' = Running
<1> DEFINE e == [Top EXCEPT !.at = place]
<1>1. e \in Frames /\ e.dpc = Top.dpc /\ stack' = Front(stack) \o <<e>>
  BY RunningNow DEF Frames, Goto
<1> HIDE DEF e
<1> QED
  BY <1>1, MoveRuns

\* A return keeps the function that runs.
LEMMA ReturnRuns ==
  ASSUME IInv, IInv', Top.at \in {"test", "loop"}, Return
  PROVE  Running' = Running
<1>1. /\ Running = RunningOf(stack) /\ Running' = RunningOf(stack')
      /\ Stacked(stack) /\ Stacked(stack') /\ Top = Last(stack) /\ Sound(Top)
  BY RunningNow
<1>2. stack' = Front(stack) /\ Top.dpc = NoDpc
  BY <1>1 DEF Return, Sound
<1>3. /\ Len(stack) \in Nat \ {0} /\ Len(stack') = Len(stack) - 1
      /\ \A i \in 1..Len(stack') : stack'[i] = stack[i]
  BY <1>1, <1>2, FrontOf, SMTT(60) DEF Stacked
<1>4. Len(stack) = Len(stack') + 1 /\ stack[Len(stack)].dpc = NoDpc
  BY <1>1, <1>2, <1>3, SMTT(60) DEF Last
<1> QED
  BY <1>1, <1>3, <1>4, RunningBelow

\* An interrupt keeps the function that runs.
LEMMA InterruptRuns ==
  ASSUME IInv, IInv', NEW i \in Irqs, Interrupt(i)
  PROVE  Running' = Running
<1> DEFINE e == Frame("isr", irql)
<1>1. /\ Running = RunningOf(stack) /\ Running' = RunningOf(stack')
      /\ Stacked(stack) /\ Stacked(stack')
  BY RunningNow
<1>2. e \in Frames /\ e.dpc = NoDpc
  BY TopFacts DEF Frame, Frames, Places
<1>3. stack' = Append(stack, e)
  BY DEF Interrupt
<1> HIDE DEF e
<1>4. /\ Len(stack) \in Nat /\ Len(stack') = Len(stack) + 1 /\ stack'[Len(stack')] = e
      /\ \A j \in 1..Len(stack) : stack'[j] = stack[j]
  BY <1>1, <1>2, <1>3, SMTT(60) DEF Stacked
<1> QED
  BY <1>1, <1>2, <1>4, RunningBelow

\* Thread code calls irql_lower while no function runs.
LEMMA CallLowerRuns ==
  ASSUME IInv, IInv', CallLower
  PROVE  Running' = Running
<1> DEFINE p == Frame("passive", PASSIVE)
           e == Frame("lower", PASSIVE)
<1>1. /\ Running = RunningOf(stack) /\ Running' = RunningOf(stack')
      /\ Stacked(stack) /\ Stacked(stack') /\ Top = Last(stack) /\ Sound(Top)
  BY RunningNow
<1>2. Top.at = "raised" /\ stack' = Front(stack) \o <<p, e>>
  BY DEF CallLower, At
<1>3. p.dpc = NoDpc /\ e.dpc = NoDpc
  BY DEF Frame
<1> HIDE DEF p, e
<1>4. Len(stack) = 1 /\ \A i \in 1..Len(stack) : stack[i].dpc = NoDpc
  BY <1>1, <1>2, ThreadIsAlone, SMTT(60) DEF Sound, Last
<1>5. Running = NoDpc
  BY <1>1, <1>4, RunningFrame
<1>6. Front(stack) = <<>>
  BY <1>1, <1>4, FrontOf, SeqEmpty, SMTT(60) DEF Stacked
<1>7. stack' = <<p, e>>
  BY <1>2, <1>6, SMTT(60)
<1>8. \A i \in 1..Len(stack') : stack'[i].dpc = NoDpc
  BY <1>3, <1>7, SMTT(60)
<1>9. Running' = NoDpc
  BY <1>1, <1>8, RunningFrame
<1> QED
  BY <1>5, <1>9

\* dpc_run_queue takes the first DPC: the abstract queue starts it.
LEMMA RunQueueRefines ==
  ASSUME IInv, IInv', RunQueue, dpcq # <<>>
  PROVE  Abstract!Start
<1> DEFINE e == [Top EXCEPT !.at = "fn", !.dpc = Head(dpcq)]
<1>1. /\ Running = RunningOf(stack) /\ Running' = RunningOf(stack')
      /\ Stacked(stack) /\ Stacked(stack')
      /\ Top = Last(stack) /\ Top \in Frames /\ Sound(Top)
  BY RunningNow
<1>2. Head(dpcq) \in Dpcs
  BY SeqEmpty, SeqHeadTail DEF IInv, Queue
<1>3. Top.at = "dpcs" /\ stack' = Front(stack) \o <<e>> /\ dpcq' = Tail(dpcq)
  BY DEF RunQueue, At
<1>4. e \in Frames /\ e.dpc = Head(dpcq) /\ e.dpc # NoDpc /\ Top.dpc = NoDpc
  BY <1>1, <1>2, <1>3, LevelAssumption DEF Frames, Places, Sound
<1> HIDE DEF e
<1>5. Running' = Head(dpcq) /\ Running = NoDpc
  BY <1>1, <1>3, <1>4, RunningMoves
<1> QED
  BY <1>3, <1>5 DEF Abstract!Start

\* The function of a DPC returns: the abstract queue finishes it.
LEMMA FnReturnRefines ==
  ASSUME IInv, IInv', FnReturn
  PROVE  Abstract!Finish
<1> DEFINE e == [Top EXCEPT !.at = "dpcs", !.dpc = NoDpc]
<1>1. /\ Running = RunningOf(stack) /\ Running' = RunningOf(stack')
      /\ Stacked(stack) /\ Stacked(stack')
      /\ Top = Last(stack) /\ Top \in Frames /\ Sound(Top)
  BY RunningNow
<1>2. Top.at = "fn" /\ stack' = Front(stack) \o <<e>> /\ dpcq' = dpcq
  BY DEF FnReturn, At, dpcVars
<1>3. e \in Frames /\ e.dpc = NoDpc /\ Top.dpc # NoDpc
  BY <1>1, <1>2 DEF Frames, Places, Sound
<1> HIDE DEF e
<1>4. Running' = NoDpc /\ Running # NoDpc
  BY <1>1, <1>2, <1>3, RunningMoves
<1> QED
  BY <1>2, <1>4 DEF Abstract!Finish

\* The steps of handle_irq and of softint_dispatch that rewrite their frame.
LEMMA FrameRuns ==
  ASSUME IInv, IInv', Enter \/ IsrEnd
  PROVE  Running' = Running
<1>1. Top \in Frames /\ ints \in BOOLEAN
  BY TopFacts
<1>2. CASE Enter
  <2> DEFINE e == [Top EXCEPT !.at = "loop", !.old = ints]
  <2>1. stack' = Front(stack) \o <<e>>
    BY <1>2 DEF Enter
  <2>2. e \in Frames /\ e.dpc = Top.dpc
    BY <1>1 DEF Frames, Places
  <2> HIDE DEF e
  <2> QED
    BY <2>1, <2>2, MoveRuns
<1>3. CASE IsrEnd
  <2> DEFINE e == [Top EXCEPT !.at = "lower", !.iret = TRUE]
  <2>1. stack' = Front(stack) \o <<e>>
    BY <1>3 DEF IsrEnd
  <2>2. e \in Frames /\ e.dpc = Top.dpc
    BY <1>1 DEF Frames, Places
  <2> HIDE DEF e
  <2> QED
    BY <2>1, <2>2, MoveRuns
<1> QED
  BY <1>2, <1>3

\* Every step is a step of the abstract queue, or none.
LEMMA StepRefines ==
  ASSUME IInv, IInv', [Next]_vars
  PROVE  [Abstract!Next]_(Abstract!vars)
<1>1. dpcq' = dpcq /\ Running' = Running => UNCHANGED Abstract!vars
  BY DEF Abstract!vars
<1>2. CASE UNCHANGED vars
  BY <1>1, <1>2, RunningNow DEF vars, dpcVars
<1>3. CASE \E i \in Irqs : Interrupt(i)
  BY <1>1, <1>3, InterruptRuns DEF Interrupt, dpcVars
<1>4. CASE CallLower
  BY <1>1, <1>4, CallLowerRuns DEF CallLower, dpcVars
<1>5. CASE RunQueue
  <2>1. CASE dpcq = <<>>
    BY <1>1, <1>5, <2>1, GotoRuns DEF RunQueue, dpcVars, Places
  <2>2. CASE dpcq # <<>>
    BY <1>5, <2>2, RunQueueRefines DEF Abstract!Next
  <2> QED
    BY <2>1, <2>2
<1>6. CASE FnReturn
  BY <1>6, FnReturnRefines DEF Abstract!Next
<1>7. CASE \E d \in Dpcs : FnEnqueue(d) \/ ThreadEnqueue(d)
  <2>1. PICK d \in Dpcs : Enqueue(d) /\ stack' = stack
    BY <1>7 DEF FnEnqueue, ThreadEnqueue
  <2>2. Running' = Running
    BY <2>1, RunningNow
  <2>3. Abstract!Enqueue(d) \/ UNCHANGED Abstract!vars
    BY <2>1, <2>2, EnqueueRefines DEF IInv
  <2> QED
    BY <2>3 DEF Abstract!Next
<1>8. CASE Handler
  <2>1. Running' = Running
    BY <1>8, GotoRuns DEF Handler, Places
  <2>2. CASE \E d \in Dpcs : Enqueue(d)
    BY <2>1, <2>2, EnqueueRefines DEF IInv, Abstract!Next
  <2>3. CASE UNCHANGED dpcVars
    BY <1>1, <2>1, <2>3 DEF dpcVars
  <2> QED
    BY <1>8, <2>2, <2>3 DEF Handler
<1>9. CASE Enter \/ IsrEnd
  BY <1>1, <1>9, FrameRuns DEF Enter, IsrEnd, dpcVars
<1>10. CASE Lower \/ End \/ Raise
  BY <1>1, <1>10, GotoRuns DEF Lower, End, Raise, dpcVars, Places
<1>11. CASE Test \/ Loop
  <2>1. dpcq' = dpcq /\ Top.at \in {"test", "loop"}
    BY <1>11 DEF Test, Loop, At, dpcVars
  <2>2. CASE Goto("enter") \/ Goto("dpcs")
    BY <1>1, <2>1, <2>2, GotoRuns DEF Places
  <2>3. CASE Return
    BY <1>1, <2>1, <2>3, ReturnRuns
  <2> QED
    BY <1>11, <2>2, <2>3 DEF Test, Loop
<1> QED
  BY <1>2, <1>3, <1>4, <1>5, <1>6, <1>7, <1>8, <1>9, <1>10, <1>11
     DEF Next, Dispatcher, ThreadCode

\* DPCs run one at a time in the order in which they were enqueued, each once for
\* every time it was added, wherever interrupts fall: Softint implements DpcQueue.
THEOREM ImplementsQueue == Spec => Abstract!Spec
<1>1. Init => Abstract!Init
  <2> SUFFICES ASSUME Init PROVE Abstract!Init
    OBVIOUS
  <2>1. stack = <<Frame("passive", PASSIVE)>> /\ dpcq = <<>>
    BY DEF Init
  <2>2. \A i \in DOMAIN stack : stack[i].dpc = NoDpc
    BY <2>1, SMTT(60) DEF Frame
  <2>3. Running = NoDpc
    BY <2>2 DEF Running
  <2> QED
    BY <2>1, <2>3 DEF Abstract!Init
<1>2. IInv /\ IInv' /\ [Next]_vars => [Abstract!Next]_(Abstract!vars)
  BY StepRefines
<1> QED
  BY <1>1, <1>2, Inductive, PTL DEF Spec, Abstract!Spec


-----------------------------------------------------------------------------
(* The depth of the stack, and the whole of QueueConsistent.               *)

INSTANCE FiniteSetTheorems

\* A frame of handle_irq before it lowers the level.
Serving(f) == f.at \in {"isr", "isrend"}

\* The level at which the code of frame j executes, or was interrupted.
LevelOf(s, n, j) == IF j = Len(s) THEN n ELSE s[j + 1].to

\* A handler runs at the level of a source, above the code it interrupted, and
\* from the third frame on all frames are those of interrupts.
Nested(s, n) ==
  \A j \in 1..Len(s) :
    /\ Serving(s[j]) => \E i \in Irqs : level[i] > s[j].to /\ level[i] = LevelOf(s, n, j)
    /\ s[j].iret => \E i \in Irqs : level[i] > s[j].to
    /\ j >= 3 => Serving(s[j]) \/ s[j].iret

Nesting == Nested(stack, irql)

\* The frame that executes moves on, and remains a frame of an interrupt.
LEMMA MoveNested ==
  ASSUME NEW s \in Seq(Frames), s # <<>>, NEW n, NEW m, Nested(s, n), NEW e \in Frames,
         e.to = Last(s).to,
         Serving(e) => Serving(Last(s)) /\ m = n,
         e.iret => Serving(Last(s)) \/ Last(s).iret,
         Serving(Last(s)) \/ Last(s).iret => Serving(e) \/ e.iret
  PROVE  Nested(Front(s) \o <<e>>, m)
<1>1. PICK t : t = Front(s) \o <<e>>
  OBVIOUS
<1>2. PICK l \in Nat \ {0} : l = Len(s)
  BY SeqEmpty
<1>3. /\ Len(t) = l /\ t[l] = e /\ l \in 1..l
      /\ \A i \in 1..l : i < l => t[i] = s[i]
  BY <1>1, <1>2, ReplaceLast, SMTT(60)
<1>4. Last(s) = s[l]
  BY <1>2 DEF Last
<1>5. \A j \in 1..l : t[j].to = s[j].to
  BY <1>3, <1>4, SMTT(60)
<1>6. ASSUME NEW j \in 1..l, j # l
      PROVE  j < l /\ t[j] = s[j] /\ LevelOf(t, m, j) = LevelOf(s, n, j)
  <2>1. j < l /\ j + 1 \in 1..l
    BY <1>6, SMTT(60)
  <2> QED
    BY <1>2, <1>3, <1>5, <1>6, <2>1 DEF LevelOf
<1>7. ASSUME NEW j \in 1..l
      PROVE  /\ Serving(t[j]) => \E i \in Irqs : level[i] > t[j].to /\ level[i] = LevelOf(t, m, j)
             /\ t[j].iret => \E i \in Irqs : level[i] > t[j].to
             /\ j >= 3 => Serving(t[j]) \/ t[j].iret
  <2>1. CASE j # l
    BY <1>2, <1>6, <2>1 DEF Nested
  <2>2. CASE j = l
    <3>1. LevelOf(t, m, l) = m /\ LevelOf(s, n, l) = n
      BY <1>2, <1>3 DEF LevelOf
    <3> QED
      BY <1>2, <1>3, <1>4, <2>2, <3>1, SMTT(60) DEF Nested
  <2> QED
    BY <2>1, <2>2
<1> QED
  BY <1>1, <1>3, <1>7, SMTT(60) DEF Nested

\* irql_lower returns to the frame below, at the level that it had.
LEMMA PopNested ==
  ASSUME NEW s \in Seq(Frames), s # <<>>, NEW n, Nested(s, n)
  PROVE  Nested(Front(s), Last(s).to)
<1>1. PICK t : t = Front(s)
  OBVIOUS
<1>2. PICK m : m = Last(s).to
  OBVIOUS
<1>3. PICK l \in Nat \ {0} : l = Len(s)
  BY SeqEmpty
<1>4. Len(t) = l - 1 /\ \A i \in 1..(l - 1) : t[i] = s[i]
  BY <1>1, <1>3, FrontOf
<1>5. ASSUME NEW j \in 1..(l - 1)
      PROVE  j \in 1..l /\ t[j] = s[j] /\ LevelOf(t, m, j) = LevelOf(s, n, j)
  <2>1. j \in 1..l /\ j # l /\ (j # l - 1 => j + 1 \in 1..(l - 1)) /\ (j = l - 1 => j + 1 = l)
    BY SMTT(60)
  <2>2. LevelOf(s, n, j) = s[j + 1].to
    BY <1>3, <2>1 DEF LevelOf
  <2>3. CASE j = l - 1
    BY <1>2, <1>3, <1>4, <2>1, <2>2, <2>3 DEF LevelOf, Last
  <2>4. CASE j # l - 1
    BY <1>4, <2>1, <2>2, <2>4 DEF LevelOf
  <2> QED
    BY <1>4, <2>1, <2>3, <2>4
<1> QED
  BY <1>1, <1>2, <1>3, <1>4, <1>5, SMTT(60) DEF Nested

\* An interrupt from source i.
LEMMA PushNested ==
  ASSUME NEW s \in Seq(Frames), s # <<>>, NEW n \in 0..15, Nested(s, n),
         NEW i \in Irqs, level[i] > n
  PROVE  Nested(Append(s, Frame("isr", n)), level[i])
<1>1. PICK e : e = Frame("isr", n)
  OBVIOUS
<1>2. e \in Frames /\ e.to = n /\ Serving(e) /\ e.iret = FALSE
  BY <1>1 DEF Frame, Frames, Places, Serving
<1>3. PICK t : t = Append(s, e)
  OBVIOUS
<1>4. PICK l \in Nat \ {0} : l = Len(s)
  BY SeqEmpty
<1>5. /\ Len(t) = l + 1 /\ t[l + 1] = e
      /\ \A j \in 1..l : t[j] = s[j]
  BY <1>2, <1>3, <1>4, SMTT(60)
<1>6. ASSUME NEW j \in 1..l
      PROVE  t[j] = s[j] /\ LevelOf(t, level[i], j) = LevelOf(s, n, j)
  <2>1. j # l + 1 /\ (j # l => j + 1 \in 1..l)
    BY SMTT(60)
  <2>2. LevelOf(t, level[i], j) = t[j + 1].to
    BY <1>5, <2>1 DEF LevelOf
  <2>3. CASE j = l
    BY <1>2, <1>4, <1>5, <2>2, <2>3 DEF LevelOf
  <2>4. CASE j # l
    BY <1>4, <1>5, <2>1, <2>2, <2>4, SMTT(60) DEF LevelOf
  <2> QED
    BY <1>5, <2>3, <2>4
<1>7. LevelOf(t, level[i], l + 1) = level[i]
  BY <1>5 DEF LevelOf
<1>8. \A j \in 1..(l + 1) : j \in 1..l \/ j = l + 1
  BY SMTT(60)
<1> QED
  BY <1>1, <1>2, <1>3, <1>4, <1>5, <1>6, <1>7, <1>8, SMTT(60) DEF Nested

\* Handlers stay nested by level, whichever step is taken.
LEMMA StepNested ==
  IInv /\ Nested(stack, irql) /\ [Next]_vars => Nested(stack', irql')
<1> SUFFICES ASSUME IInv, Nested(stack, irql), [Next]_vars
             PROVE  Nested(stack', irql')
  OBVIOUS
<1>1. /\ stack \in Seq(Frames) /\ stack # <<>> /\ Top = Last(stack)
      /\ Top \in Frames /\ Sound(Top) /\ irql \in 0..15 /\ AtLevel(Top, irql, ints)
  BY TopFacts DEF IInv, Stacked, Top
<1>2. ASSUME NEW e \in Frames, stack' = Front(stack) \o <<e>>, e.to = Top.to,
             e.iret = Top.iret, ~Serving(Top), ~Serving(e)
      PROVE  Nested(stack', irql')
  BY <1>1, <1>2, MoveNested
<1>3. ASSUME NEW p \in Places, p \notin {"isr", "isrend"}, Goto(p), ~Serving(Top)
      PROVE  Nested(stack', irql')
  <2>1. PICK e : e = [Top EXCEPT !.at = p]
    OBVIOUS
  <2>2. e \in Frames /\ e.to = Top.to /\ e.iret = Top.iret /\ e.at = p
    BY <1>1, <2>1 DEF Frames
  <2> QED
    BY <1>2, <1>3, <2>1, <2>2 DEF Goto, Serving
<1>4. CASE Lower \/ End \/ Raise \/ (Test /\ PendingAbove(Top.to)) \/ (Loop /\ PendingAbove(Top.to))
           \/ (RunQueue /\ dpcq = <<>>)
  BY <1>3, <1>4 DEF Lower, End, Raise, Test, Loop, RunQueue, At, Serving, Places
<1>5. CASE Enter
  <2>1. PICK e : e = [Top EXCEPT !.at = "loop", !.old = ints]
    OBVIOUS
  <2>2. e \in Frames /\ e.to = Top.to /\ e.iret = Top.iret /\ e.at = "loop"
    BY <1>1, <2>1, TopFacts DEF Frames, Places
  <2> QED
    BY <1>2, <1>5, <2>1, <2>2 DEF Enter, At, Serving
<1>6. CASE RunQueue /\ dpcq # <<>>
  <2>1. PICK e : e = [Top EXCEPT !.at = "fn", !.dpc = Head(dpcq)]
    OBVIOUS
  <2>2. Head(dpcq) \in Dpcs
    BY <1>6, SMTT(60) DEF IInv, Queue
  <2>3. e \in Frames /\ e.to = Top.to /\ e.iret = Top.iret /\ e.at = "fn"
    BY <1>1, <2>1, <2>2 DEF Frames, Places
  <2> QED
    BY <1>2, <1>6, <2>1, <2>3 DEF RunQueue, At, Serving
<1>7. CASE FnReturn
  <2>1. PICK e : e = [Top EXCEPT !.at = "dpcs", !.dpc = NoDpc]
    OBVIOUS
  <2>2. e \in Frames /\ e.to = Top.to /\ e.iret = Top.iret /\ e.at = "dpcs"
    BY <1>1, <2>1 DEF Frames, Places
  <2> QED
    BY <1>2, <1>7, <2>1, <2>2 DEF FnReturn, At, Serving
<1>8. CASE Handler
  <2>1. PICK e : e = [Top EXCEPT !.at = "isrend"]
    OBVIOUS
  <2>2. e \in Frames /\ e.to = Top.to /\ e.iret = Top.iret /\ Serving(e)
    BY <1>1, <2>1 DEF Frames, Places, Serving
  <2>3. Serving(Top) /\ stack' = Front(stack) \o <<e>> /\ irql' = irql
    BY <1>8, <2>1 DEF Handler, At, Goto, Serving
  <2> QED
    BY <1>1, <2>2, <2>3, MoveNested
<1>9. CASE IsrEnd
  <2>1. PICK e : e = [Top EXCEPT !.at = "lower", !.iret = TRUE]
    OBVIOUS
  <2>2. e \in Frames /\ e.to = Top.to /\ e.iret /\ ~Serving(e)
    BY <1>1, <2>1 DEF Frames, Places, Serving
  <2>3. Serving(Top) /\ stack' = Front(stack) \o <<e>>
    BY <1>9, <2>1 DEF IsrEnd, At, Serving
  <2> QED
    BY <1>1, <2>2, <2>3, MoveNested
<1>10. CASE (Test \/ Loop) /\ ~PendingAbove(Top.to)
  <2>1. stack' = Front(stack) /\ irql' = Top.to
    BY <1>1, <1>10 DEF Test, Loop, Return, At, AtLevel, Fixed, Base
  <2> QED
    BY <1>1, <2>1, PopNested
<1>11. ASSUME NEW i \in Irqs, Interrupt(i)
       PROVE  Nested(stack', irql')
  BY <1>1, <1>11, PushNested DEF Interrupt
<1>12. CASE CallLower
  <2>1. PICK p : p = Frame("passive", PASSIVE)
    OBVIOUS
  <2>2. PICK e : e = Frame("lower", PASSIVE)
    OBVIOUS
  <2>3. /\ p \in Frames /\ ~Serving(p) /\ p.iret = FALSE
        /\ e \in Frames /\ ~Serving(e) /\ e.iret = FALSE
    BY <2>1, <2>2, SMTT(60) DEF Frame, Frames, Places, Serving, PASSIVE
  <2>4. Len(stack) = 1
    BY <1>12, ThreadIsAlone DEF CallLower, At, IInv, Top
  <2>5. Front(stack) = <<>>
    BY <1>1, <2>4, FrontOf, SeqEmpty, SMTT(60)
  <2>6. stack' = <<p, e>>
    BY <1>12, <2>1, <2>2, <2>3, <2>5, SMTT(60) DEF CallLower
  <2>7. Len(stack') = 2 /\ stack'[1] = p /\ stack'[2] = e
    BY <2>6
  <2>8. \A j \in 1..2 : j = 1 \/ j = 2
    BY SMTT(60)
  <2> QED
    BY <2>3, <2>7, <2>8, SMTT(60) DEF Nested
<1>13. CASE stack' = stack /\ irql' = irql
  BY <1>13
<1>14. CASE UNCHANGED vars \/ \E d \in Dpcs : ThreadEnqueue(d) \/ FnEnqueue(d)
  BY <1>13, <1>14 DEF vars, ThreadEnqueue, FnEnqueue
<1> QED
  BY <1>4, <1>5, <1>6, <1>7, <1>8, <1>9, <1>10, <1>11, <1>12, <1>14, SMTT(60)
     DEF Next, Dispatcher, ThreadCode

\* Source i can have interrupted what is below frame j.
Source(s, i, j) == level[i] > s[j].to /\ (j < Len(s) => level[i] = s[j + 1].to)

\* At most one frame between the third and the top is not in its handler: the
\* one that runs the queue.
LEMMA OneOutside ==
  ASSUME NEW s, Stacked(s), NEW n, Nested(s, n), NEW j, NEW k,
         j \in 3..Len(s), k \in 3..Len(s), j < k, k < Len(s),
         ~Serving(s[j]), ~Serving(s[k])
  PROVE  FALSE
<1>1. Len(s) \in Nat /\ j \in 1..Len(s) /\ k \in 1..Len(s) /\ j < Len(s) /\ j >= 3 /\ k >= 3
  BY SMTT(60) DEF Stacked
<1>2. s[j].iret /\ s[k].iret
  BY <1>1 DEF Nested
<1>3. Open(s[j]) /\ Open(s[k]) /\ Sound(s[j]) /\ Sound(s[k]) /\ Floor(s[j], s[k].to)
  BY <1>1 DEF Stacked
<1>4. s[j] \in Frames /\ s[k] \in Frames
  BY <1>1, SMTT(60) DEF Stacked
<1>5. s[j].at \notin {"passive", "raised"} /\ s[k].at \notin {"passive", "raised"}
  BY <1>1, SMTT(60) DEF Stacked
<1>6. s[j].at \in {"dpcs", "fn", "end"} /\ s[k].at \in {"dpcs", "fn", "end"}
  BY <1>2, <1>3, <1>4, <1>5 DEF Open, Serving, Frames, Places
<1>7. s[k].to < DISPATCH /\ s[k].to >= DISPATCH /\ s[k].to \in 0..15
  BY <1>3, <1>4, <1>6 DEF Sound, Floor, Base, Frames
<1> QED
  BY <1>7, SMTT(60) DEF DISPATCH

\* Interrupts nest at most once per source, above a thread, its irql_lower and
\* the one handler that runs the queue.
LEMMA DepthBound ==
  ASSUME NEW s, Stacked(s), NEW n, Nested(s, n)
  PROVE  Len(s) \in 1..(3 + Cardinality(Irqs))
<1>1. PICK l \in Nat \ {0} : l = Len(s)
  BY SeqEmpty DEF Stacked
<1>2. IsFiniteSet(Irqs) /\ Cardinality(Irqs) \in Nat
  BY LevelAssumption, FS_CardinalityType
<1>3. CASE l < 3
  BY <1>1, <1>2, <1>3, SMTT(60)
<1>4. CASE l >= 3
  <2>1. PICK d \in 3..l : \A j \in 3..l : j # d => j = l \/ Serving(s[j])
    <3>1. CASE \A j \in 3..l : j = l \/ Serving(s[j])
      <4>1. 3 \in 3..l
        BY <1>4, SMTT(60)
      <4> QED
        BY <3>1, <4>1
    <3>2. CASE \E j \in 3..l : j # l /\ ~Serving(s[j])
      <4>1. PICK d \in 3..l : d # l /\ ~Serving(s[d])
        BY <3>2
      <4>2. ASSUME NEW j \in 3..l, j # d, j # l, ~Serving(s[j])
            PROVE  FALSE
        <5>1. (j < d \/ d < j) /\ j < l /\ d < l
          BY <4>1, <4>2, SMTT(60)
        <5> QED
          BY <1>1, <4>1, <4>2, <5>1, OneOutside
      <4> QED
        BY <4>2
    <3> QED
      BY <3>1, <3>2
  <2>2. PICK K : K = (3..l) \ {d}
    OBVIOUS
  <2>3. Cardinality(K) = l - 3
    <3>1. IsFiniteSet(3..l) /\ Cardinality(3..l) = l - 2
      BY <1>4, FS_Interval, SMTT(60)
    <3>2. Cardinality(K) = Cardinality(3..l) - 1
      BY <2>1, <2>2, <3>1, FS_RemoveElement
    <3> QED
      BY <3>1, <3>2, SMTT(60)
  <2>4. ASSUME NEW j \in K
        PROVE  \E i \in Irqs : Source(s, i, j)
    <3>1. j \in 3..l /\ j \in 1..l /\ j >= 3 /\ (j = l \/ Serving(s[j]))
      BY <2>1, <2>2, <2>4, SMTT(60)
    <3>2. CASE Serving(s[j])
      <4>1. PICK i \in Irqs : level[i] > s[j].to /\ level[i] = LevelOf(s, n, j)
        BY <1>1, <3>1, <3>2 DEF Nested
      <4>2. j < l => level[i] = s[j + 1].to
        BY <1>1, <4>1, SMTT(60) DEF LevelOf
      <4> QED
        BY <1>1, <4>1, <4>2 DEF Source
    <3>3. CASE ~Serving(s[j])
      <4>1. j = l /\ s[j].iret
        BY <1>1, <3>1, <3>3 DEF Nested
      <4>2. PICK i \in Irqs : level[i] > s[j].to
        BY <1>1, <3>1, <4>1 DEF Nested
      <4> QED
        BY <1>1, <4>1, <4>2, SMTT(60) DEF Source
    <3> QED
      BY <3>2, <3>3
  <2>5. PICK f : f = [j \in K |-> CHOOSE i \in Irqs : Source(s, i, j)]
    OBVIOUS
  <2>6. f \in [K -> Irqs] /\ \A j \in K : Source(s, f[j], j)
    BY <2>4, <2>5
  <2>7. ASSUME NEW j \in K, NEW k \in K, j < k
        PROVE  f[j] # f[k]
    <3>1. j \in 1..l /\ k \in 1..l /\ j < l /\ j + 1 \in 1..l /\ (j + 1 = k \/ j + 1 < k)
      BY <2>2, <2>7, SMTT(60)
    <3>2. level[f[j]] = s[j + 1].to /\ level[f[k]] > s[k].to
      BY <1>1, <2>6, <3>1 DEF Source
    <3>3. s[j + 1] \in Frames /\ s[k] \in Frames
      BY <1>1, <3>1, SMTT(60) DEF Stacked
    <3>4. s[j + 1].to \in Int /\ s[k].to \in Int
      BY <3>3, SMTT(60) DEF Frames
    <3>5. s[k].to >= s[j + 1].to
      <4>1. CASE j + 1 = k
        BY <3>4, <4>1, SMTT(60)
      <4>2. CASE j + 1 < k
        BY <1>1, <3>1, <4>2 DEF Stacked, Floor
      <4> QED
        BY <3>1, <4>1, <4>2
    <3>6. level[f[k]] \in Int /\ level[f[j]] \in Int
      BY <2>6, LevelAssumption, SMTT(60)
    <3> QED
      BY <3>2, <3>4, <3>5, <3>6, SMTT(60)
  <2>8. f \in Injection(K, Irqs)
    <3>1. ASSUME NEW j \in K, NEW k \in K, f[j] = f[k]
          PROVE  j = k
      <4>1. j \in Int /\ k \in Int
        BY <2>2, SMTT(60)
      <4>2. ~(j < k) /\ ~(k < j)
        BY <2>7, <3>1
      <4> QED
        BY <4>1, <4>2, SMTT(60)
    <3> QED
      BY <2>6, <3>1 DEF Injection, IsInjective
  <2>9. Cardinality(K) <= Cardinality(Irqs)
    BY <1>2, <2>8, FS_Injection
  <2> QED
    BY <1>1, <1>2, <2>3, <2>9, SMTT(60)
<1> QED
  BY <1>3, <1>4, SMTT(60)

\* The queue of DPCs, its flags and its count agree, one frame at most runs the
\* queue, and the stack is no deeper than the sources allow, for any DPCs and any
\* sources.
THEOREM QueueStaysConsistent == Spec => []QueueConsistent
<1>1. Init => Nesting
  <2> SUFFICES ASSUME Init PROVE Nested(stack, irql)
    BY DEF Nesting
  <2>1. PICK e : e = Frame("passive", PASSIVE)
    OBVIOUS
  <2>2. ~Serving(e) /\ e.iret = FALSE
    BY <2>1 DEF Frame, Serving
  <2>3. stack = <<e>> /\ Len(stack) = 1 /\ stack[1] = e
    BY <2>1 DEF Init
  <2>4. \A j \in 1..1 : j = 1
    BY SMTT(60)
  <2> QED
    BY <2>2, <2>3, <2>4, SMTT(60) DEF Nested
<1>2. IInv /\ Nesting => QueueConsistent
  <2> SUFFICES ASSUME IInv, Nested(stack, irql) PROVE QueueConsistent
    BY DEF Nesting
  <2>1. Queue /\ Stacked(stack) /\ Registers /\ Announced(stack)
    BY DEF IInv
  <2>2. stack \in Seq(Frames) /\ DOMAIN stack = 1..Len(stack) /\ Len(stack) \in Depths
    BY <2>1, DepthBound, SMTT(60) DEF Stacked, Depths
  <2>3. dpcq \in Seq(Dpcs) /\ Len(dpcq) \in Nat /\ DOMAIN dpcq = 1..Len(dpcq)
    BY <2>1, SMTT(60) DEF Queue
  <2>4. enqueued = Range(dpcq) /\ enqueued \in SUBSET Dpcs
    BY <2>1, <2>3, SMTT(60) DEF Queue, Range
  <2>5. TypeOK
    BY <2>1, <2>2, <2>3, <2>4 DEF TypeOK, Registers, Queue, Frames
  <2>6. Cardinality(enqueued) = Len(dpcq)
    <3>1. dpcq \in [1..Len(dpcq) -> Range(dpcq)]
      BY <2>3, SMTT(60) DEF Range
    <3>2. \A i, j \in 1..Len(dpcq) : dpcq[i] = dpcq[j] => i = j
      BY <2>1 DEF Queue
    <3>3. dpcq \in Bijection(1..Len(dpcq), Range(dpcq))
      BY <2>3, <3>1, <3>2 DEF Bijection, Injection, Surjection, IsInjective, Range
    <3>4. IsFiniteSet(1..Len(dpcq)) /\ Cardinality(1..Len(dpcq)) = Len(dpcq)
      BY <2>3, FS_Interval, SMTT(60)
    <3>5. ExistsBijection(1..Len(dpcq), Range(dpcq))
      BY <3>3 DEF ExistsBijection
    <3>6. Cardinality(Range(dpcq)) = Cardinality(1..Len(dpcq))
      BY <3>4, <3>5, FS_Bijection
    <3> QED
      BY <2>4, <3>4, <3>6
  <2>7. \A i, j \in Draining : i = j
    <3> SUFFICES ASSUME NEW i \in Draining, NEW j \in Draining, i < j
                 PROVE  FALSE
      <4>1. \A i \in Draining : i \in Int
        BY <2>2, SMTT(60) DEF Draining
      <4> QED
        BY <4>1, SMTT(60)
    <3>1. /\ i \in 1..Len(stack) /\ stack[i].at \in {"dpcs", "fn"}
          /\ j \in 1..Len(stack) /\ stack[j].at \in {"dpcs", "fn"}
      BY <2>2 DEF Draining
    <3>2. Sound(stack[j]) /\ Floor(stack[i], stack[j].to) /\ stack[j] \in Frames
      BY <2>1, <3>1, SMTT(60) DEF Stacked
    <3>3. stack[j].to < DISPATCH /\ stack[j].to >= DISPATCH /\ stack[j].to \in 0..15
      BY <3>1, <3>2 DEF Sound, Floor, Base, Frames
    <3> QED
      BY <3>3, SMTT(60) DEF DISPATCH
  <2>8. Cardinality(Draining) <= 1
    <3>1. CASE Draining = {}
      BY <3>1, FS_EmptySet, SMTT(60)
    <3>2. CASE Draining # {}
      <4>1. PICK x : Draining = {x}
        BY <2>7, <3>2, SMTT(60)
      <4> QED
        BY <4>1, FS_Singleton, SMTT(60)
    <3> QED
      BY <3>1, <3>2
  <2>9. dpcq # <<>> => DISPATCH \in pending \/ Draining # {}
    BY <2>1, <2>2 DEF Announced, Draining
  <2> QED
    BY <2>1, <2>4, <2>5, <2>6, <2>8, <2>9 DEF QueueConsistent, Queue
<1>3. IInv /\ Nesting /\ [Next]_vars => Nesting'
  BY StepNested DEF Nesting
<1> QED
  BY <1>1, <1>2, <1>3, Inductive, PTL DEF Spec
=============================================================================
