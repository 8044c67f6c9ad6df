----------------------------- MODULE LogProofs -----------------------------
(***************************************************************************)
(* For any number of processors, consoles and messages: every console      *)
(* shows messages in the order printk accepted them, nothing accepted is   *)
(* missing from a console but what met a locked list, and only a change of *)
(* the list or a panic can lock it.                                        *)
(***************************************************************************)
EXTENDS Log, TLAPS

\* Steps are by Zenon, but those that cite the SMT solver.
USE ZenonT(60)

-----------------------------------------------------------------------------
(* Sequences.                                                              *)

\* A sequence is a function on the numbers up to its length.
LEMMA SeqLength ==
  ASSUME NEW S, NEW s \in Seq(S)
  PROVE  Len(s) \in Nat /\ s \in [1..Len(s) -> S] /\ DOMAIN s = 1..Len(s)
BY SMTT(60)

\* Its elements are in the set.
LEMMA SeqElement ==
  ASSUME NEW S, NEW s \in Seq(S), NEW i \in 1..Len(s)
  PROVE  s[i] \in S
BY SMTT(60)

\* Such a function is a sequence.
LEMMA SeqFunction ==
  ASSUME NEW S, NEW n \in Nat, NEW f \in [1..n -> S]
  PROVE  f \in Seq(S) /\ Len(f) = n
BY SMTT(60)

\* Only the empty sequence has length zero.
LEMMA SeqEmpty ==
  ASSUME NEW S
  PROVE  <<>> \in Seq(S) /\ Len(<<>>) = 0 /\ \A s \in Seq(S) : s # <<>> => Len(s) \in Nat \ {0}
BY SMTT(60)

\* What is left when the first element is taken.
LEMMA SeqHeadTail ==
  ASSUME NEW S, NEW s \in Seq(S), s # <<>>
  PROVE  /\ Head(s) \in S /\ Tail(s) \in Seq(S) /\ Len(Tail(s)) = Len(s) - 1
         /\ \A i \in 1..Len(Tail(s)) : Tail(s)[i] = s[i + 1]
BY SMTT(60)

\* What is where when an element is put at the end.
LEMMA SeqAppend ==
  ASSUME NEW S, NEW s \in Seq(S), NEW e \in S
  PROVE  /\ Append(s, e) \in Seq(S) /\ Append(s, e) # <<>> /\ Len(Append(s, e)) = Len(s) + 1
         /\ Append(s, e)[Len(s) + 1] = e
         /\ \A i \in 1..Len(s) : Append(s, e)[i] = s[i]
BY SMTT(60)

\* What is where when two sequences are joined.
LEMMA SeqConcat ==
  ASSUME NEW S, NEW s \in Seq(S), NEW t \in Seq(S)
  PROVE  /\ s \o t \in Seq(S) /\ Len(s \o t) = Len(s) + Len(t)
         /\ \A i \in 1..(Len(s) + Len(t)) :
              (s \o t)[i] = IF i <= Len(s) THEN s[i] ELSE t[i - Len(s)]
BY SMTT(60)

-----------------------------------------------------------------------------
ListCalls == {"console_add", "console_remove"}
Fns == {"printk", "consoles_write", "hcf"} \cup ListCalls
Places == {"run", "drain", "each", "write"} \cup Fns

Msgs == [by : CPUs \cup Consoles \cup {NoOwner}, id : Int, lvl : Int, size : Int]

TypeOK ==
  /\ lock \in [Locks -> CPUs \cup {NoOwner}]
  /\ messages \in [0..(Slots - 1) -> Msgs]
  /\ head \in 0..(Slots - 1) /\ tail \in 0..(Slots - 1)
  /\ list \in Seq(Consoles)
  /\ pc \in [CPUs -> Places]
  /\ todo \in [CPUs -> Seq([fn : Fns, msg : Msgs])]
  /\ msg \in [CPUs -> Msgs]
  /\ at \in [CPUs -> Nat \ {0}]
  /\ calls \in [printk : Nat, panic : Nat, console : Nat]
  /\ screen \in [Consoles -> Seq(Msgs)]
  /\ accepted \in Seq(Msgs)
  /\ since \in [Consoles -> Nat]

\* What is handed to the consoles past printk is the picture of a panic, and a
\* change of the list is the only thing its thread has to do.
TodoOK(c) ==
  \A i \in DOMAIN todo[c] :
    /\ todo[c][i].fn = "consoles_write" => todo[c][i].msg.id = 0
    /\ todo[c][i].fn \in ListCalls => i = 1 /\ todo[c][i].msg.by \in Consoles

\* A processor inside a function is in the call at the front of its list.
CallOK(c) ==
  pc[c] # "run" =>
    /\ todo[c] # <<>>
    /\ pc[c] \in {"printk", "drain"} => Head(todo[c]).fn = "printk"
    /\ pc[c] \in {"consoles_write", "each", "write"} =>
         \/ Head(todo[c]).fn = "printk"
         \/ Head(todo[c]).fn = "consoles_write" /\ msg[c].id = 0
    /\ pc[c] \in ListCalls => Head(todo[c]).fn = pc[c] /\ msg[c] = Head(todo[c]).msg

\* The processor is between the write to the ring and the end of printk.
Printing(c) ==
  pc[c] \in {"drain", "consoles_write", "each", "write"} /\ Head(todo[c]).fn = "printk"

\* Who holds which lock.
LocksOK(c) ==
  /\ Printing(c) => lock["print_lock"] = c
  /\ pc[c] \in {"each", "write"} => lock["console_list_lock"] = c
  /\ lock["console_list_lock"] = c => pc[c] \in {"each", "write"} \cup ListCalls
  /\ pc[c] = "write" => at[c] <= Len(list)
  /\ pc[c] \notin {"each", "write"} => at[c] = 1

\* No console is in the list twice, and a change of the list finds it as it
\* was when it was asked for.
ListOK ==
  /\ IsInjective(list)
  /\ \A c \in CPUs : ChangesList(c) =>
       /\ Head(todo[c]).fn = "console_remove" <=> Head(todo[c]).msg.by \in Range(list)
       /\ \A d \in CPUs : ChangesList(d) => c = d

\* The ring holds at most the message accepted last, and only until the printk
\* that wrote it hands it to the consoles.
RingOK ==
  /\ lock["print_lock"] = NoOwner => head = tail
  /\ \A c \in CPUs : Printing(c) =>
       \/ pc[c] = "drain" /\ head = tail
       \/ /\ pc[c] = "drain" /\ head # tail /\ head = (tail + 1) % Slots
          /\ accepted # <<>> /\ messages[tail] = accepted[Len(accepted)]
       \/ /\ pc[c] # "drain" /\ head = tail
          /\ accepted # <<>> /\ msg[c] = accepted[Len(accepted)]

\* Processor c has still to give the message accepted last to console k.
Pending(c, k) ==
  /\ Printing(c)
  /\ \/ pc[c] = "drain" /\ head # tail
     \/ pc[c] = "consoles_write"
     \/ pc[c] \in {"each", "write"} /\ \E j \in at[c]..Len(list) : list[j] = k

\* Console k shows nothing that came after the first n messages accepted.
Older(k, n) ==
  \A i \in DOMAIN screen[k] : Through(screen[k][i]) =>
    \E m \in 1..n : accepted[m] = screen[k][i]

Ordered(k) ==
  \A i, j \in DOMAIN screen[k] :
    i < j /\ Through(screen[k][i]) /\ Through(screen[k][j]) =>
      \E n, o \in DOMAIN accepted :
        n < o /\ accepted[n] = screen[k][i] /\ accepted[o] = screen[k][j]

OrderOK ==
  \A k \in Consoles :
    /\ Older(k, Len(accepted)) /\ Ordered(k)
    /\ \A c \in CPUs : Pending(c, k) => Older(k, Len(accepted) - 1)

\* What was accepted since a console was added is on it, was dropped, or is on
\* its way.
ArrivesOK ==
  \A k \in Range(list) \cap Writable : \A i \in (since[k] + 1)..Len(accepted) :
    \/ accepted[i] \in Range(screen[k]) \cup dropped
    \/ i = Len(accepted) /\ \E c \in CPUs : Pending(c, k)

IInv ==
  /\ TypeOK
  /\ \A c \in CPUs : TodoOK(c) /\ CallOK(c) /\ LocksOK(c)
  /\ ListOK /\ RingOK /\ OrderOK /\ ArrivesOK

-----------------------------------------------------------------------------
(* What the actions have in common.                                        *)

\* The two locks of log.c are locks, and neither is the lock of a console.
LEMMA TwoLocks ==
  /\ "print_lock" \in Locks /\ "console_list_lock" \in Locks /\ Consoles \subseteq Locks
  /\ \A k \in Consoles : k # "print_lock" /\ k # "console_list_lock"
BY LogAssumption DEF Locks

\* The first of a sequence that is not empty.
LEMMA FirstOf ==
  ASSUME NEW S, NEW s \in Seq(S), s # <<>>
  PROVE  Head(s) = s[1] /\ 1 \in DOMAIN s /\ Head(s) \in S /\ Len(s) \in Nat \ {0}
BY SeqEmpty, SeqHeadTail, SeqLength, SMTT(60)

\* A sequence whose elements are in a set is a sequence over that set.
LEMMA SeqOver ==
  ASSUME NEW R, NEW G, NEW s \in Seq(R), \A i \in 1..Len(s) : s[i] \in G
  PROVE  s \in Seq(G)
<1>1. Len(s) \in Nat /\ DOMAIN s = 1..Len(s) /\ s \in [1..Len(s) -> R]
  BY SeqLength
<1>2. s \in [1..Len(s) -> G]
  BY <1>1
<1> QED
  BY <1>1, <1>2, SeqFunction

\* What comes first when something is put in front.
LEMMA ConcatFirst ==
  ASSUME NEW S, NEW a \in Seq(S), NEW b \in Seq(S), a # <<>>
  PROVE  a \o b \in Seq(S) /\ a \o b # <<>> /\ (a \o b)[1] = a[1]
<1>1. Len(a) \in Nat \ {0} /\ Len(b) \in Nat
  BY SeqLength, SeqEmpty
<1>2. a \o b \in Seq(S) /\ Len(a \o b) = Len(a) + Len(b) /\ (a \o b)[1] = a[1]
  BY <1>1, SeqConcat, SMTT(60)
<1> QED
  BY <1>1, <1>2, SeqEmpty, SMTT(60)

\* A processor that a step leaves alone, with its locks, is where it was.
LEMMA OtherKept ==
  ASSUME IInv, NEW d \in CPUs,
         pc'[d] = pc[d], todo'[d] = todo[d], msg'[d] = msg[d], at'[d] = at[d],
         lock["print_lock"] = d => lock'["print_lock"] = d,
         lock'["console_list_lock"] = d <=> lock["console_list_lock"] = d,
         pc[d] = "write" => Len(list') = Len(list)
  PROVE  TodoOK(d)' /\ CallOK(d)' /\ LocksOK(d)' /\ (Printing(d)' <=> Printing(d))
<1>1. TodoOK(d)'
  <2>a. TodoOK(d)
    BY DEF IInv
  <2> QED
    BY <2>a, SMTT(60) DEF TodoOK
<1>2. CallOK(d)'
  BY DEF IInv, CallOK
<1>3. Printing(d)' <=> Printing(d)
  BY DEF Printing
<1>4. LocksOK(d)'
  BY <1>3 DEF IInv, LocksOK
<1> QED
  BY <1>1, <1>2, <1>3, <1>4

\* A step that writes to no console, accepts no message and has nothing new to
\* deliver keeps the order.
LEMMA OrderKept ==
  ASSUME OrderOK, screen' = screen, accepted' = accepted,
         \A c \in CPUs, k \in Consoles : Pending(c, k)' => Pending(c, k)
  PROVE  OrderOK'
<1>1. \A k : \A n : Older(k, n)' <=> Older(k, n)
  BY DEF Older
<1>2. \A k : Ordered(k)' <=> Ordered(k)
  BY SMTT(60) DEF Ordered
<1> QED
  BY <1>1, <1>2 DEF OrderOK

\* What was to be delivered is still to be delivered, or has just been dropped.
LEMMA ArrivesKept ==
  ASSUME TypeOK, ArrivesOK, screen' = screen, accepted' = accepted, since' = since,
         list' = list, dropped \subseteq dropped',
         \A c \in CPUs, k \in Consoles :
           Pending(c, k) /\ k \in Range(list) \cap Writable =>
             Pending(c, k)' \/ accepted[Len(accepted)] \in dropped'
  PROVE  ArrivesOK'
<1> SUFFICES ASSUME NEW k \in Range(list) \cap Writable, NEW i \in (since[k] + 1)..Len(accepted)
             PROVE  \/ accepted[i] \in Range(screen[k]) \cup dropped'
                    \/ i = Len(accepted) /\ \E c \in CPUs : Pending(c, k)'
  BY DEF ArrivesOK
<1>1. k \in Consoles
  BY LogAssumption
<1>2. \/ accepted[i] \in Range(screen[k]) \cup dropped
      \/ i = Len(accepted) /\ \E c \in CPUs : Pending(c, k)
  BY DEF ArrivesOK
<1> QED
  BY <1>1, <1>2

-----------------------------------------------------------------------------
(* The calls of thread code.                                               *)

\* A new list of calls for a thread that had none.
LEMMA CallIInv ==
  ASSUME IInv, NEW c \in CPUs, Idle(c),
         NEW s \in Seq([fn : Fns, msg : Msgs]), todo' = [todo EXCEPT ![c] = s],
         \A i \in DOMAIN s :
           /\ s[i].fn = "consoles_write" => s[i].msg.id = 0
           /\ s[i].fn \in ListCalls => i = 1 /\ s[i].msg.by \in Consoles,
         s # <<>>,
         Head(s).fn \in ListCalls =>
           /\ \A d \in CPUs : ~ChangesList(d)
           /\ Head(s).fn = "console_remove" <=> Head(s).msg.by \in Range(list),
         calls' \in [printk : Nat, panic : Nat, console : Nat],
         UNCHANGED <<lock, messages, head, tail, list, pc, msg, at, screen,
                     accepted, dropped, since>>
  PROVE  IInv'
<1>1. TypeOK'
  BY DEF IInv, TypeOK
<1>2. /\ pc[c] = "run" /\ todo'[c] = s
      /\ \A d \in CPUs : d # c => todo'[d] = todo[d]
  BY DEF Idle, IInv, TypeOK
<1>3. ASSUME NEW d \in CPUs, d # c
      PROVE  TodoOK(d)' /\ CallOK(d)' /\ LocksOK(d)' /\ (Printing(d)' <=> Printing(d))
  BY <1>2, <1>3, OtherKept
<1>4. ~Printing(c) /\ ~Printing(c)'
  BY <1>2 DEF Printing
<1>5. TodoOK(c)' /\ CallOK(c)' /\ LocksOK(c)'
  <2>a. LocksOK(c)
    BY DEF IInv
  <2> QED
    BY <1>2, <1>4, <2>a, SMTT(60) DEF TodoOK, CallOK, LocksOK
<1>6. ListOK'
  <2>1. \A d \in CPUs : d # c => (ChangesList(d)' <=> ChangesList(d))
    BY <1>2 DEF ChangesList
  <2>2. ChangesList(c)' <=> Head(s).fn \in ListCalls
    BY <1>2 DEF ChangesList, ListCalls
  <2> QED
    <3>a. ListOK
      BY DEF IInv
    <3> QED
      BY <1>2, <2>1, <2>2, <3>a, SMTT(60) DEF ListOK
<1>7. \A d \in CPUs : Printing(d)' <=> Printing(d)
  BY <1>3, <1>4
<1>8. RingOK'
  BY <1>7 DEF IInv, RingOK
<1>9. \A d \in CPUs, k \in Consoles : Pending(d, k)' <=> Pending(d, k)
  BY <1>7 DEF Pending
<1>10. OrderOK' /\ ArrivesOK'
  BY <1>9, OrderKept, ArrivesKept DEF IInv
<1> QED
  BY <1>1, <1>3, <1>5, <1>6, <1>8, <1>10 DEF IInv

\* The counters of calls count.
LEMMA CountKept ==
  ASSUME TypeOK, \/ calls' = [calls EXCEPT !.printk = calls.printk + 1]
                 \/ calls' = [calls EXCEPT !.panic = calls.panic + 1]
                 \/ calls' = [calls EXCEPT !.console = calls.console + 1]
  PROVE  calls' \in [printk : Nat, panic : Nat, console : Nat]
<1>1. calls \in [printk : Nat, panic : Nat, console : Nat]
  BY DEF TypeOK
<1> QED
  BY <1>1, SMTT(60)

\* A call of printk.
LEMMA CallPrintkIInv ==
  ASSUME IInv, NEW c \in CPUs, CallPrintk(c)
  PROVE  IInv'
<1>1. PICK lvl \in Levels, size \in Sizes :
        todo' = [todo EXCEPT ![c] =
                   <<Call("printk", Message(c, calls.printk + 1, lvl, size))>>]
  BY DEF CallPrintk
<1> DEFINE m == Message(c, calls.printk + 1, lvl, size)
           s == <<Call("printk", m)>>
<1>2. m \in Msgs
  BY LogAssumption, SMTT(60) DEF IInv, TypeOK, Msgs, Message
<1>3. calls' \in [printk : Nat, panic : Nat, console : Nat]
  BY CountKept DEF CallPrintk, IInv
<1> HIDE DEF m
<1>4. /\ s \in Seq([fn : Fns, msg : Msgs]) /\ s # <<>> /\ Head(s).fn = "printk"
      /\ DOMAIN s = {1} /\ s[1].fn = "printk"
  BY <1>2, SMTT(60) DEF Call, Fns
<1>5. todo' = [todo EXCEPT ![c] = s]
  BY <1>1 DEF m
<1> HIDE DEF s
<1> QED
  BY <1>3, <1>4, <1>5, CallIInv DEF CallPrintk, ListCalls

\* The calls of a panic.
LEMMA PanicCalls ==
  ASSUME NEW c \in CPUs
  PROVE  /\ Panic(c) \in Seq([fn : Fns, msg : Msgs])
         /\ Len(Panic(c)) = 3
         /\ Panic(c)[1].fn = "consoles_write" /\ Panic(c)[1].msg.id = 0
         /\ Panic(c)[2].fn = "printk" /\ Panic(c)[3].fn = "hcf"
<1>1. /\ Message(c, 0, 0, 1) \in Msgs /\ Message(c, 0, 0, 1).id = 0
      /\ Message(c, -1, 7, 1) \in Msgs /\ NoMsg \in Msgs
  BY SMTT(60) DEF Message, Msgs, NoMsg
<1> QED
  BY <1>1, SMTT(60) DEF Panic, Call, Fns

\* A panic of thread code.
LEMMA CallPanicIInv ==
  ASSUME IInv, NEW c \in CPUs, CallPanic(c)
  PROVE  IInv'
<1>1. calls' \in [printk : Nat, panic : Nat, console : Nat]
  BY CountKept DEF CallPanic, IInv
<1>2. \A i \in DOMAIN Panic(c) :
        /\ Panic(c)[i].fn = "consoles_write" => Panic(c)[i].msg.id = 0
        /\ Panic(c)[i].fn \notin ListCalls
  BY PanicCalls, SMTT(60) DEF ListCalls
<1>3. Panic(c) # <<>> /\ Head(Panic(c)).fn \notin ListCalls
  BY PanicCalls, SMTT(60) DEF ListCalls
<1> QED
  BY <1>1, <1>2, <1>3, PanicCalls, CallIInv DEF CallPanic

\* A call of console_add or console_remove, while no other is going on.
LEMMA CallConsoleIInv ==
  ASSUME IInv, NEW c \in CPUs, CallConsole(c)
  PROVE  IInv'
<1>1. PICK k \in Pluggable :
        todo' = [todo EXCEPT ![c] =
                   <<Call(IF k \in Range(list) THEN "console_remove" ELSE "console_add",
                          Message(k, 0, 0, 0))>>]
  BY DEF CallConsole
<1> DEFINE m == Message(k, 0, 0, 0)
           f == IF k \in Range(list) THEN "console_remove" ELSE "console_add"
           s == <<Call(f, m)>>
<1>2. m \in Msgs /\ m.by = k /\ k \in Consoles
  BY LogAssumption, SMTT(60) DEF Msgs, Message
<1>3. calls' \in [printk : Nat, panic : Nat, console : Nat]
  BY CountKept DEF CallConsole, IInv
<1>4. f \in ListCalls /\ f \in Fns /\ (f = "console_remove" <=> k \in Range(list))
  BY DEF ListCalls, Fns
<1> HIDE DEF m, f
<1>5. /\ s \in Seq([fn : Fns, msg : Msgs]) /\ s # <<>> /\ Head(s) = [fn |-> f, msg |-> m]
      /\ DOMAIN s = {1} /\ s[1] = [fn |-> f, msg |-> m]
  BY <1>2, <1>4, SMTT(60) DEF Call
<1>6. todo' = [todo EXCEPT ![c] = s]
  BY <1>1 DEF m, f
<1> HIDE DEF s
<1>7. \A i \in DOMAIN s :
        /\ s[i].fn = "consoles_write" => s[i].msg.id = 0
        /\ s[i].fn \in ListCalls => i = 1 /\ s[i].msg.by \in Consoles
  BY <1>2, <1>4, <1>5, SMTT(60) DEF ListCalls
<1> QED
  <2>1. Head(s).fn = f /\ Head(s).msg.by = k
    BY <1>2, <1>5, SMTT(60)
  <2>2. \A d \in CPUs : ~ChangesList(d)
    BY DEF CallConsole
  <2>3. Idle(c) /\ UNCHANGED <<lock, messages, head, tail, list, pc, msg, at, screen,
                              accepted, dropped, since>>
    BY DEF CallConsole
  <2> QED
    BY <1>3, <1>4, <1>5, <1>6, <1>7, <2>1, <2>2, <2>3, CallIInv

-----------------------------------------------------------------------------
(* printk.                                                                 *)

\* The end of a call: the next one is not a change of the list.
LEMMA ReturnKept ==
  ASSUME IInv, NEW c \in CPUs, Return(c), todo[c] # <<>>
  PROVE  /\ pc' \in [CPUs -> Places] /\ msg' \in [CPUs -> Msgs]
         /\ todo' \in [CPUs -> Seq([fn : Fns, msg : Msgs])]
         /\ pc'[c] = "run"
         /\ \A d \in CPUs : d # c => pc'[d] = pc[d] /\ todo'[d] = todo[d] /\ msg'[d] = msg[d]
         /\ TodoOK(c)' /\ CallOK(c)' /\ ~ChangesList(c)' /\ ~Printing(c)'
<1>1. /\ todo[c] \in Seq([fn : Fns, msg : Msgs]) /\ NoMsg \in Msgs
      /\ todo'[c] = Tail(todo[c]) /\ pc'[c] = "run"
  <2>1. NoMsg \in Msgs
    BY SMTT(60) DEF NoMsg, Msgs
  <2> QED
    BY <2>1 DEF IInv, TypeOK, Return
<1>2. /\ Tail(todo[c]) \in Seq([fn : Fns, msg : Msgs])
      /\ Len(Tail(todo[c])) = Len(todo[c]) - 1
      /\ Len(todo[c]) \in Nat
      /\ \A i \in 1..Len(Tail(todo[c])) : Tail(todo[c])[i] = todo[c][i + 1]
  BY <1>1, SeqHeadTail, SeqLength
<1>3. /\ pc' \in [CPUs -> Places] /\ msg' \in [CPUs -> Msgs]
      /\ todo' \in [CPUs -> Seq([fn : Fns, msg : Msgs])]
      /\ \A d \in CPUs : d # c => pc'[d] = pc[d] /\ todo'[d] = todo[d] /\ msg'[d] = msg[d]
  BY <1>1, <1>2 DEF IInv, TypeOK, Return, Places
<1>4. \A i \in DOMAIN todo'[c] :
        i + 1 \in DOMAIN todo[c] /\ i + 1 # 1 /\ todo'[c][i] = todo[c][i + 1]
  BY <1>1, <1>2, SMTT(60)
<1>5. TodoOK(c)' /\ \A i \in DOMAIN todo'[c] : todo'[c][i].fn \notin ListCalls
  <2>a. TodoOK(c)
    BY DEF IInv
  <2> QED
    BY <1>4, <2>a, SMTT(60) DEF TodoOK
<1>6. ~ChangesList(c)'
  <2>1. todo'[c] # <<>> => 1 \in DOMAIN todo'[c] /\ Head(todo'[c]) = todo'[c][1]
    BY <1>1, <1>2, SeqEmpty, SMTT(60)
  <2> QED
    BY <1>5, <2>1 DEF ChangesList, ListCalls
<1>7. CallOK(c)' /\ ~Printing(c)'
  BY <1>1 DEF CallOK, Printing
<1> QED
  BY <1>1, <1>3, <1>5, <1>6, <1>7

\* A step of a processor that is outside printk's critical section and leaves
\* locks, ring, list and consoles alone.
LEMMA LocalIInv ==
  ASSUME IInv, NEW c \in CPUs, TypeOK',
         UNCHANGED <<lock, messages, head, tail, list, screen, accepted, since>>,
         dropped \subseteq dropped',
         \A d \in CPUs : d # c => /\ pc'[d] = pc[d] /\ todo'[d] = todo[d]
                                  /\ msg'[d] = msg[d] /\ at'[d] = at[d],
         TodoOK(c)', CallOK(c)', LocksOK(c)', ~Printing(c), ~Printing(c)',
         ChangesList(c)' => ChangesList(c) /\ todo'[c] = todo[c]
  PROVE  IInv'
<1>1. ASSUME NEW d \in CPUs, d # c
      PROVE  TodoOK(d)' /\ CallOK(d)' /\ LocksOK(d)' /\ (Printing(d)' <=> Printing(d))
  BY <1>1, OtherKept
<1>2. \A d \in CPUs : Printing(d)' <=> d # c /\ Printing(d)
  BY <1>1
<1>3. ListOK'
  <2>1. \A d \in CPUs : ChangesList(d)' => ChangesList(d) /\ todo'[d] = todo[d]
    BY DEF ChangesList
  <2> QED
    <3>a. ListOK
      BY DEF IInv
    <3> QED
      BY <2>1, <3>a, SMTT(60) DEF ListOK
<1>4. RingOK'
  <2>a. RingOK
    BY DEF IInv
  <2> QED
    BY <1>2, <2>a, SMTT(60) DEF RingOK
<1>5. \A d \in CPUs, k \in Consoles : Pending(d, k)' <=> Pending(d, k)
  BY <1>2, SMTT(60) DEF Pending
<1>6. OrderOK' /\ ArrivesOK'
  BY <1>5, OrderKept, ArrivesKept DEF IInv
<1> QED
  BY <1>1, <1>3, <1>4, <1>6 DEF IInv

\* Entry of a call, or the early return of printk.
LEMMA EnterIInv ==
  ASSUME IInv, NEW c \in CPUs, Enter(c)
  PROVE  IInv'
<1> DEFINE f == Head(todo[c])
<1>1. /\ pc[c] = "run" /\ todo[c] # <<>> /\ ~Printing(c)
      /\ UNCHANGED <<lock, messages, head, tail, list, at, calls, screen,
                     accepted, dropped, since>>
  BY DEF Enter, Printing
<1>2. /\ f = todo[c][1] /\ 1 \in DOMAIN todo[c] /\ f \in [fn : Fns, msg : Msgs]
  <2>1. todo[c] \in Seq([fn : Fns, msg : Msgs])
    BY DEF IInv, TypeOK
  <2> QED
    BY <1>1, <2>1, FirstOf
<1>3. at[c] = 1 /\ lock["console_list_lock"] # c
  BY <1>1 DEF IInv, LocksOK, ListCalls
<1>4. CASE Return(c)
  <2>1. TypeOK'
    BY <1>1, <1>4, ReturnKept DEF IInv, TypeOK
  <2>2. LocksOK(c)'
    BY <1>1, <1>3, <1>4, ReturnKept DEF LocksOK
  <2> QED
    BY <1>1, <1>4, <2>1, <2>2, ReturnKept, LocalIInv
<1>5. CASE /\ pc' = [pc EXCEPT ![c] = f.fn]
           /\ msg' = [msg EXCEPT ![c] = f.msg]
           /\ UNCHANGED todo
  <2>1. TypeOK'
    BY <1>1, <1>2, <1>5 DEF IInv, TypeOK, Places
  <2>2. /\ pc'[c] = f.fn /\ msg'[c] = f.msg
        /\ \A d \in CPUs : d # c => pc'[d] = pc[d] /\ msg'[d] = msg[d]
    BY <1>5 DEF IInv, TypeOK
  <2>3. TodoOK(c) /\ (f.fn = "consoles_write" => f.msg.id = 0)
    <3>a. TodoOK(c)
      BY DEF IInv
    <3> QED
      BY <1>2, <3>a, SMTT(60) DEF TodoOK
  <2>4. TodoOK(c)'
    BY <1>5, <2>3 DEF TodoOK
  <2>5. f.fn \in Fns /\ f.fn \notin {"each", "write", "drain", "run"}
    BY <1>2 DEF Fns, ListCalls
  <2>6. CallOK(c)'
    BY <1>1, <1>5, <2>2, <2>3, <2>5 DEF CallOK
  <2>7. ~Printing(c)'
    BY <1>5, <2>2, <2>5 DEF Printing
  <2>8. LocksOK(c)'
    BY <1>1, <1>3, <2>2, <2>5, <2>7 DEF LocksOK
  <2>9. ChangesList(c)' => ChangesList(c)
    BY <1>5 DEF ChangesList
  <2> QED
    BY <1>1, <1>5, <2>1, <2>2, <2>4, <2>6, <2>7, <2>8, <2>9, LocalIInv
<1> QED
  BY <1>4, <1>5 DEF Enter

\* A list of calls that did not change is still the list of calls it was.
LEMMA ListKept ==
  ASSUME ListOK, list' = list,
         \A d \in CPUs : ChangesList(d)' => ChangesList(d) /\ todo'[d] = todo[d]
  PROVE  ListOK'
BY DEF ListOK

\* The next place in the ring, which is another one.
LEMMA NextSlot ==
  \A i \in 0..(Slots - 1) : (i + 1) % Slots \in 0..(Slots - 1) /\ (i + 1) % Slots # i
BY LogAssumption, SMTT(60)

\* Nobody is printing while print_lock is free.
LEMMA NobodyPrints ==
  ASSUME IInv, lock["print_lock"] = NoOwner
  PROVE  \A d \in CPUs : ~Printing(d)
BY LogAssumption DEF IInv, LocksOK

\* The calls that a failed assertion puts in front of what was to be done.
LEMMA AssertCalls ==
  ASSUME IInv, NEW c \in CPUs, todo[c] # <<>>, Head(todo[c]).fn \notin ListCalls,
         NEW s, s = AssertFail(c) \o Tail(todo[c])
  PROVE  /\ s \in Seq([fn : Fns, msg : Msgs]) /\ s # <<>> /\ Head(s).fn = "printk"
         /\ \A i \in DOMAIN s :
              /\ s[i].fn = "consoles_write" => s[i].msg.id = 0
              /\ s[i].fn \notin ListCalls
<1> DEFINE R == [fn : Fns, msg : Msgs]
           G == {r \in R : (r.fn = "consoles_write" => r.msg.id = 0) /\ r.fn \notin ListCalls}
           p == Call("printk", Message(c, -2, 6, 1))
           t == Tail(todo[c])
<1>1. todo[c] \in Seq(R)
  BY DEF IInv, TypeOK
<1>2. p \in R /\ p.fn = "printk"
  <2>1. Message(c, -2, 6, 1) \in Msgs
    <3> HIDE DEF R, G, p, t
    <3> QED
      BY SMTT(60) DEF Message, Msgs
  <2> QED
    BY <2>1 DEF Call, Fns
<1>3. /\ t \in Seq(R) /\ Len(t) = Len(todo[c]) - 1 /\ Len(todo[c]) \in Nat
      /\ \A i \in 1..Len(t) : t[i] = todo[c][i + 1]
  BY <1>1, SeqHeadTail, SeqLength
<1>4. \A i \in 1..Len(t) : t[i] \in G
  <2>1. \A i \in 1..Len(t) : t[i] \in R /\ i + 1 \in DOMAIN todo[c] /\ i + 1 # 1
    <3> HIDE DEF R, G, p, t
    <3>1. DOMAIN todo[c] = 1..Len(todo[c])
      BY <1>1, SeqLength
    <3>2. \A i \in 1..Len(t) : t[i] \in R
      BY <1>3, SeqElement
    <3> QED
      BY <1>3, <3>1, <3>2, SMTT(60)
  <2> QED
    <3>a. TodoOK(c)
      BY DEF IInv
    <3> QED
      BY <1>3, <2>1, <3>a, SMTT(60) DEF TodoOK
<1>5. p \in G /\ s = (<<p>> \o Panic(c)) \o t
  BY <1>2 DEF AssertFail, ListCalls
<1> HIDE DEF p, t
<1>6. Panic(c) \in Seq(G)
  <2>1. /\ Panic(c) \in Seq(R) /\ DOMAIN Panic(c) = 1..3
        /\ \A i \in 1..3 : Panic(c)[i] \in R
    BY PanicCalls, SeqElement, SeqLength, ZenonT(60)
  <2>2. \A i \in 1..3 : Panic(c)[i] \in G
    BY <2>1, PanicCalls, SMTT(60) DEF ListCalls
  <2> HIDE DEF G, R
  <2> QED
    BY <2>1, <2>2, PanicCalls, SeqOver
<1>7. t \in Seq(G)
  <2> HIDE DEF G, R
  <2> QED
    BY <1>3, <1>4, SeqOver
<1> HIDE DEF G
<1>8. <<p>> \in Seq(G) /\ <<p>> # <<>> /\ <<p>>[1] = p
  BY <1>5, SMTT(60)
<1> DEFINE a == <<p>> \o Panic(c)
<1>9. a \in Seq(G) /\ a # <<>> /\ a[1] = p /\ s = a \o t
  BY <1>5, <1>6, <1>8, ConcatFirst, ZenonT(60)
<1> HIDE DEF a
<1>10. s \in Seq(G) /\ s # <<>> /\ s[1] = p
  <2>1. a \o t \in Seq(G) /\ a \o t # <<>> /\ (a \o t)[1] = a[1]
    <3> HIDE DEF G
    <3> QED
      BY <1>7, <1>9, ConcatFirst
  <2> QED
    BY <1>9, <2>1
<1>11. \A i \in DOMAIN s : s[i] \in G
  BY <1>10, SeqElement, SeqLength
<1>12. s \in Seq(R)
  <2>1. G \subseteq R
    BY DEF G
  <2> HIDE DEF R
  <2> QED
    BY <1>10, <2>1, SMTT(60)
<1>13. Head(s) = p
  BY <1>10, FirstOf
<1> QED
  BY <1>2, <1>10, <1>11, <1>12, <1>13 DEF G

\* What PrintkWrite leaves alone, and the state it begins in.
LEMMA PrintkWriteStart ==
  ASSUME IInv, NEW c \in CPUs, PrintkWrite(c)
  PROVE  /\ pc[c] = "printk" /\ todo[c] # <<>> /\ Head(todo[c]).fn = "printk"
         /\ head = tail /\ (head + 1) % Slots # tail
         /\ lock["print_lock"] = NoOwner /\ lock' \in [Locks -> CPUs \cup {NoOwner}]
         /\ lock'["print_lock"] = c
         /\ \A l \in Locks : l # "print_lock" => lock'[l] = lock[l]
         /\ at[c] = 1 /\ lock["console_list_lock"] # c
         /\ \A d \in CPUs : ~Printing(d) /\ \A k \in Consoles : ~Pending(d, k)
         /\ UNCHANGED <<tail, list, msg, at, calls, screen, dropped, since>>
<1>1. /\ pc[c] = "printk" /\ lock["print_lock"] = NoOwner
      /\ lock' = [lock EXCEPT !["print_lock"] = c]
      /\ UNCHANGED <<tail, list, msg, at, calls, screen, dropped, since>>
  BY DEF PrintkWrite, Acquire
<1>2. todo[c] # <<>> /\ Head(todo[c]).fn = "printk"
  BY <1>1 DEF IInv, CallOK
<1>3. head = tail /\ (head + 1) % Slots # tail
  BY <1>1, NextSlot DEF IInv, RingOK, TypeOK
<1>4. /\ lock' \in [Locks -> CPUs \cup {NoOwner}] /\ lock'["print_lock"] = c
      /\ \A l \in Locks : l # "print_lock" => lock'[l] = lock[l]
  BY <1>1, TwoLocks DEF IInv, TypeOK
<1>5. at[c] = 1 /\ lock["console_list_lock"] # c
  BY <1>1 DEF IInv, LocksOK, ListCalls
<1>6. \A d \in CPUs : ~Printing(d) /\ \A k \in Consoles : ~Pending(d, k)
  BY <1>1, NobodyPrints DEF Pending
<1> QED
  BY <1>1, <1>2, <1>3, <1>4, <1>5, <1>6

\* A message that is too long: the processor keeps print_lock and panics.
LEMMA TooLongIInv ==
  ASSUME IInv, NEW c \in CPUs, PrintkWrite(c), TooLong(msg[c])
  PROVE  IInv'
<1>1. /\ messages' = messages /\ accepted' = accepted /\ head' = (head + 1) % Slots
      /\ pc' = [pc EXCEPT ![c] = "run"]
      /\ todo' = [todo EXCEPT ![c] = AssertFail(c) \o Tail(todo[c])]
  <2>1. msg[c].size \in Int /\ MsgBufSize \in Int
    BY LogAssumption, SMTT(60) DEF IInv, TypeOK, Msgs
  <2> QED
    <3>a. (head + 1) % Slots # tail
      BY PrintkWriteStart
    <3> QED
      BY <2>1, <3>a, SMTT(60) DEF PrintkWrite, LogbufferWrite, TooLong
<1>2. /\ todo'[c] \in Seq([fn : Fns, msg : Msgs]) /\ todo'[c] # <<>>
      /\ Head(todo'[c]).fn = "printk"
      /\ \A i \in DOMAIN todo'[c] :
           /\ todo'[c][i].fn = "consoles_write" => todo'[c][i].msg.id = 0
           /\ todo'[c][i].fn \notin ListCalls
  <2>1. todo'[c] = AssertFail(c) \o Tail(todo[c])
    BY <1>1 DEF IInv, TypeOK
  <2>2. todo[c] # <<>> /\ Head(todo[c]).fn \notin ListCalls
    BY PrintkWriteStart DEF ListCalls
  <2> QED
    BY <2>1, <2>2, AssertCalls
<1>3. /\ pc'[c] = "run" /\ pc' \in [CPUs -> Places]
      /\ todo' \in [CPUs -> Seq([fn : Fns, msg : Msgs])]
      /\ \A d \in CPUs : d # c => pc'[d] = pc[d] /\ todo'[d] = todo[d]
  <2>1. pc \in [CPUs -> Places] /\ todo \in [CPUs -> Seq([fn : Fns, msg : Msgs])] /\ "run" \in Places
    BY DEF IInv, TypeOK, Places
  <2> QED
    BY <1>1, <1>2, <2>1
<1>4. TypeOK'
  <2>1. head' \in 0..(Slots - 1)
    BY <1>1, NextSlot DEF IInv, TypeOK
  <2> QED
    BY <1>1, <1>3, <2>1, PrintkWriteStart, ZenonT(60) DEF IInv, TypeOK
<1>5. ASSUME NEW d \in CPUs, d # c
      PROVE  TodoOK(d)' /\ CallOK(d)' /\ LocksOK(d)' /\ (Printing(d)' <=> Printing(d))
  <2>1. /\ pc'[d] = pc[d] /\ todo'[d] = todo[d] /\ msg' = msg /\ at' = at /\ list' = list
        /\ lock["print_lock"] = NoOwner
        /\ \A l \in Locks : l # "print_lock" => lock'[l] = lock[l]
    BY <1>3, <1>5, PrintkWriteStart
  <2>2. lock["print_lock"] # d /\ lock'["console_list_lock"] = lock["console_list_lock"]
    BY <2>1, TwoLocks, LogAssumption
  <2> QED
    BY <2>1, <2>2, OtherKept
<1>6. ~Printing(c)' /\ TodoOK(c)' /\ CallOK(c)'
  BY <1>2, <1>3 DEF Printing, TodoOK, CallOK
<1>7. LocksOK(c)'
  <2>a. lock'["print_lock"] = c /\ lock'["console_list_lock"] # c /\ at'[c] = 1
    BY PrintkWriteStart, TwoLocks
  <2> QED
    BY <1>3, <1>6, <2>a, SMTT(60) DEF LocksOK
<1>8. \A d \in CPUs : ~Printing(d)' /\ \A k \in Consoles : ~Pending(d, k)'
  BY <1>5, <1>6, PrintkWriteStart DEF Pending
<1>9. ListOK'
  <2>1. \A d \in CPUs : ChangesList(d)' => ChangesList(d) /\ todo'[d] = todo[d]
    BY <1>2, <1>3 DEF ChangesList
  <2> QED
    <3>a. list' = list
      BY PrintkWriteStart
    <3> QED
      BY <2>1, <3>a, ListKept DEF IInv
<1>10. RingOK'
  BY <1>8, PrintkWriteStart, LogAssumption DEF RingOK
<1>11. OrderOK'
  BY <1>1, <1>8, PrintkWriteStart, OrderKept DEF IInv
<1>12. ArrivesOK'
  BY <1>1, PrintkWriteStart, ArrivesKept DEF IInv
<1> QED
  BY <1>4, <1>5, <1>6, <1>7, <1>9, <1>10, <1>11, <1>12 DEF IInv

\* A message that enters the ring: it is newer than all that any console shows.
LEMMA AcceptIInv ==
  ASSUME IInv, NEW c \in CPUs, PrintkWrite(c), ~TooLong(msg[c])
  PROVE  IInv'
<1>n. PICK n \in Nat : n = Len(accepted)
  BY SeqLength DEF IInv, TypeOK
<1>1. /\ messages' = [messages EXCEPT ![head] = msg[c]]
      /\ accepted' = Append(accepted, msg[c]) /\ head' = (head + 1) % Slots
      /\ pc' = [pc EXCEPT ![c] = "drain"] /\ todo' = todo
  <2>1. msg[c].size \in Int /\ MsgBufSize \in Int
    BY LogAssumption, SMTT(60) DEF IInv, TypeOK, Msgs
  <2> QED
    <3>a. (head + 1) % Slots # tail
      BY PrintkWriteStart
    <3> QED
      BY <2>1, <3>a, SMTT(60) DEF PrintkWrite, LogbufferWrite, TooLong
<1>2. msg[c] \in Msgs /\ accepted \in Seq(Msgs) /\ DOMAIN accepted = 1..n
  BY <1>n, SeqLength DEF IInv, TypeOK
<1>3. /\ accepted' \in Seq(Msgs) /\ Len(accepted') = n + 1 /\ DOMAIN accepted' = 1..(n + 1)
      /\ accepted'[n + 1] = msg[c] /\ \A i \in 1..n : accepted'[i] = accepted[i]
  BY <1>n, <1>1, <1>2, SeqAppend, SeqLength, SMTT(60)
<1>4. /\ pc'[c] = "drain" /\ pc' \in [CPUs -> Places]
      /\ \A d \in CPUs : d # c => pc'[d] = pc[d]
  BY <1>1 DEF IInv, TypeOK, Places
<1>5. messages' \in [0..(Slots - 1) -> Msgs] /\ messages'[tail] = msg[c]
  BY <1>1, <1>2, PrintkWriteStart, ZenonT(60) DEF IInv, TypeOK
<1>6. TypeOK'
  <2>1. /\ lock' \in [Locks -> CPUs \cup {NoOwner}] /\ head' \in 0..(Slots - 1)
        /\ UNCHANGED <<tail, list, msg, at, calls, screen, since>>
    BY <1>1, PrintkWriteStart, NextSlot DEF IInv, TypeOK
  <2> QED
    BY <1>1, <1>3, <1>4, <1>5, <2>1 DEF IInv, TypeOK
<1>7. ASSUME NEW d \in CPUs, d # c
      PROVE  TodoOK(d)' /\ CallOK(d)' /\ LocksOK(d)' /\ ~Printing(d)'
  <2>1. /\ todo'[d] = todo[d] /\ msg'[d] = msg[d] /\ at'[d] = at[d] /\ list' = list
        /\ lock["print_lock"] # d
        /\ lock'["console_list_lock"] = lock["console_list_lock"]
    BY <1>1, PrintkWriteStart, TwoLocks, LogAssumption
  <2> QED
    <3>a. lock["print_lock"] = NoOwner /\ ~Printing(d)
      BY PrintkWriteStart
    <3> QED
      BY <1>4, <1>7, <2>1, <3>a, OtherKept
<1>8. TodoOK(c)' /\ CallOK(c)'
  <2>a. todo'[c] = todo[c] /\ todo[c] # <<>> /\ Head(todo[c]).fn = "printk"
    BY <1>1, PrintkWriteStart
  <2>b. TodoOK(c)
    BY DEF IInv
  <2>c. TodoOK(c)'
    BY <2>a, <2>b, SMTT(60) DEF TodoOK
  <2> QED
    BY <1>4, <2>a, <2>c, SMTT(60) DEF CallOK, ListCalls
<1>9. LocksOK(c)'
  <2>a. lock'["print_lock"] = c /\ lock'["console_list_lock"] # c /\ at'[c] = 1
    BY PrintkWriteStart, TwoLocks
  <2> QED
    BY <1>4, <2>a, SMTT(60) DEF LocksOK
<1>10. \A d \in CPUs, k \in Consoles : Pending(d, k)' <=> d = c
  <2>1. \A d \in CPUs : Printing(d)' <=> d = c
    <3>a. Head(todo'[c]).fn = "printk"
      BY <1>1, PrintkWriteStart
    <3>b. Printing(c)'
      BY <1>4, <3>a DEF Printing
    <3> QED
      BY <1>7, <3>b
  <2> QED
    BY <1>1, <1>4, <2>1, PrintkWriteStart DEF Pending
<1>11. ListOK'
  <2>a. list' = list /\ todo' = todo
    BY <1>1, PrintkWriteStart
  <2> QED
    BY <2>a, ListKept DEF IInv, ChangesList
<1>12. RingOK'
  <2>1. accepted' # <<>>
    BY <1>2, <1>3, SeqEmpty, SMTT(60)
  <2> QED
    BY <1>1, <1>3, <1>4, <1>5, <1>7, <2>1, PrintkWriteStart, LogAssumption, SMTT(60) DEF RingOK
<1>13. OrderOK'
  <2> SUFFICES ASSUME NEW k \in Consoles
               PROVE  Older(k, n)' /\ Older(k, n + 1)' /\ Ordered(k)'
    BY <1>2, <1>3, SMTT(60) DEF OrderOK
  <2>1. screen'[k] = screen[k] /\ Older(k, n) /\ Ordered(k)
    BY <1>n, PrintkWriteStart DEF IInv, OrderOK
  <2>2. Older(k, n)' /\ Older(k, n + 1)'
    BY <1>2, <1>3, <2>1, SMTT(60) DEF Older
  <2>3. Ordered(k)'
    BY <1>2, <1>3, <2>1, SMTT(60) DEF Ordered
  <2> QED
    BY <2>2, <2>3
<1>14. ArrivesOK'
  <2> SUFFICES ASSUME NEW k \in Range(list) \cap Writable, NEW i \in (since[k] + 1)..(n + 1)
               PROVE  \/ accepted'[i] \in Range(screen[k]) \cup dropped
                      \/ i = n + 1 /\ \E d \in CPUs : Pending(d, k)'
    BY <1>3, PrintkWriteStart, SMTT(60) DEF ArrivesOK
  <2>1. k \in Consoles /\ since[k] \in Nat
    BY LogAssumption DEF IInv, TypeOK
  <2>2. CASE i = n + 1
    BY <1>10, <2>1, <2>2
  <2>3. CASE i # n + 1
    <3>1. i \in (since[k] + 1)..n /\ i \in 1..n
      BY <1>2, <2>1, <2>3, SMTT(60)
    <3>2. accepted[i] \in Range(screen[k]) \cup dropped
      BY <1>n, <2>1, <3>1, PrintkWriteStart DEF IInv, ArrivesOK
    <3> QED
      BY <1>3, <3>1, <3>2
  <2> QED
    BY <2>2, <2>3
<1> QED
  BY <1>6, <1>7, <1>8, <1>9, <1>11, <1>12, <1>13, <1>14 DEF IInv

\* One processor prints at a time.
LEMMA OnePrints ==
  ASSUME IInv, NEW c \in CPUs, Printing(c)
  PROVE  /\ lock["print_lock"] = c
         /\ \A d \in CPUs : d # c => ~Printing(d) /\ \A k \in Consoles : ~Pending(d, k)
BY DEF IInv, LocksOK, Pending

\* The loop of printk ends: the ring is empty and print_lock is free.
LEMMA DrainEndIInv ==
  ASSUME IInv, NEW c \in CPUs, Drain(c), tail = head
  PROVE  IInv'
<1>1. /\ pc[c] = "drain" /\ Return(c)
      /\ lock' = [lock EXCEPT !["print_lock"] = NoOwner]
      /\ UNCHANGED <<tail, messages, head, list, at, calls, screen, accepted, dropped, since>>
  BY DEF Drain, Release
<1>2. todo[c] # <<>> /\ Printing(c)
  BY <1>1 DEF IInv, CallOK, Printing
<1>3. /\ lock' \in [Locks -> CPUs \cup {NoOwner}] /\ lock'["print_lock"] = NoOwner
      /\ lock'["console_list_lock"] = lock["console_list_lock"]
  BY <1>1, TwoLocks DEF IInv, TypeOK
<1>4. /\ pc'[c] = "run" /\ ~ChangesList(c)' /\ ~Printing(c)'
      /\ \A d \in CPUs : d # c => pc'[d] = pc[d] /\ todo'[d] = todo[d] /\ msg'[d] = msg[d]
  BY <1>1, <1>2, ReturnKept
<1>5. TypeOK'
  <2>1. /\ pc' \in [CPUs -> Places] /\ msg' \in [CPUs -> Msgs]
        /\ todo' \in [CPUs -> Seq([fn : Fns, msg : Msgs])]
    BY <1>1, <1>2, ReturnKept
  <2> QED
    BY <1>1, <1>3, <2>1 DEF IInv, TypeOK
<1>6. ASSUME NEW d \in CPUs, d # c
      PROVE  TodoOK(d)' /\ CallOK(d)' /\ LocksOK(d)' /\ ~Printing(d)'
  <2>1. lock["print_lock"] # d /\ ~Printing(d)
    BY <1>2, <1>6, OnePrints
  <2>2. at'[d] = at[d] /\ list' = list
    BY <1>1
  <2> QED
    BY <1>3, <1>4, <1>6, <2>1, <2>2, OtherKept
<1>7. TodoOK(c)' /\ CallOK(c)'
  BY <1>1, <1>2, ReturnKept
<1>8. LocksOK(c)'
  <2>1. at[c] = 1 /\ lock["console_list_lock"] # c
    BY <1>1 DEF IInv, LocksOK, ListCalls
  <2> QED
    BY <1>1, <1>3, <1>4, <2>1 DEF LocksOK
<1>9. ListOK'
  <2>1. \A d \in CPUs : ChangesList(d)' => ChangesList(d) /\ todo'[d] = todo[d]
    BY <1>4 DEF ChangesList
  <2> QED
    BY <1>1, <2>1, ListKept DEF IInv
<1>10. \A d \in CPUs : ~Printing(d)' /\ \A k \in Consoles : ~Pending(d, k)'
  BY <1>4, <1>6 DEF Pending
<1>11. RingOK'
  BY <1>1, <1>10 DEF RingOK
<1>12. \A d \in CPUs, k \in Consoles : ~Pending(d, k)
  BY <1>1, <1>2, OnePrints DEF Pending
<1>13. OrderOK' /\ ArrivesOK'
  BY <1>1, <1>10, <1>12, OrderKept, ArrivesKept DEF IInv
<1> QED
  BY <1>5, <1>6, <1>7, <1>8, <1>9, <1>11, <1>13 DEF IInv

\* logbuffer_read gives the message accepted last to the consoles.
LEMMA DrainNextIInv ==
  ASSUME IInv, NEW c \in CPUs, Drain(c), tail # head
  PROVE  IInv'
<1>1. /\ pc[c] = "drain" /\ tail' = (tail + 1) % Slots
      /\ msg' = [msg EXCEPT ![c] = messages[tail]]
      /\ pc' = [pc EXCEPT ![c] = "consoles_write"]
      /\ UNCHANGED <<lock, todo, messages, head, list, at, calls, screen, accepted, dropped, since>>
  BY DEF Drain
<1>2. todo[c] # <<>> /\ Head(todo[c]).fn = "printk" /\ Printing(c)
  BY <1>1 DEF IInv, CallOK, Printing
<1>3. tail' = head /\ accepted # <<>> /\ messages[tail] = accepted[Len(accepted)]
  BY <1>1, <1>2 DEF IInv, RingOK
<1>4. messages[tail] \in Msgs /\ "consoles_write" \in Places
  BY DEF IInv, TypeOK, Places, Fns
<1>5. /\ pc' \in [CPUs -> Places] /\ pc'[c] = "consoles_write"
      /\ msg' \in [CPUs -> Msgs] /\ msg'[c] = accepted[Len(accepted)]
      /\ \A d \in CPUs : d # c => pc'[d] = pc[d] /\ msg'[d] = msg[d]
  BY <1>1, <1>3, <1>4 DEF IInv, TypeOK
<1>6. TypeOK'
  BY <1>1, <1>3, <1>5 DEF IInv, TypeOK
<1>7. ASSUME NEW d \in CPUs, d # c
      PROVE  TodoOK(d)' /\ CallOK(d)' /\ LocksOK(d)' /\ ~Printing(d)'
  <2>1. ~Printing(d)
    BY <1>2, <1>7, OnePrints
  <2>2. at'[d] = at[d] /\ todo'[d] = todo[d] /\ list' = list /\ lock' = lock
    BY <1>1
  <2> QED
    BY <1>5, <1>7, <2>1, <2>2, OtherKept
<1>8. TodoOK(c)' /\ CallOK(c)' /\ Printing(c)'
  <2>1. todo'[c] = todo[c] /\ pc'[c] = "consoles_write" /\ Head(todo[c]).fn = "printk"
    BY <1>1, <1>2, <1>5
  <2>2. TodoOK(c)'
    BY <2>1 DEF IInv, TodoOK
  <2>3. CallOK(c)'
    BY <1>2, <2>1, SMTT(60) DEF CallOK, ListCalls
  <2> QED
    BY <2>1, <2>2, <2>3 DEF Printing
<1>9. LocksOK(c)'
  <2>1. at[c] = 1 /\ lock["console_list_lock"] # c /\ lock["print_lock"] = c
    BY <1>1, <1>2, OnePrints DEF IInv, LocksOK, ListCalls
  <2> QED
    BY <1>1, <1>5, <2>1 DEF LocksOK
<1>10. ListOK'
  BY <1>1, ListKept DEF IInv, ChangesList
<1>11. RingOK'
  <2>1. lock'["print_lock"] # NoOwner
    BY <1>1, <1>2, OnePrints, LogAssumption
  <2> QED
    BY <1>1, <1>3, <1>5, <1>7, <2>1 DEF RingOK
<1>12. \A d \in CPUs, k \in Consoles : Pending(d, k)' <=> Pending(d, k)
  <2>1. \A k \in Consoles : Pending(c, k) /\ Pending(c, k)'
    BY <1>1, <1>2, <1>5, <1>8 DEF Pending
  <2>2. \A d \in CPUs, k \in Consoles : d # c => ~Pending(d, k)
    BY <1>2, OnePrints
  <2>3. \A d \in CPUs, k \in Consoles : d # c => ~Pending(d, k)'
    BY <1>7 DEF Pending
  <2> QED
    BY <2>1, <2>2, <2>3
<1>13. OrderOK' /\ ArrivesOK'
  BY <1>1, <1>12, OrderKept, ArrivesKept DEF IInv
<1> QED
  BY <1>6, <1>7, <1>8, <1>9, <1>10, <1>11, <1>13 DEF IInv

-----------------------------------------------------------------------------
(* Writing to the consoles.                                                *)

\* What the processor that takes a step keeps while it hands a message to the
\* consoles.
LEMMA OwnKept ==
  ASSUME IInv, NEW c \in CPUs, todo'[c] = todo[c], msg'[c] = msg[c],
         pc[c] \in {"consoles_write", "each", "write"},
         pc'[c] \in {"consoles_write", "each", "write"} \/ (pc'[c] = "drain" /\ Printing(c))
  PROVE  TodoOK(c)' /\ CallOK(c)' /\ (Printing(c)' <=> Printing(c))
<1>1. TodoOK(c) /\ CallOK(c)
  BY DEF IInv
<1>2. TodoOK(c)'
  BY <1>1 DEF TodoOK
<1>3. Printing(c)' <=> Printing(c)
  BY SMTT(60) DEF Printing
<1>4. CallOK(c)'
  BY <1>1, SMTT(60) DEF CallOK, Printing, ListCalls
<1> QED
  BY <1>2, <1>3, <1>4

\* The end of _printk_consoles_write leaves a printk in its loop and ends the
\* call of a panic.
LEMMA WrittenKept ==
  ASSUME IInv, NEW c \in CPUs, pc[c] \in {"consoles_write", "each"}, Written(c)
  PROVE  /\ pc' \in [CPUs -> Places] /\ msg' \in [CPUs -> Msgs]
         /\ todo' \in [CPUs -> Seq([fn : Fns, msg : Msgs])]
         /\ pc'[c] \in {"drain", "run"} /\ (Printing(c)' <=> Printing(c))
         /\ Printing(c) => pc'[c] = "drain"
         /\ \A d \in CPUs : d # c => pc'[d] = pc[d] /\ todo'[d] = todo[d] /\ msg'[d] = msg[d]
         /\ TodoOK(c)' /\ CallOK(c)' /\ ~ChangesList(c)'
<1>1. todo[c] # <<>> /\ (Head(todo[c]).fn = "printk" <=> Printing(c))
  BY DEF IInv, CallOK, Printing
<1>2. CASE Printing(c)
  <2>1. pc' = [pc EXCEPT ![c] = "drain"] /\ todo' = todo /\ msg' = msg
    BY <1>1, <1>2 DEF Written
  <2>2. /\ pc' \in [CPUs -> Places] /\ pc'[c] = "drain"
        /\ \A d \in CPUs : d # c => pc'[d] = pc[d]
    BY <2>1 DEF IInv, TypeOK, Places
  <2>3. TodoOK(c)' /\ CallOK(c)' /\ ~ChangesList(c)' /\ Printing(c)'
    <3>a. pc[c] \in {"consoles_write", "each"} /\ todo'[c] = todo[c] /\ msg'[c] = msg[c]
      BY <2>1
    <3>b. TodoOK(c)' /\ CallOK(c)' /\ Printing(c)'
      BY <1>2, <2>2, <3>a, OwnKept
    <3>c. ~ChangesList(c)'
      BY <1>1, <1>2, <2>1, SMTT(60) DEF ChangesList
    <3> QED
      BY <3>b, <3>c
  <2> QED
    BY <1>2, <2>1, <2>2, <2>3 DEF IInv, TypeOK
<1>3. CASE ~Printing(c)
  <2>1. Return(c)
    BY <1>1, <1>3 DEF Written
  <2> QED
    BY <1>1, <1>3, <2>1, ReturnKept
<1> QED
  BY <1>2, <1>3

\* The message a processor had for the consoles is with them, or was dropped.
LEMMA WrittenIInv ==
  ASSUME IInv, NEW c \in CPUs, pc[c] \in {"consoles_write", "each"}, Written(c),
         lock' \in [Locks -> CPUs \cup {NoOwner}],
         lock'["print_lock"] = lock["print_lock"], lock'["console_list_lock"] # c,
         \A d \in CPUs : d # c => (lock'["console_list_lock"] = d
                                     <=> lock["console_list_lock"] = d),
         at' \in [CPUs -> Nat \ {0}], at'[c] = 1,
         \A d \in CPUs : d # c => at'[d] = at[d],
         UNCHANGED <<messages, head, tail, list, calls, screen, accepted, since>>,
         dropped \subseteq dropped',
         \A k \in Consoles : Pending(c, k) => accepted[Len(accepted)] \in dropped'
  PROVE  IInv'
<1>1. TypeOK'
  BY WrittenKept DEF IInv, TypeOK
<1>o. \A d \in CPUs : d # c => pc'[d] = pc[d] /\ todo'[d] = todo[d] /\ msg'[d] = msg[d]
  BY WrittenKept
<1>2. ASSUME NEW d \in CPUs, d # c
      PROVE  TodoOK(d)' /\ CallOK(d)' /\ LocksOK(d)' /\ (Printing(d)' <=> Printing(d))
  <2>1. pc'[d] = pc[d] /\ todo'[d] = todo[d] /\ msg'[d] = msg[d] /\ at'[d] = at[d]
    BY <1>o, <1>2
  <2>2. lock'["console_list_lock"] = d <=> lock["console_list_lock"] = d
    BY <1>2
  <2> QED
    BY <2>1, <2>2, OtherKept
<1>3. /\ TodoOK(c)' /\ CallOK(c)' /\ ~ChangesList(c)' /\ (Printing(c)' <=> Printing(c))
      /\ pc'[c] \in {"drain", "run"} /\ (Printing(c) => pc'[c] = "drain")
  BY WrittenKept
<1>4. LocksOK(c)'
  <2>1. Printing(c) => lock["print_lock"] = c
    BY DEF IInv, LocksOK
  <2> QED
    BY <1>3, <2>1 DEF LocksOK
<1>5. ListOK'
  <2>1. \A d \in CPUs : ChangesList(d)' => ChangesList(d) /\ todo'[d] = todo[d]
    BY <1>o, <1>3 DEF ChangesList
  <2> QED
    BY <2>1, ListKept DEF IInv
<1>6. Printing(c) => head = tail /\ \A d \in CPUs : d # c => ~Printing(d)
  BY OnePrints DEF IInv, RingOK
<1>7. RingOK'
  <2>1. ASSUME NEW d \in CPUs, d # c, Printing(d)'
        PROVE  pc'[d] = pc[d] /\ msg'[d] = msg[d] /\ Printing(d)
    BY <1>o, <1>2, <2>1
  <2> QED
    <3>a. RingOK
      BY DEF IInv
    <3> QED
      BY <1>3, <1>6, <2>1, <3>a, SMTT(60) DEF RingOK
<1>8. \A k \in Consoles : ~Pending(c, k)'
  BY <1>3, <1>6 DEF Pending
<1>9. ASSUME NEW d \in CPUs, d # c, NEW k \in Consoles
      PROVE  Pending(d, k)' <=> Pending(d, k)
  BY <1>o, <1>2, <1>9 DEF Pending
<1>10. OrderOK'
  <2>1. \A d \in CPUs, k \in Consoles : Pending(d, k)' => Pending(d, k)
    BY <1>8, <1>9
  <2> QED
    BY <2>1, OrderKept DEF IInv
<1>11. ArrivesOK'
  <2>1. \A d \in CPUs, k \in Consoles :
          Pending(d, k) => Pending(d, k)' \/ accepted[Len(accepted)] \in dropped'
    BY <1>9
  <2> QED
    BY <2>1, ArrivesKept DEF IInv
<1> QED
  BY <1>1, <1>2, <1>3, <1>4, <1>5, <1>7, <1>10, <1>11 DEF IInv

\* The try for console_list_lock: the message goes to all consoles of the list,
\* or is dropped.
LEMMA TryListIInv ==
  ASSUME IInv, NEW c \in CPUs, TryList(c)
  PROVE  IInv'
<1>1. /\ pc[c] = "consoles_write"
      /\ UNCHANGED <<messages, head, tail, list, at, calls, screen, accepted, since>>
  BY DEF TryList
<1>2. at[c] = 1 /\ lock["console_list_lock"] # c
  BY <1>1 DEF IInv, LocksOK, ListCalls
<1>3. CASE lock["console_list_lock"] = NoOwner
  <2>1. /\ lock' = [lock EXCEPT !["console_list_lock"] = c]
        /\ pc' = [pc EXCEPT ![c] = "each"] /\ todo' = todo /\ msg' = msg /\ dropped' = dropped
    BY <1>3 DEF TryList, Acquire
  <2>2. /\ lock' \in [Locks -> CPUs \cup {NoOwner}] /\ lock'["console_list_lock"] = c
        /\ lock'["print_lock"] = lock["print_lock"]
        /\ pc' \in [CPUs -> Places] /\ pc'[c] = "each"
        /\ \A d \in CPUs : d # c => pc'[d] = pc[d]
    BY <2>1, TwoLocks DEF IInv, TypeOK, Places
  <2>3. TypeOK'
    BY <1>1, <2>1, <2>2 DEF IInv, TypeOK
  <2>4. ASSUME NEW d \in CPUs, d # c
        PROVE  TodoOK(d)' /\ CallOK(d)' /\ LocksOK(d)' /\ (Printing(d)' <=> Printing(d))
    <3>1. lock'["console_list_lock"] # d /\ lock["console_list_lock"] # d
      BY <1>3, <2>2, <2>4, LogAssumption
    <3>2. at'[d] = at[d] /\ todo'[d] = todo[d] /\ msg'[d] = msg[d] /\ list' = list
      BY <1>1, <2>1
    <3> QED
      BY <2>2, <2>4, <3>1, <3>2, OtherKept
  <2>5. TodoOK(c)' /\ CallOK(c)' /\ (Printing(c)' <=> Printing(c))
    <3>a. todo'[c] = todo[c] /\ msg'[c] = msg[c]
      BY <2>1
    <3> QED
      BY <1>1, <2>2, <3>a, OwnKept
  <2>6. LocksOK(c)'
    BY <1>1, <2>2, <2>5 DEF IInv, LocksOK
  <2>7. ListOK'
    BY <1>1, <2>1, ListKept DEF IInv, ChangesList
  <2>8. RingOK'
    BY <1>1, <2>1, <2>2, <2>4, <2>5 DEF IInv, RingOK
  <2>9. ASSUME NEW d \in CPUs, NEW k \in Consoles
        PROVE  /\ Pending(d, k)' => Pending(d, k)
               /\ Pending(d, k) /\ k \in Range(list) => Pending(d, k)'
    <3>1. CASE d = c
      <4>1. k \in Range(list) => \E j \in 1..Len(list) : list[j] = k
        BY SeqLength DEF Range, IInv, TypeOK
      <4> QED
        BY <1>1, <1>2, <2>2, <2>5, <3>1, <4>1 DEF Pending
    <3>2. CASE d # c
      BY <1>1, <2>2, <2>4, <3>2 DEF Pending
    <3> QED
      BY <3>1, <3>2
  <2>10. OrderOK' /\ ArrivesOK'
    BY <1>1, <2>1, <2>9, OrderKept, ArrivesKept DEF IInv
  <2> QED
    BY <2>3, <2>4, <2>5, <2>6, <2>7, <2>8, <2>10 DEF IInv
<1>4. CASE lock["console_list_lock"] # NoOwner
  <2>1. Written(c) /\ dropped' = dropped \cup {msg[c]} /\ lock' = lock
    BY <1>4 DEF TryList
  <2>2. \A k \in Consoles : Pending(c, k) => accepted[Len(accepted)] \in dropped'
    BY <1>1, <2>1 DEF Pending, IInv, RingOK
  <2>3. lock \in [Locks -> CPUs \cup {NoOwner}] /\ at \in [CPUs -> Nat \ {0}]
    BY DEF IInv, TypeOK
  <2> QED
    BY <1>1, <1>2, <2>1, <2>2, <2>3, WrittenIInv
<1> QED
  BY <1>3, <1>4

\* A step of a processor inside the loop over the list.
LEMMA LoopKept ==
  ASSUME IInv, NEW c \in CPUs, pc[c] \in {"each", "write"},
         NEW p \in {"each", "write"}, pc' = [pc EXCEPT ![c] = p],
         lock' \in [Locks -> CPUs \cup {NoOwner}],
         lock'["print_lock"] = lock["print_lock"],
         lock'["console_list_lock"] = lock["console_list_lock"],
         at' \in [CPUs -> Nat \ {0}], p = "write" => at'[c] <= Len(list),
         \A d \in CPUs : d # c => at'[d] = at[d],
         screen' \in [Consoles -> Seq(Msgs)],
         UNCHANGED <<messages, head, tail, list, todo, msg, calls, accepted, dropped, since>>
  PROVE  /\ TypeOK' /\ \A d \in CPUs : TodoOK(d)' /\ CallOK(d)' /\ LocksOK(d)'
         /\ ListOK' /\ RingOK'
         /\ \A d \in CPUs, k \in Consoles : d # c => (Pending(d, k)' <=> Pending(d, k))
         /\ \A k \in Consoles :
              /\ Pending(c, k) <=> Printing(c) /\ \E j \in at[c]..Len(list) : list[j] = k
              /\ Pending(c, k)' <=> Printing(c) /\ \E j \in at'[c]..Len(list) : list[j] = k
<1>1. /\ pc' \in [CPUs -> Places] /\ pc'[c] = p
      /\ \A d \in CPUs : d # c => pc'[d] = pc[d]
  BY DEF IInv, TypeOK, Places
<1>2. TypeOK'
  BY <1>1 DEF IInv, TypeOK
<1>3. ASSUME NEW d \in CPUs, d # c
      PROVE  TodoOK(d)' /\ CallOK(d)' /\ LocksOK(d)' /\ (Printing(d)' <=> Printing(d))
  BY <1>1, <1>3, OtherKept
<1>4. TodoOK(c)' /\ CallOK(c)' /\ (Printing(c)' <=> Printing(c))
  <2>a. todo'[c] = todo[c] /\ msg'[c] = msg[c]
    OBVIOUS
  <2> QED
    BY <1>1, <2>a, OwnKept
<1>5. LocksOK(c)'
  BY <1>1, <1>4 DEF IInv, LocksOK
<1>6. ListOK'
  BY ListKept DEF IInv, ChangesList
<1>7. RingOK'
  <2>a. RingOK
    BY DEF IInv
  <2> QED
    BY <1>1, <1>3, <1>4, <2>a, SMTT(60) DEF RingOK
<1>8. \A d \in CPUs, k \in Consoles : d # c => (Pending(d, k)' <=> Pending(d, k))
  BY <1>1, <1>3 DEF Pending
<1>9. ASSUME NEW k \in Consoles
      PROVE  /\ Pending(c, k) <=> Printing(c) /\ \E j \in at[c]..Len(list) : list[j] = k
             /\ Pending(c, k)' <=> Printing(c) /\ \E j \in at'[c]..Len(list) : list[j] = k
  BY <1>1, <1>4 DEF Pending
<1> QED
  BY <1>2, <1>3, <1>4, <1>5, <1>6, <1>7, <1>8, <1>9

\* The loop over the list: its end, a console without write, and the lock of a
\* console that has one.
LEMMA EachIInv ==
  ASSUME IInv, NEW c \in CPUs, Each(c)
  PROVE  IInv'
<1>1. /\ pc[c] = "each"
      /\ UNCHANGED <<messages, head, tail, list, calls, screen, accepted, dropped, since>>
  BY DEF Each
<1>2. /\ lock["console_list_lock"] = c /\ at[c] \in Nat \ {0} /\ Len(list) \in Nat
      /\ at \in [CPUs -> Nat \ {0}] /\ screen \in [Consoles -> Seq(Msgs)]
      /\ lock \in [Locks -> CPUs \cup {NoOwner}] /\ pc \in [CPUs -> Places]
  BY <1>1, SeqLength DEF IInv, TypeOK, LocksOK
<1>3. CASE at[c] > Len(list)
  <2>1. Release("console_list_lock") /\ Written(c) /\ at' = [at EXCEPT ![c] = 1]
    BY <1>3 DEF Each
  <2>2. /\ lock' \in [Locks -> CPUs \cup {NoOwner}] /\ lock'["console_list_lock"] = NoOwner
        /\ lock'["print_lock"] = lock["print_lock"]
    BY <1>2, <2>1, TwoLocks DEF Release
  <2>3. \A d \in CPUs : d # c => (lock'["console_list_lock"] = d
                                    <=> lock["console_list_lock"] = d)
    BY <1>2, <2>2, LogAssumption
  <2>4. /\ at' \in [CPUs -> Nat \ {0}] /\ at'[c] = 1
        /\ \A d \in CPUs : d # c => at'[d] = at[d]
    BY <1>2, <2>1, SMTT(60)
  <2>5. \A k \in Consoles : ~Pending(c, k)
    BY <1>1, <1>2, <1>3, SMTT(60) DEF Pending
  <2> QED
    BY <1>1, <2>1, <2>2, <2>3, <2>4, <2>5, WrittenIInv, LogAssumption
<1>4. CASE at[c] <= Len(list)
  <2>1. UNCHANGED <<todo, msg>>
    BY <1>2, <1>4, SMTT(60) DEF Each
  <2>2. list[at[c]] \in Consoles
    BY <1>2, <1>4, SeqElement, SMTT(60) DEF IInv, TypeOK
  <2>3. CASE list[at[c]] \notin Writable
    <3>1. at' = [at EXCEPT ![c] = at[c] + 1] /\ pc' = pc /\ lock' = lock
      BY <1>2, <1>4, <2>3, SMTT(60) DEF Each
    <3>2. /\ at' \in [CPUs -> Nat \ {0}] /\ at'[c] = at[c] + 1
          /\ \A d \in CPUs : d # c => at'[d] = at[d]
      BY <1>2, <3>1, SMTT(60)
    <3>3. pc' = [pc EXCEPT ![c] = "each"]
      BY <1>1, <1>2, <3>1
    <3>4. /\ TypeOK' /\ \A d \in CPUs : TodoOK(d)' /\ CallOK(d)' /\ LocksOK(d)'
          /\ ListOK' /\ RingOK'
          /\ \A d \in CPUs, k \in Consoles : d # c => (Pending(d, k)' <=> Pending(d, k))
          /\ \A k \in Consoles :
               /\ Pending(c, k) <=> Printing(c) /\ \E j \in at[c]..Len(list) : list[j] = k
               /\ Pending(c, k)' <=> Printing(c) /\ \E j \in at'[c]..Len(list) : list[j] = k
      BY <1>1, <1>2, <2>1, <3>1, <3>2, <3>3, LoopKept, ZenonT(60)
    <3>5. \A k \in Consoles : /\ Pending(c, k)' => Pending(c, k)
                              /\ Pending(c, k) /\ k \in Writable => Pending(c, k)'
      BY <1>2, <2>3, <3>2, <3>4, SMTT(60)
    <3>6. OrderOK' /\ ArrivesOK'
      BY <1>1, <3>4, <3>5, OrderKept, ArrivesKept DEF IInv
    <3> QED
      BY <3>4, <3>6 DEF IInv
  <2>4. CASE list[at[c]] \in Writable
    <3>1. /\ lock' = [lock EXCEPT ![list[at[c]]] = c]
          /\ pc' = [pc EXCEPT ![c] = "write"] /\ at' = at
      BY <1>2, <1>4, <2>4, SMTT(60) DEF Each, Acquire
    <3>2. /\ lock' \in [Locks -> CPUs \cup {NoOwner}]
          /\ lock'["console_list_lock"] = lock["console_list_lock"]
          /\ lock'["print_lock"] = lock["print_lock"]
      BY <1>2, <2>2, <3>1, TwoLocks
    <3>3. /\ TypeOK' /\ \A d \in CPUs : TodoOK(d)' /\ CallOK(d)' /\ LocksOK(d)'
          /\ ListOK' /\ RingOK'
          /\ \A d \in CPUs, k \in Consoles : d # c => (Pending(d, k)' <=> Pending(d, k))
          /\ \A k \in Consoles :
               /\ Pending(c, k) <=> Printing(c) /\ \E j \in at[c]..Len(list) : list[j] = k
               /\ Pending(c, k)' <=> Printing(c) /\ \E j \in at'[c]..Len(list) : list[j] = k
      BY <1>1, <1>2, <1>4, <2>1, <3>1, <3>2, LoopKept
    <3>4. OrderOK' /\ ArrivesOK'
      BY <1>1, <3>1, <3>3, OrderKept, ArrivesKept DEF IInv
    <3> QED
      BY <3>3, <3>4 DEF IInv
  <2> QED
    BY <2>3, <2>4
<1> QED
  BY <1>2, <1>3, <1>4, SMTT(60)

\* What a sequence holds when something is put behind.
LEMMA AppendRange ==
  ASSUME NEW S, NEW s \in Seq(S), NEW e \in S
  PROVE  Range(Append(s, e)) = Range(s) \cup {e}
<1>1. /\ Len(s) \in Nat /\ DOMAIN s = 1..Len(s)
      /\ DOMAIN Append(s, e) = 1..(Len(s) + 1) /\ Append(s, e)[Len(s) + 1] = e
      /\ \A i \in 1..Len(s) : Append(s, e)[i] = s[i]
  BY SeqLength, SeqAppend, SMTT(60)
<1> QED
  BY <1>1, SMTT(60) DEF Range

\* One more message on a console: the picture of a panic, which is outside the
\* order, or the message accepted last, when the console shows older ones only.
LEMMA ShownKept ==
  ASSUME TypeOK, NEW k \in Consoles, NEW m \in Msgs, Older(k, Len(accepted)), Ordered(k),
         screen'[k] = Append(screen[k], m), accepted' = accepted,
         \/ ~Through(m)
         \/ accepted # <<>> /\ m = accepted[Len(accepted)] /\ Older(k, Len(accepted) - 1)
  PROVE  /\ Older(k, Len(accepted))' /\ Ordered(k)'
         /\ ~Through(m) /\ Older(k, Len(accepted) - 1) => Older(k, Len(accepted) - 1)'
<1> DEFINE s == screen[k]
           l == Len(s) + 1
           t == screen'[k]
<1>1. /\ s \in Seq(Msgs) /\ Len(s) \in Nat /\ DOMAIN s = 1..Len(s)
      /\ t \in Seq(Msgs) /\ DOMAIN t = 1..l /\ l = Len(s) + 1 /\ t[l] = m /\ \A i \in DOMAIN s : t[i] = s[i]
  BY SeqAppend, SeqLength, SMTT(60) DEF TypeOK
<1> HIDE DEF l
<1>2. /\ accepted \in Seq(Msgs) /\ Len(accepted) \in Nat /\ DOMAIN accepted = 1..Len(accepted)
      /\ accepted # <<>> => Len(accepted) > 0
  BY SeqLength, SeqEmpty, SMTT(60) DEF TypeOK
<1>3. /\ \A i \in DOMAIN s : Through(s[i]) => \E n \in 1..Len(accepted) : accepted[n] = s[i]
      /\ \A i, j \in DOMAIN s : i < j /\ Through(s[i]) /\ Through(s[j]) =>
           \E n, o \in DOMAIN accepted :
             n < o /\ accepted[n] = s[i] /\ accepted[o] = s[j]
  BY DEF Older, Ordered
<1> HIDE DEF s, t
<1>4. \A i \in DOMAIN t : i \in DOMAIN s \/ i = l
  BY <1>1, SMTT(60)
<1>5. Older(k, Len(accepted))'
  <2> SUFFICES ASSUME NEW i \in DOMAIN t, Through(t[i])
               PROVE  \E n \in 1..Len(accepted) : accepted[n] = t[i]
    BY DEF Older, t
  <2> QED
    BY <1>1, <1>2, <1>3, <1>4, SMTT(60)
<1>6. Ordered(k)'
  <2> SUFFICES ASSUME NEW i \in DOMAIN t, NEW j \in DOMAIN t,
                      i < j, Through(t[i]), Through(t[j])
               PROVE  \E n, o \in DOMAIN accepted :
                        n < o /\ accepted[n] = t[i] /\ accepted[o] = t[j]
    BY SMTT(60) DEF Ordered, t
  <2>1. i \in DOMAIN s /\ t[i] = s[i]
    <3>1. i \in 1..l /\ j \in 1..l
      BY <1>1
    <3> QED
      BY <1>1, <3>1, SMTT(60)
  <2>2. CASE j \in DOMAIN s
    BY <1>1, <1>3, <2>1, <2>2, SMTT(60)
  <2>3. CASE j = l
    <3>1. m = accepted[Len(accepted)] /\ Len(accepted) > 0
      BY <1>1, <1>2, <2>3
    <3>2. PICK n \in 1..(Len(accepted) - 1) : accepted[n] = s[i]
      BY <1>1, <2>1, <2>3 DEF Older, s
    <3>3. n \in DOMAIN accepted /\ Len(accepted) \in DOMAIN accepted /\ n < Len(accepted)
      BY <1>2, <3>1, SMTT(60)
    <3>4. accepted[n] = t[i] /\ accepted[Len(accepted)] = t[j]
      BY <1>1, <2>1, <2>3, <3>1, <3>2
    <3> QED
      BY <3>3, <3>4
  <2> QED
    BY <1>4, <2>2, <2>3
<1>7. ASSUME ~Through(m), Older(k, Len(accepted) - 1)
      PROVE  Older(k, Len(accepted) - 1)'
  <2> SUFFICES ASSUME NEW i \in DOMAIN t, Through(t[i])
               PROVE  \E n \in 1..(Len(accepted) - 1) : accepted[n] = t[i]
    BY DEF Older, t
  <2>1. i \in DOMAIN s /\ t[i] = s[i]
    BY <1>1, <1>4, <1>7
  <2> QED
    BY <1>7, <2>1 DEF Older, s
<1> QED
  BY <1>5, <1>6, <1>7

\* The write function of a console.
LEMMA ConsoleWriteIInv ==
  ASSUME IInv, NEW c \in CPUs, ConsoleWrite(c)
  PROVE  IInv'
<1>1. /\ pc[c] = "write" /\ pc' = [pc EXCEPT ![c] = "each"]
      /\ at' = [at EXCEPT ![c] = at[c] + 1]
      /\ UNCHANGED <<messages, head, tail, list, todo, msg, calls, accepted, dropped, since>>
  BY DEF ConsoleWrite, Release
<1>2. /\ at[c] \in Nat \ {0} /\ Len(list) \in Nat /\ at[c] <= Len(list)
      /\ list \in Seq(Consoles) /\ DOMAIN list = 1..Len(list) /\ IsInjective(list)
      /\ at \in [CPUs -> Nat \ {0}] /\ screen \in [Consoles -> Seq(Msgs)]
      /\ lock \in [Locks -> CPUs \cup {NoOwner}] /\ msg[c] \in Msgs
  BY <1>1, SeqLength DEF IInv, TypeOK, LocksOK, ListOK
<1>3. PICK k0 \in Consoles : k0 = list[at[c]]
  BY <1>2, SeqElement, SMTT(60)
<1>14. /\ screen' = [screen EXCEPT ![k0] = Append(screen[k0], msg[c])]
       /\ lock' = [lock EXCEPT ![k0] = NoOwner]
  BY <1>3 DEF ConsoleWrite, Release
<1>4. /\ lock' \in [Locks -> CPUs \cup {NoOwner}]
      /\ lock'["console_list_lock"] = lock["console_list_lock"]
      /\ lock'["print_lock"] = lock["print_lock"]
  BY <1>2, <1>14, TwoLocks
<1>5. /\ at' \in [CPUs -> Nat \ {0}] /\ at'[c] = at[c] + 1
      /\ \A d \in CPUs : d # c => at'[d] = at[d]
  BY <1>1, <1>2, SMTT(60)
<1>6. Append(screen[k0], msg[c]) \in Seq(Msgs)
  BY <1>2, SeqAppend
<1>7. /\ screen' \in [Consoles -> Seq(Msgs)] /\ screen'[k0] = Append(screen[k0], msg[c])
      /\ \A k \in Consoles : k # k0 => screen'[k] = screen[k]
  BY <1>2, <1>6, <1>14
<1>8. /\ TypeOK' /\ \A d \in CPUs : TodoOK(d)' /\ CallOK(d)' /\ LocksOK(d)'
      /\ ListOK' /\ RingOK'
      /\ \A d \in CPUs, k \in Consoles : d # c => (Pending(d, k)' <=> Pending(d, k))
      /\ \A k \in Consoles :
           /\ Pending(c, k) <=> Printing(c) /\ \E j \in at[c]..Len(list) : list[j] = k
           /\ Pending(c, k)' <=> Printing(c) /\ \E j \in at'[c]..Len(list) : list[j] = k
  BY <1>1, <1>4, <1>5, <1>7, LoopKept
<1>9. \A j \in 1..Len(list) : list[j] = k0 => j = at[c]
  <2>1. at[c] \in DOMAIN list /\ \A a, b \in DOMAIN list : list[a] = list[b] => a = b
    BY <1>2, SMTT(60) DEF IsInjective
  <2> QED
    BY <1>2, <1>3, <2>1
<1>10. /\ \A k \in Consoles : Pending(c, k)' => Pending(c, k)
       /\ \A k \in Consoles : k # k0 /\ Pending(c, k) => Pending(c, k)'
       /\ ~Pending(c, k0)' /\ (Printing(c) => Pending(c, k0))
  BY <1>2, <1>3, <1>5, <1>8, <1>9, SMTT(60)
<1>11. \/ Printing(c) /\ accepted # <<>> /\ msg[c] = accepted[Len(accepted)]
       \/ ~Printing(c) /\ ~Through(msg[c])
  BY <1>1 DEF IInv, RingOK, CallOK, Printing, Through
<1>12. OrderOK'
  <2> SUFFICES ASSUME NEW k \in Consoles
               PROVE  /\ Older(k, Len(accepted))' /\ Ordered(k)'
                      /\ \A d \in CPUs : Pending(d, k)' => Older(k, Len(accepted) - 1)'
    BY DEF OrderOK
  <2>1. /\ Older(k, Len(accepted)) /\ Ordered(k)
        /\ \A d \in CPUs : Pending(d, k) => Older(k, Len(accepted) - 1)
    BY DEF IInv, OrderOK
  <2>2. CASE k # k0
    <3>1. screen'[k] = screen[k] /\ accepted' = accepted
      BY <1>1, <1>7, <2>2
    <3>2. Ordered(k)' /\ Older(k, Len(accepted))'
      BY <2>1, <3>1, SMTT(60) DEF Older, Ordered
    <3>3. Older(k, Len(accepted) - 1) => Older(k, Len(accepted) - 1)'
      BY <3>1 DEF Older
    <3>4. \A d \in CPUs : Pending(d, k)' => Pending(d, k)
      BY <1>8, <1>10
    <3> QED
      BY <2>1, <3>2, <3>3, <3>4
  <2>3. CASE k = k0
    <3>1. Printing(c) => Older(k, Len(accepted) - 1) /\ \A d \in CPUs : ~Pending(d, k)'
      BY <1>8, <1>10, <2>1, <2>3, OnePrints
    <3>2. \A d \in CPUs : Pending(d, k)' => Pending(d, k)
      BY <1>8, <1>10
    <3>3. /\ Older(k, Len(accepted))' /\ Ordered(k)'
          /\ ~Through(msg[c]) /\ Older(k, Len(accepted) - 1) => Older(k, Len(accepted) - 1)'
      BY <1>1, <1>2, <1>7, <1>11, <2>1, <2>3, <3>1, ShownKept DEF IInv
    <3> QED
      BY <1>11, <2>1, <3>1, <3>2, <3>3
  <2> QED
    BY <2>2, <2>3
<1>13. ArrivesOK'
  <2> SUFFICES ASSUME NEW k \in Range(list) \cap Writable,
                      NEW i \in (since[k] + 1)..Len(accepted)
               PROVE  \/ accepted[i] \in Range(screen'[k]) \cup dropped
                      \/ i = Len(accepted) /\ \E d \in CPUs : Pending(d, k)'
    BY <1>1 DEF ArrivesOK
  <2>1. k \in Consoles
    BY LogAssumption
  <2>2. \/ accepted[i] \in Range(screen[k]) \cup dropped
        \/ i = Len(accepted) /\ \E d \in CPUs : Pending(d, k)
    BY DEF IInv, ArrivesOK
  <2>3. CASE k # k0
    BY <1>7, <1>8, <1>10, <2>1, <2>2, <2>3
  <2>4. CASE k = k0
    <3>1. screen[k] \in Seq(Msgs) /\ screen'[k] = Append(screen[k], msg[c])
      BY <1>2, <1>7, <2>1, <2>4
    <3>2. Range(screen[k]) \subseteq Range(screen'[k]) /\ msg[c] \in Range(screen'[k])
      BY <1>2, <3>1, AppendRange, SMTT(60)
    <3>3. Pending(c, k) => accepted[Len(accepted)] \in Range(screen'[k])
      BY <1>8, <1>11, <2>1, <3>2
    <3> QED
      BY <1>8, <2>1, <2>2, <3>2, <3>3
  <2> QED
    BY <2>3, <2>4
<1> QED
  BY <1>8, <1>12, <1>13 DEF IInv

-----------------------------------------------------------------------------
(* The list of consoles.                                                   *)

\* A change of the list gets console_list_lock.
LEMMA LockListIInv ==
  ASSUME IInv, NEW c \in CPUs, LockList(c)
  PROVE  IInv'
<1>1. /\ pc[c] \in ListCalls /\ lock["console_list_lock"] = NoOwner
      /\ lock' = [lock EXCEPT !["console_list_lock"] = c]
      /\ UNCHANGED <<messages, head, tail, list, pc, todo, msg, at, calls, screen,
                     accepted, dropped, since>>
  BY DEF LockList, Acquire, ListCalls
<1>2. /\ lock' \in [Locks -> CPUs \cup {NoOwner}] /\ lock'["console_list_lock"] = c
      /\ lock'["print_lock"] = lock["print_lock"]
  BY <1>1, TwoLocks DEF IInv, TypeOK
<1>3. TypeOK'
  BY <1>1, <1>2 DEF IInv, TypeOK
<1>4. ASSUME NEW d \in CPUs
      PROVE  TodoOK(d)' /\ CallOK(d)' /\ LocksOK(d)' /\ (Printing(d)' <=> Printing(d))
  <2>1. CASE d # c
    <3>1. lock'["console_list_lock"] # d /\ lock["console_list_lock"] # d
      BY <1>1, <1>2, <2>1, LogAssumption
    <3> QED
      BY <1>1, <1>2, <3>1, OtherKept
  <2>2. CASE d = c
    <3>1. TodoOK(c)' /\ CallOK(c)' /\ (Printing(c)' <=> Printing(c))
      BY <1>1 DEF IInv, TodoOK, CallOK, Printing
    <3>2. LocksOK(c)'
      BY <1>1, <1>2, <3>1 DEF IInv, LocksOK, ListCalls
    <3> QED
      BY <2>2, <3>1, <3>2
  <2> QED
    BY <2>1, <2>2
<1>5. ListOK' /\ RingOK'
  BY <1>1, <1>2, <1>4, ListKept DEF IInv, RingOK, ChangesList
<1>6. \A d \in CPUs, k \in Consoles : Pending(d, k)' <=> Pending(d, k)
  BY <1>1, <1>4 DEF Pending
<1>7. OrderOK' /\ ArrivesOK'
  BY <1>1, <1>6, OrderKept, ArrivesKept DEF IInv
<1> QED
  BY <1>3, <1>4, <1>5, <1>7 DEF IInv

\* A change of the list, while nobody goes through it: a console of the new
\* list was in the old one, or starts with what is accepted from now on.
LEMMA ListChangeIInv ==
  ASSUME IInv, NEW c \in CPUs, pc[c] \in ListCalls, lock["console_list_lock"] = c, Return(c),
         lock' \in [Locks -> CPUs \cup {NoOwner}],
         lock'["print_lock"] = lock["print_lock"], lock'["console_list_lock"] = NoOwner,
         list' \in Seq(Consoles), IsInjective(list'), since' \in [Consoles -> Nat],
         \A k \in Range(list') : \/ k \in Range(list) /\ since'[k] = since[k]
                                 \/ since'[k] = Len(accepted),
         UNCHANGED <<messages, head, tail, at, calls, screen, accepted, dropped>>
  PROVE  IInv'
<1>1. todo[c] # <<>> /\ ~Printing(c) /\ ChangesList(c) /\ at[c] = 1
  <2>1. todo[c] # <<>> /\ ChangesList(c)
    BY DEF IInv, CallOK, ChangesList, ListCalls
  <2>2. ~Printing(c) /\ pc[c] \notin {"each", "write"}
    BY DEF Printing, ListCalls
  <2> QED
    BY <2>1, <2>2 DEF IInv, LocksOK
<1>2. /\ pc' \in [CPUs -> Places] /\ msg' \in [CPUs -> Msgs]
      /\ todo' \in [CPUs -> Seq([fn : Fns, msg : Msgs])]
      /\ pc'[c] = "run"
      /\ \A d \in CPUs : d # c => pc'[d] = pc[d] /\ todo'[d] = todo[d] /\ msg'[d] = msg[d]
      /\ TodoOK(c)' /\ CallOK(c)' /\ ~ChangesList(c)' /\ ~Printing(c)'
  BY <1>1, ReturnKept
<1>3. TypeOK'
  BY <1>2 DEF IInv, TypeOK
<1>4. ASSUME NEW d \in CPUs, d # c
      PROVE  /\ pc[d] \notin {"each", "write"}
             /\ TodoOK(d)' /\ CallOK(d)' /\ LocksOK(d)' /\ (Printing(d)' <=> Printing(d))
  <2>1. pc[d] \notin {"each", "write"}
    BY <1>4 DEF IInv, LocksOK
  <2>2. lock["console_list_lock"] # d /\ lock'["console_list_lock"] # d
    BY <1>4, LogAssumption
  <2> QED
    BY <1>2, <1>4, <2>1, <2>2, OtherKept
<1>5. LocksOK(c)'
  BY <1>1, <1>2, LogAssumption DEF LocksOK
<1>6. ListOK'
  <2>1. \A d \in CPUs : ~ChangesList(d)'
    BY <1>1, <1>2 DEF IInv, ListOK, ChangesList
  <2> QED
    BY <2>1 DEF ListOK
<1>7. RingOK'
  BY <1>2, <1>4, ZenonT(60) DEF IInv, RingOK
<1>8. \A d \in CPUs, k \in Consoles : Pending(d, k)' <=> Pending(d, k)
  BY <1>1, <1>2, <1>4 DEF Pending
<1>9. OrderOK'
  BY <1>8, OrderKept DEF IInv
<1>10. ArrivesOK'
  <2> SUFFICES ASSUME NEW k \in Range(list') \cap Writable,
                      NEW i \in (since'[k] + 1)..Len(accepted)
               PROVE  \/ accepted[i] \in Range(screen[k]) \cup dropped
                      \/ i = Len(accepted) /\ \E d \in CPUs : Pending(d, k)'
    BY DEF ArrivesOK
  <2>1. k \in Consoles /\ Len(accepted) \in Nat
    BY LogAssumption, SeqLength DEF IInv, TypeOK
  <2>2. k \in Range(list) /\ since'[k] = since[k]
    BY <2>1, SMTT(60)
  <2>3. \/ accepted[i] \in Range(screen[k]) \cup dropped
        \/ i = Len(accepted) /\ \E d \in CPUs : Pending(d, k)
    BY <2>2 DEF IInv, ArrivesOK
  <2> QED
    BY <1>8, <2>1, <2>3
<1> QED
  BY <1>2, <1>3, <1>4, <1>5, <1>6, <1>7, <1>9, <1>10 DEF IInv

\* console_add puts a console behind the list that is not in it.
LEMMA ConsoleAddIInv ==
  ASSUME IInv, NEW c \in CPUs, ConsoleAdd(c)
  PROVE  IInv'
<1>1. /\ pc[c] = "console_add" /\ lock["console_list_lock"] = c /\ Return(c)
      /\ UNCHANGED <<messages, head, tail, at, calls, screen, accepted, dropped>>
  BY DEF ConsoleAdd
<1>2. /\ todo[c] # <<>> /\ Head(todo[c]).fn = "console_add" /\ msg[c] = Head(todo[c]).msg
      /\ ChangesList(c)
  BY <1>1 DEF IInv, CallOK, ListCalls, ChangesList
<1>3. PICK k \in Consoles : k = msg[c].by
  <2>1. todo[c] \in Seq([fn : Fns, msg : Msgs])
    BY DEF IInv, TypeOK
  <2>2. Head(todo[c]) = todo[c][1] /\ 1 \in DOMAIN todo[c]
    BY <1>2, <2>1, FirstOf
  <2> QED
    BY <1>2, <2>2 DEF IInv, TodoOK, ListCalls
<1>4. k \notin Range(list) /\ IsInjective(list) /\ list \in Seq(Consoles)
  BY <1>2, <1>3 DEF IInv, ListOK, TypeOK
<1>5. /\ lock' = [lock EXCEPT !["console_list_lock"] = NoOwner, ![k] = NoOwner]
      /\ list' = Append(list, k) /\ since' = [since EXCEPT ![k] = Len(accepted)]
  BY <1>3 DEF ConsoleAdd
<1>6. /\ lock' \in [Locks -> CPUs \cup {NoOwner}]
      /\ lock'["print_lock"] = lock["print_lock"] /\ lock'["console_list_lock"] = NoOwner
  BY <1>5, TwoLocks DEF IInv, TypeOK
<1>7. /\ since' \in [Consoles -> Nat] /\ since'[k] = Len(accepted)
      /\ \A j \in Consoles : j # k => since'[j] = since[j]
  BY <1>5, SeqLength DEF IInv, TypeOK
<1>8. list' \in Seq(Consoles) /\ Range(list') = Range(list) \cup {k} /\ IsInjective(list')
  <2>1. list' \in Seq(Consoles) /\ Range(list') = Range(list) \cup {k}
    BY <1>4, <1>5, SeqAppend, AppendRange, SMTT(60)
  <2>2. /\ Len(list) \in Nat /\ DOMAIN list = 1..Len(list)
        /\ DOMAIN list' = 1..(Len(list) + 1) /\ list'[Len(list) + 1] = k
        /\ \A i \in 1..Len(list) : list'[i] = list[i] /\ list[i] # k
    BY <1>4, <1>5, SeqLength, SeqAppend, SMTT(60) DEF Range
  <2>3. \A a, b \in 1..Len(list) : list[a] = list[b] => a = b
    BY <1>4, <2>2 DEF IsInjective
  <2> QED
    BY <2>1, <2>2, <2>3, SMTT(60) DEF IsInjective
<1>9. \A j \in Range(list) : j \in Consoles
  BY <1>4, SeqLength, SMTT(60) DEF Range
<1>10. \A j \in Range(list') : \/ j \in Range(list) /\ since'[j] = since[j]
                               \/ since'[j] = Len(accepted)
  BY <1>7, <1>8, <1>9
<1> QED
  BY <1>1, <1>6, <1>7, <1>8, <1>10, ListChangeIInv DEF ListCalls

\* The removal of an entry: the others stay, each of them once.
LEMMA WithoutKept ==
  ASSUME NEW S, NEW s \in Seq(S), IsInjective(s), NEW k \in Range(s)
  PROVE  Without(s, k) \in Seq(S) /\ IsInjective(Without(s, k)) /\ Range(Without(s, k)) \subseteq Range(s)
<1> DEFINE i == CHOOSE j \in DOMAIN s : s[j] = k
           n == Len(s) - 1
           w == Without(s, k)
<1>1. Len(s) \in Nat /\ DOMAIN s = 1..Len(s) /\ i \in DOMAIN s /\ \A j \in 1..Len(s) : s[j] \in S
  BY SeqLength, SeqElement DEF Range
<1>2. n \in Nat /\ n = Len(s) - 1 /\ i \in 1..(n + 1)
  BY <1>1, SMTT(60)
<1>3. w = [j \in 1..n |-> IF j < i THEN s[j] ELSE s[j + 1]]
  BY DEF Without
<1> HIDE DEF i, n, w
<1>4. /\ DOMAIN w = 1..n
      /\ \A j \in 1..n : IF j < i THEN w[j] = s[j] ELSE w[j] = s[j + 1]
  BY <1>3
<1>5. \A j \in 1..n : j \in DOMAIN s /\ j + 1 \in DOMAIN s
  BY <1>1, <1>2, SMTT(60)
<1>6. \A j \in 1..n : w[j] \in S /\ w[j] \in Range(s)
  BY <1>1, <1>4, <1>5 DEF Range
<1>7. w \in [1..n -> S]
  BY <1>3, <1>4, <1>6
<1>8. w \in Seq(S)
  BY <1>2, <1>7, SeqFunction
<1>9. IsInjective(w)
  <2> SUFFICES ASSUME NEW a \in 1..n, NEW b \in 1..n, w[a] = w[b]
               PROVE  a = b
    BY <1>4 DEF IsInjective
  <2>1. \A x, y \in DOMAIN s : s[x] = s[y] => x = y
    BY DEF IsInjective
  <2>2. i \in Nat
    BY <1>2, SMTT(60)
  <2> QED
    BY <1>4, <1>5, <2>1, <2>2, SMTT(60)
<1>10. Range(w) \subseteq Range(s)
  BY <1>4, <1>6 DEF Range
<1> QED
  BY <1>8, <1>9, <1>10 DEF w

\* console_remove takes a console out of the list that is in it.
LEMMA ConsoleRemoveIInv ==
  ASSUME IInv, NEW c \in CPUs, ConsoleRemove(c)
  PROVE  IInv'
<1>1. /\ pc[c] = "console_remove" /\ lock["console_list_lock"] = c /\ Return(c)
      /\ UNCHANGED <<messages, head, tail, at, calls, screen, accepted, dropped, since>>
  BY DEF ConsoleRemove
<1>2. /\ todo[c] # <<>> /\ Head(todo[c]).fn = "console_remove" /\ msg[c] = Head(todo[c]).msg
      /\ ChangesList(c)
  BY <1>1 DEF IInv, CallOK, ListCalls, ChangesList
<1>3. PICK k : k = msg[c].by
  OBVIOUS
<1>4. k \in Range(list) /\ IsInjective(list) /\ list \in Seq(Consoles)
  BY <1>2, <1>3 DEF IInv, ListOK, TypeOK
<1>5. k \in Consoles
  BY <1>4, SeqLength, SMTT(60) DEF Range
<1>6. /\ lock' = [lock EXCEPT !["console_list_lock"] = NoOwner, ![k] = c]
      /\ list' = Without(list, k)
  BY <1>3 DEF ConsoleRemove
<1>7. /\ lock' \in [Locks -> CPUs \cup {NoOwner}]
      /\ lock'["print_lock"] = lock["print_lock"] /\ lock'["console_list_lock"] = NoOwner
  BY <1>5, <1>6, TwoLocks DEF IInv, TypeOK
<1>8. list' \in Seq(Consoles) /\ IsInjective(list') /\ Range(list') \subseteq Range(list)
  BY <1>4, <1>6, WithoutKept
<1>9. since' \in [Consoles -> Nat]
  BY <1>1 DEF IInv, TypeOK
<1> QED
  BY <1>1, <1>7, <1>8, <1>9, ListChangeIInv DEF ListCalls

-----------------------------------------------------------------------------
(* The theorems.                                                           *)

\* The boot-time list, free locks and an empty ring.
LEMMA InitIInv == Init => IInv
<1> SUFFICES ASSUME Init PROVE IInv
  OBVIOUS
<1>1. NoMsg \in Msgs
  BY SMTT(60) DEF NoMsg, Msgs
<1>2. Slots \in Nat \ {0, 1} /\ InitConsoles \in Seq(Consoles)
  BY LogAssumption
<1>3. TypeOK
  BY <1>1, <1>2, SMTT(60) DEF Init, TypeOK, Places
<1>4. \A c \in CPUs : pc[c] = "run" /\ todo[c] = <<>> /\ at[c] = 1
  BY DEF Init
<1>5. \A c \in CPUs : ~Printing(c) /\ ~ChangesList(c) /\ \A k \in Consoles : ~Pending(c, k)
  BY <1>4 DEF Printing, ChangesList, Pending
<1>6. \A l \in Locks : lock[l] = NoOwner
  BY DEF Init
<1>7. \A c \in CPUs : TodoOK(c) /\ CallOK(c) /\ LocksOK(c)
  BY <1>4, <1>5, <1>6, TwoLocks, LogAssumption, SMTT(60) DEF TodoOK, CallOK, LocksOK
<1>8. ListOK /\ RingOK
  BY <1>5, LogAssumption DEF Init, ListOK, RingOK
<1>9. OrderOK
  BY <1>5, SMTT(60) DEF Init, OrderOK, Older, Ordered
<1>10. ArrivesOK
  <2>1. \A k \in Range(list) \cap Writable : since[k] = 0 /\ Len(accepted) = 0
    BY LogAssumption DEF Init
  <2> QED
    BY <2>1, SMTT(60) DEF ArrivesOK
<1> QED
  BY <1>3, <1>7, <1>8, <1>9, <1>10 DEF IInv

\* Every step of every processor preserves the invariant.
LEMMA StepIInv == IInv /\ [Next]_vars => IInv'
<1> SUFFICES ASSUME IInv, [Next]_vars PROVE IInv'
  OBVIOUS
<1>1. CASE UNCHANGED vars
  <2>1. UNCHANGED <<lock, messages, head, tail, list, pc, todo, msg, at, calls, screen,
                    accepted, dropped, since>>
    BY <1>1 DEF vars
  <2>2. TypeOK'
    BY <2>1 DEF IInv, TypeOK
  <2>3. \A c \in CPUs : TodoOK(c)' /\ CallOK(c)' /\ LocksOK(c)' /\ (Printing(c)' <=> Printing(c))
    BY <2>1, OtherKept
  <2>4. ListOK' /\ RingOK'
    BY <2>1, <2>3, ListKept DEF IInv, RingOK, ChangesList
  <2>5. \A c \in CPUs, k \in Consoles : Pending(c, k)' <=> Pending(c, k)
    BY <2>1, <2>3 DEF Pending
  <2>6. OrderOK' /\ ArrivesOK'
    BY <2>1, <2>5, OrderKept, ArrivesKept DEF IInv
  <2> QED
    BY <2>2, <2>3, <2>4, <2>6 DEF IInv
<1>2. CASE Next
  <2>1. PICK c \in CPUs : CallPrintk(c) \/ CallPanic(c) \/ CallConsole(c) \/ Step(c)
    BY <1>2 DEF Next
  <2>2. CASE CallPrintk(c) \/ CallPanic(c) \/ CallConsole(c)
    BY <2>2, CallPrintkIInv, CallPanicIInv, CallConsoleIInv
  <2>3. CASE Step(c)
    <3>1. CASE PrintkWrite(c)
      BY <3>1, TooLongIInv, AcceptIInv
    <3>2. CASE Drain(c)
      BY <3>2, DrainEndIInv, DrainNextIInv
    <3> QED
      BY <2>3, <3>1, <3>2, EnterIInv, TryListIInv, EachIInv, ConsoleWriteIInv, LockListIInv,
         ConsoleAddIInv, ConsoleRemoveIInv DEF Step
  <2> QED
    BY <2>1, <2>2, <2>3
<1> QED
  BY <1>1, <1>2

\* The invariant holds throughout.
LEMMA Inductive == Spec => []IInv
BY InitIInv, StepIInv, PTL DEF Spec

\* A console shows messages in the order printk accepted them, whatever a panic
\* or a change of the list does in between: the printk that holds print_lock is
\* the only one that gives a console a message of the ring, and it has only the
\* message accepted last.
THEOREM PrintedInOrder == Spec => []InOrder
<1>1. IInv => InOrder
  <2> SUFFICES ASSUME IInv PROVE InOrder
    OBVIOUS
  <2>1. /\ head \in 0..(Slots - 1) /\ tail \in 0..(Slots - 1)
        /\ lock \in [Locks -> CPUs \cup {NoOwner}]
    BY DEF IInv, TypeOK
  <2>2. Len(accepted) \in Nat /\ DOMAIN accepted = 1..Len(accepted)
    BY SeqLength DEF IInv, TypeOK
  <2>3. ASSUME NEW k \in Consoles, NEW i \in DOMAIN screen[k], NEW j \in DOMAIN screen[k],
               Through(screen[k][i])
        PROVE  /\ screen[k][i] \in Range(accepted)
               /\ i < j /\ Through(screen[k][j]) =>
                    \E n, o \in DOMAIN accepted :
                      n < o /\ accepted[n] = screen[k][i] /\ accepted[o] = screen[k][j]
    <3>1. Older(k, Len(accepted)) /\ Ordered(k)
      BY DEF IInv, OrderOK
    <3>2. screen[k][i] \in Range(accepted)
      BY <2>2, <2>3, <3>1 DEF Older, Range
    <3> QED
      BY <2>3, <3>1, <3>2 DEF Ordered
  <2> QED
    BY <2>1, <2>3 DEF InOrder
<1> QED
  BY <1>1, Inductive, PTL

\* What printk accepted has reached every console of the list, or met a locked
\* list, by the time print_lock is free.
THEOREM PrintedIsDelivered == Spec => []Delivered
<1>1. IInv => Delivered
  <2> SUFFICES ASSUME IInv, lock["print_lock"] = NoOwner PROVE Delivered
    BY DEF Delivered
  <2>1. \A c \in CPUs : ~Printing(c)
    BY LogAssumption DEF IInv, LocksOK
  <2>2. \A c \in CPUs : \A k : ~Pending(c, k)
    BY <2>1 DEF Pending
  <2> QED
    BY <2>2 DEF Delivered, IInv, RingOK, ArrivesOK
<1> QED
  BY <1>1, Inductive, PTL

\* A message is dropped only while a console_add, a console_remove or the
\* picture of a panic has the list.
THEOREM PrintkNeverDropsPrintk == Spec => DropsOnlyOnListChange
<1>1. IInv /\ [Next]_vars =>
        [\A m \in dropped' \ dropped :
           Through(m) => Head(todo[lock["console_list_lock"]]).fn # "printk"]_vars
  <2> SUFFICES ASSUME IInv, Next, NEW m \in dropped' \ dropped, Through(m)
               PROVE  Head(todo[lock["console_list_lock"]]).fn # "printk"
    OBVIOUS
  <2>1. PICK c \in CPUs : CallPrintk(c) \/ CallPanic(c) \/ CallConsole(c) \/ Step(c)
    BY DEF Next
  <2>2. TryList(c) /\ lock["console_list_lock"] # NoOwner /\ m = msg[c]
    BY <2>1 DEF CallPrintk, CallPanic, CallConsole, Step, Enter, PrintkWrite, Drain, TryList,
                Each, ConsoleWrite, LockList, ConsoleAdd, ConsoleRemove
  <2>3. PICK d \in CPUs : d = lock["console_list_lock"]
    BY <2>2, TwoLocks DEF IInv, TypeOK
  <2>4. Printing(c) /\ d # c
    BY <2>2, <2>3 DEF TryList, IInv, CallOK, Printing, Through, LocksOK, ListCalls
  <2>5. ~Printing(d)
    BY <2>4, OnePrints
  <2>6. pc[d] \in {"each", "write"} \/ pc[d] \in ListCalls
    BY <2>3 DEF IInv, LocksOK
  <2>7. pc[d] \in ListCalls => Head(todo[d]).fn \in ListCalls
    BY DEF IInv, CallOK, ListCalls
  <2> QED
    BY <2>3, <2>5, <2>6, <2>7 DEF Printing, ListCalls
<1> QED
  BY <1>1, Inductive, PTL DEF Spec, DropsOnlyOnListChange
=============================================================================
