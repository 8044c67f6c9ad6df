-------------------------------- MODULE Log --------------------------------
(***************************************************************************)
(* The kernel log: printk, the ring of messages, the list of consoles, and *)
(* what a failed assertion or a panic prints on its way down               *)
(* (lib/log.c, lib/panic.c, __assert_fail in lib/std.c).                   *)
(*                                                                         *)
(* A step of a processor is a stretch of code between two operations on    *)
(* spinlocks. The ring is touched only under print_lock and the list only  *)
(* under console_list_lock, so what is between them is one step. Text is   *)
(* abstracted to who printed it, its level and its length.                 *)
(***************************************************************************)
EXTENDS Integers, Sequences, Functions

CONSTANTS
  CPUs,          \* processors
  Consoles,      \* console_t objects
  Writable,      \* those with a write function
  InitConsoles,  \* the list when the other processors start
  Slots,         \* MSGS_SIZE
  MsgBufSize,    \* MSG_BUF_SIZE
  LogLevel,      \* LOG_LEVEL
  Levels,        \* levels that thread code prints with
  Sizes,         \* lengths of what it prints, the prefix of the level included
  Pluggable,     \* consoles that are added and removed
  MaxPrints,     \* bound: printk calls of thread code
  MaxChanges,    \* bound: calls of console_add and console_remove
  MaxPanics,     \* bound: processors that panic by themselves
  NoOwner        \* a spinlock that is not held

ASSUME LogAssumption ==
  /\ Writable \subseteq Consoles /\ Pluggable \subseteq Consoles
  /\ InitConsoles \in Seq(Consoles) /\ IsInjective(InitConsoles)
  /\ Consoles \cap {"print_lock", "console_list_lock"} = {}
  /\ Slots \in Nat \ {0, 1} /\ MsgBufSize \in Nat \ {0}
  /\ LogLevel \in Nat /\ Levels \subseteq Nat /\ Sizes \subseteq Nat
  /\ MaxPrints \in Nat /\ MaxChanges \in Nat /\ MaxPanics \in Nat
  /\ NoOwner \notin CPUs

VARIABLES
  lock,       \* the owner of every spinlock
  messages,   \* g_lb: the ring
  head, tail,
  list,       \* console_list
  pc,         \* where each processor is
  todo,       \* the calls it has still to make, the current one first
  msg,        \* the message it hands to the consoles
  at,         \* its position in the list of consoles
  calls,      \* calls of thread code so far
  screen,     \* what each console has been given
  accepted,   \* messages in the order they entered the ring (history)
  dropped,    \* messages that met a locked list (history)
  since       \* what was accepted when a console was added (history)

vars == <<lock, messages, head, tail, list, pc, todo, msg, at, calls, screen,
          accepted, dropped, since>>

Locks == {"print_lock", "console_list_lock"} \cup Consoles

NoMsg == [by |-> NoOwner, id |-> 0, lvl |-> 0, size |-> 0]

Message(c, id, lvl, size) == [by |-> c, id |-> id, lvl |-> lvl, size |-> size]

Call(fn, m) == [fn |-> fn, msg |-> m]

\* What panic_withstack prints: the picture straight to the consoles, then the
\* message, which stands for the lines of the stack trace too, through printk.
\* Then the processor halts.
Panic(c) ==
  << Call("consoles_write", Message(c, 0, 0, 1)),
     Call("printk", Message(c, -1, 7, 1)),
     Call("hcf", NoMsg) >>

\* __assert_fail prints the expression and panics.
AssertFail(c) == <<Call("printk", Message(c, -2, 6, 1))>> \o Panic(c)

\* The early return of printk: a level below the configured one.
Filtered(m) == m.lvl >= 1 /\ m.lvl <= 6 /\ m.lvl < LogLevel

Acquire(c, l) == lock[l] = NoOwner /\ lock' = [lock EXCEPT ![l] = c]

Release(l) == lock' = [lock EXCEPT ![l] = NoOwner]

-----------------------------------------------------------------------------
(* Calls of thread code.                                                   *)

Idle(c) == pc[c] = "run" /\ todo[c] = <<>>

CallPrintk(c) ==
  /\ Idle(c) /\ calls.printk < MaxPrints
  /\ \E lvl \in Levels, size \in Sizes :
       todo' = [todo EXCEPT ![c] =
                  <<Call("printk", Message(c, calls.printk + 1, lvl, size))>>]
  /\ calls' = [calls EXCEPT !.printk = @ + 1]
  /\ UNCHANGED <<lock, messages, head, tail, list, pc, msg, at, screen,
                 accepted, dropped, since>>

CallPanic(c) ==
  /\ Idle(c) /\ calls.panic < MaxPanics
  /\ todo' = [todo EXCEPT ![c] = Panic(c)]
  /\ calls' = [calls EXCEPT !.panic = @ + 1]
  /\ UNCHANGED <<lock, messages, head, tail, list, pc, msg, at, screen,
                 accepted, dropped, since>>

\* Consoles are added and removed by one thread at a time.
ChangesList(c) ==
  todo[c] # <<>> /\ Head(todo[c]).fn \in {"console_add", "console_remove"}

CallConsole(c) ==
  /\ Idle(c) /\ calls.console < MaxChanges
  /\ \E k \in Pluggable :
       todo' = [todo EXCEPT ![c] =
                  <<Call(IF k \in Range(list) THEN "console_remove"
                                              ELSE "console_add",
                         Message(k, 0, 0, 0))>>]
  /\ ~\E d \in CPUs : ChangesList(d)
  /\ calls' = [calls EXCEPT !.console = @ + 1]
  /\ UNCHANGED <<lock, messages, head, tail, list, pc, msg, at, screen,
                 accepted, dropped, since>>

-----------------------------------------------------------------------------
(* printk and what it calls.                                               *)

\* The call is over.
Return(c) ==
  /\ pc' = [pc EXCEPT ![c] = "run"]
  /\ todo' = [todo EXCEPT ![c] = Tail(@)]
  /\ msg' = [msg EXCEPT ![c] = NoMsg]

\* Entry of the next call. A message below the log level ends here.
Enter(c) ==
  /\ pc[c] = "run" /\ todo[c] # <<>>
  /\ LET f == Head(todo[c])
     IN IF f.fn = "printk" /\ Filtered(f.msg)
        THEN Return(c)
        ELSE /\ pc' = [pc EXCEPT ![c] = f.fn]
             /\ msg' = [msg EXCEPT ![c] = f.msg]
             /\ UNCHANGED todo
  /\ UNCHANGED <<lock, messages, head, tail, list, at, calls, screen,
                 accepted, dropped, since>>

\* logbuffer_write: nothing when the ring is full. The head moves before the
\* length is looked at, and a message that is too long fails an assertion.
LogbufferWrite(m) ==
  LET next_head == (head + 1) % Slots
  IN IF next_head = tail
     THEN UNCHANGED <<messages, head, accepted>>
     ELSE /\ head' = next_head
          /\ IF m.size < MsgBufSize
             THEN /\ messages' = [messages EXCEPT ![head] = m]
                  /\ accepted' = Append(accepted, m)
             ELSE UNCHANGED <<messages, accepted>>

TooLong(m) == m.size >= MsgBufSize /\ (head + 1) % Slots # tail

\* A plausible slip: the lock is given back once the message is in the ring.
PrintkWriteUnlocked(c) ==
  /\ pc[c] = "printk" /\ lock["print_lock"] = NoOwner
  /\ LogbufferWrite(msg[c])
  /\ pc' = [pc EXCEPT ![c] = "drain"]
  /\ UNCHANGED <<lock, todo, tail, list, msg, at, calls, screen, dropped, since>>

\* printk gets print_lock, formats, and writes to the ring.
PrintkWrite(c) ==
  /\ pc[c] = "printk"
  /\ Acquire(c, "print_lock")
  /\ LogbufferWrite(msg[c])
  /\ IF TooLong(msg[c])
     THEN /\ pc' = [pc EXCEPT ![c] = "run"]
          /\ todo' = [todo EXCEPT ![c] = AssertFail(c) \o Tail(@)]
     ELSE pc' = [pc EXCEPT ![c] = "drain"] /\ UNCHANGED todo
  /\ UNCHANGED <<tail, list, msg, at, calls, screen, dropped, since>>

\* A plausible slip: logbuffer_read leaves the tail where it is.
DrainAgain(c) ==
  /\ pc[c] = "drain" /\ tail # head
  /\ msg' = [msg EXCEPT ![c] = messages[tail]]
  /\ pc' = [pc EXCEPT ![c] = "consoles_write"]
  /\ UNCHANGED <<lock, messages, head, tail, list, todo, at, calls, screen,
                 accepted, dropped, since>>

\* logbuffer_read in the loop of _printk_buffer_write: the next message, or
\* the end of printk, which releases print_lock.
Drain(c) ==
  /\ pc[c] = "drain"
  /\ IF tail = head
     THEN /\ Release("print_lock")
          /\ Return(c)
          /\ UNCHANGED tail
     ELSE /\ tail' = (tail + 1) % Slots
          /\ msg' = [msg EXCEPT ![c] = messages[tail]]
          /\ pc' = [pc EXCEPT ![c] = "consoles_write"]
          /\ UNCHANGED <<lock, todo>>
  /\ UNCHANGED <<messages, head, list, at, calls, screen, accepted, dropped,
                 since>>

\* The end of _printk_consoles_write: back to the loop of printk, or to panic.
Written(c) ==
  IF Head(todo[c]).fn = "printk"
  THEN pc' = [pc EXCEPT ![c] = "drain"] /\ UNCHANGED <<todo, msg>>
  ELSE Return(c)

\* _printk_consoles_write: a message that meets a locked list is dropped.
TryList(c) ==
  /\ pc[c] = "consoles_write"
  /\ IF lock["console_list_lock"] = NoOwner
     THEN /\ Acquire(c, "console_list_lock")
          /\ pc' = [pc EXCEPT ![c] = "each"]
          /\ UNCHANGED <<todo, msg, dropped>>
     ELSE /\ Written(c)
          /\ dropped' = dropped \cup {msg[c]}
          /\ UNCHANGED lock
  /\ UNCHANGED <<messages, head, tail, list, at, calls, screen, accepted, since>>

\* A plausible slip: a console without write ends the loop.
EachStops(c) ==
  /\ pc[c] = "each"
  /\ IF at[c] > Len(list) \/ list[at[c]] \notin Writable
     THEN /\ Release("console_list_lock")
          /\ Written(c)
          /\ at' = [at EXCEPT ![c] = 1]
     ELSE /\ Acquire(c, list[at[c]])
          /\ pc' = [pc EXCEPT ![c] = "write"]
          /\ UNCHANGED <<todo, msg, at>>
  /\ UNCHANGED <<messages, head, tail, list, calls, screen, accepted, dropped,
                 since>>

\* The body of TAILQ_FOREACH, and its end.
Each(c) ==
  /\ pc[c] = "each"
  /\ IF at[c] > Len(list)
     THEN /\ Release("console_list_lock")
          /\ Written(c)
          /\ at' = [at EXCEPT ![c] = 1]
     ELSE /\ UNCHANGED <<todo, msg>>
          /\ IF list[at[c]] \notin Writable
             THEN /\ at' = [at EXCEPT ![c] = @ + 1]
                  /\ UNCHANGED <<pc, lock>>
             ELSE /\ Acquire(c, list[at[c]])
                  /\ pc' = [pc EXCEPT ![c] = "write"]
                  /\ UNCHANGED at
  /\ UNCHANGED <<messages, head, tail, list, calls, screen, accepted, dropped,
                 since>>

\* The console's write function, under its lock.
ConsoleWrite(c) ==
  /\ pc[c] = "write"
  /\ screen' = [screen EXCEPT ![list[at[c]]] = Append(@, msg[c])]
  /\ Release(list[at[c]])
  /\ at' = [at EXCEPT ![c] = @ + 1]
  /\ pc' = [pc EXCEPT ![c] = "each"]
  /\ UNCHANGED <<messages, head, tail, list, todo, msg, calls, accepted,
                 dropped, since>>

-----------------------------------------------------------------------------
(* The list of consoles. Both calls hold console_list_lock for two steps,  *)
(* which is when a printk finds it locked.                                 *)

LockList(c) ==
  /\ pc[c] \in {"console_add", "console_remove"}
  /\ lock["console_list_lock"] # c
  /\ Acquire(c, "console_list_lock")
  /\ UNCHANGED <<messages, head, tail, list, pc, todo, msg, at, calls, screen,
                 accepted, dropped, since>>

\* A plausible slip: the console's lock is not initialized.
ConsoleAddUninit(c) ==
  /\ pc[c] = "console_add" /\ lock["console_list_lock"] = c
  /\ Release("console_list_lock")
  /\ list' = Append(list, msg[c].by)
  /\ since' = [since EXCEPT ![msg[c].by] = Len(accepted)]
  /\ Return(c)
  /\ UNCHANGED <<messages, head, tail, at, calls, screen, accepted,
                 dropped>>

ConsoleAdd(c) ==
  /\ pc[c] = "console_add" /\ lock["console_list_lock"] = c
  /\ LET k == msg[c].by
     IN /\ lock' = [lock EXCEPT !["console_list_lock"] = NoOwner, ![k] = NoOwner]
        /\ list' = Append(list, k)
        /\ since' = [since EXCEPT ![k] = Len(accepted)]
  /\ Return(c)
  /\ UNCHANGED <<messages, head, tail, at, calls, screen, accepted,
                 dropped>>

\* TAILQ_REMOVE of the entry of k.
Without(s, k) ==
  LET i == CHOOSE i \in DOMAIN s : s[i] = k
  IN  [j \in 1..(Len(s) - 1) |-> IF j < i THEN s[j] ELSE s[j + 1]]

\* The lock of the console is taken and not given back.
ConsoleRemove(c) ==
  /\ pc[c] = "console_remove" /\ lock["console_list_lock"] = c
  /\ LET k == msg[c].by
     IN /\ lock[k] = NoOwner
        /\ lock' = [lock EXCEPT !["console_list_lock"] = NoOwner, ![k] = c]
        /\ list' = Without(list, k)
  /\ Return(c)
  /\ UNCHANGED <<messages, head, tail, at, calls, screen, accepted,
                 dropped, since>>

Step(c) ==
  \/ Enter(c)
  \/ PrintkWrite(c)
  \/ Drain(c)
  \/ TryList(c)
  \/ Each(c)
  \/ ConsoleWrite(c)
  \/ LockList(c)
  \/ ConsoleAdd(c)
  \/ ConsoleRemove(c)

Init ==
  /\ lock = [l \in Locks |-> NoOwner]
  /\ messages = [i \in 0..(Slots - 1) |-> NoMsg]
  /\ head = 0 /\ tail = 0
  /\ list = InitConsoles
  /\ pc = [c \in CPUs |-> "run"]
  /\ todo = [c \in CPUs |-> <<>>]
  /\ msg = [c \in CPUs |-> NoMsg]
  /\ at = [c \in CPUs |-> 1]
  /\ calls = [printk |-> 0, panic |-> 0, console |-> 0]
  /\ screen = [k \in Consoles |-> <<>>]
  /\ accepted = <<>>
  /\ dropped = {}
  /\ since = [k \in Consoles |-> 0]

Next ==
  \E c \in CPUs : CallPrintk(c) \/ CallPanic(c) \/ CallConsole(c) \/ Step(c)

Spec == Init /\ [][Next]_vars

FairSpec == Spec /\ \A c \in CPUs : WF_vars(Step(c))

-----------------------------------------------------------------------------
(* Properties.                                                             *)

Through(m) == m.id # 0

\* Every console shows messages in the order in which printk accepted them,
\* none more often than it was accepted, whoever printed them and whatever
\* panicked in between; the picture a panic writes past print_lock is the only
\* thing outside the order.
\* Ring indices, ring contents and positions keep their ranges.
InOrder ==
  /\ head \in 0..(Slots - 1) /\ tail \in 0..(Slots - 1)
  /\ lock \in [Locks -> CPUs \cup {NoOwner}]
  /\ \A k \in Consoles : \A i, j \in DOMAIN screen[k] :
       Through(screen[k][i]) =>
         /\ screen[k][i] \in Range(accepted)
         /\ i < j /\ Through(screen[k][j]) =>
              \E n, o \in DOMAIN accepted :
                n < o /\ accepted[n] = screen[k][i] /\ accepted[o] = screen[k][j]

\* While print_lock is free the ring is empty, and every message accepted since
\* a console was added is on that console, unless it met a locked list.
\* _printk_buffer_write drains before printk gives the lock back.
Delivered ==
  lock["print_lock"] = NoOwner =>
    /\ head = tail
    /\ \A k \in Range(list) \cap Writable :
         \A i \in (since[k] + 1)..Len(accepted) :
           accepted[i] \in Range(screen[k]) \cup dropped

\* A printk never loses its message to another printk: when a message is
\* dropped, the list is locked by a console_add, a console_remove or a panic.
DropsOnlyOnListChange ==
  [][\A m \in dropped' \ dropped :
       Through(m) => Head(todo[lock["console_list_lock"]]).fn # "printk"]_vars

\* Under fairness of the processors every call returns or ends in hcf, unless a
\* message was too long for the ring: the assertion in logbuffer_write then
\* prints while print_lock is held and nobody prints any more.
CallsReturn ==
  \A c \in CPUs :
    todo[c] # <<>> ~> \/ todo[c] = <<>> \/ pc[c] = "hcf"
                      \/ \E d \in CPUs : lock["print_lock"] = d /\ pc[d] = "printk"
=============================================================================
