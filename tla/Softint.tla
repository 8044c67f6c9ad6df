------------------------------- MODULE Softint -------------------------------
(***************************************************************************)
(* Interrupt request levels, software interrupts and DPCs of one CPU:      *)
(* kernel/irq/irql.c, kernel/irq/int.c, kernel/irq/dpc.c and handle_irq.   *)
(*                                                                         *)
(* The stack holds one frame for the thread code and one for everything    *)
(* that interrupts it or is called by it; the last frame executes.  Code   *)
(* that runs with interrupts disabled is one step, so an interrupt can     *)
(* fall wherever the code allows one.  The places of a frame:              *)
(*   "passive", "raised"  thread code at PASSIVE and at DISPATCH level     *)
(*   "isr", "isrend"      handle_irq before and after the driver's handler *)
(*   "lower"   irql_lower, before the level is set                         *)
(*   "test"    irql_lower, before the pending bits are tested              *)
(*   "enter"   softint_dispatch, before interrupts are disabled            *)
(*   "loop"    softint_dispatch, the test of the while loop                *)
(*   "dpcs"    dpc_run_queue, before the queue is looked at                *)
(*   "fn"      in the function of a DPC                                    *)
(*   "end"     dpc_interrupt, before interrupts are disabled               *)
(***************************************************************************)
EXTENDS Naturals, Sequences, FiniteSets, Functions

CONSTANTS
  Dpcs,      \* the DPC objects
  NoDpc,
  Irqs,      \* the interrupt sources
  level      \* the level of an interrupt source, from its vector

PASSIVE  == 0
DISPATCH == 2

ASSUME LevelAssumption ==
  /\ NoDpc \notin Dpcs
  /\ IsFiniteSet(Irqs) /\ level \in [Irqs -> 3..15]

VARIABLES
  irql,      \* the current level (CR8)
  ints,      \* interrupts are enabled
  pending,   \* softint_pending, as the set of pending levels
  dpcq,      \* dpc_queue_t.dpcq
  enqueued,  \* the DPCs whose enqueued flag is set
  count,     \* dpc_queue_t.dpc_count
  stack

dpcVars == <<dpcq, enqueued, count>>
vars == <<irql, ints, pending, dpcVars, stack>>

\* The last element of a sequence, and what is before it.
Last(s) == s[Len(s)]
Front(s) == SubSeq(s, 1, Len(s) - 1)

Top == Last(stack)
At(place) == Top.at = place

\* A frame of thread code or of handle_irq; old is the level to return to.
Frame(place, lev) ==
  [at |-> place, to |-> lev, old |-> TRUE, iret |-> FALSE, dpc |-> NoDpc]

Goto(place) == stack' = Front(stack) \o <<[Top EXCEPT !.at = place]>>

-----------------------------------------------------------------------------
(* DPC queue                                                               *)

EnqueueAgain(d) ==
  /\ count' = count + 1
  /\ dpcq' = Append(dpcq, d)
  /\ enqueued' = enqueued \cup {d}
  /\ pending' = pending \cup {DISPATCH}

\* dpc_enqueue, with interrupts disabled by acquire_dpc_lock.
Enqueue(d) ==
  IF d \in enqueued
  THEN UNCHANGED <<pending, dpcVars>>
  ELSE /\ count' = count + 1
       /\ dpcq' = Append(dpcq, d)
       /\ enqueued' = enqueued \cup {d}
       /\ pending' = pending \cup {DISPATCH}

RunQueueLast ==
  /\ At("dpcs")
  /\ \/ /\ dpcq = <<>>
        /\ Goto("end")
        /\ UNCHANGED dpcVars
     \/ /\ dpcq # <<>>
        /\ dpcq' = Front(dpcq)
        /\ count' = count - 1
        /\ enqueued' = enqueued \ {Last(dpcq)}
        /\ stack' = Front(stack) \o <<[Top EXCEPT !.at = "fn", !.dpc = Last(dpcq)]>>
  /\ UNCHANGED <<irql, ints, pending>>

\* One iteration of dpc_run_queue, up to the call of the function.
RunQueue ==
  /\ At("dpcs")
  /\ \/ /\ dpcq = <<>>
        /\ Goto("end")
        /\ UNCHANGED dpcVars
     \/ /\ dpcq # <<>>
        /\ dpcq' = Tail(dpcq)
        /\ count' = count - 1
        /\ enqueued' = enqueued \ {Head(dpcq)}
        /\ stack' = Front(stack) \o <<[Top EXCEPT !.at = "fn", !.dpc = Head(dpcq)]>>
  /\ UNCHANGED <<irql, ints, pending>>

\* A DPC function enqueues a DPC, possibly its own, or returns.
FnEnqueue(d) ==
  /\ At("fn")
  /\ Enqueue(d)
  /\ UNCHANGED <<irql, ints, stack>>

FnReturn ==
  /\ At("fn")
  /\ stack' = Front(stack) \o <<[Top EXCEPT !.at = "dpcs", !.dpc = NoDpc]>>
  /\ UNCHANGED <<irql, ints, pending, dpcVars>>

-----------------------------------------------------------------------------
(* Software interrupts                                                     *)

\* softint_pending >> lev, and softint_pending & (0xff << lev).
PendingAbove(lev) == \E p \in pending : p > lev

\* irql_lower returns: to thread code, or to the end of handle_irq and, with
\* iret, to the interrupted frame with interrupts enabled.
Return ==
  /\ stack' = Front(stack)
  /\ ints' = (Top.iret \/ Top.old)

\* irql_set(level) in irql_lower.
Lower ==
  /\ At("lower")
  /\ irql' = Top.to
  /\ Goto("test")
  /\ UNCHANGED <<ints, pending, dpcVars>>

\* The test of the pending bits in irql_lower.
Test ==
  /\ At("test")
  /\ \/ PendingAbove(Top.to) /\ Goto("enter") /\ UNCHANGED ints
     \/ ~PendingAbove(Top.to) /\ Return
  /\ UNCHANGED <<irql, pending, dpcVars>>

\* port_set_ints(0) at the entry of softint_dispatch.
Enter ==
  /\ At("enter")
  /\ stack' = Front(stack) \o <<[Top EXCEPT !.at = "loop", !.old = ints]>>
  /\ ints' = FALSE
  /\ UNCHANGED <<irql, pending, dpcVars>>

LoopStaysRaised ==
  /\ At("loop")
  /\ \/ /\ DISPATCH \in pending /\ PendingAbove(Top.to)
        /\ pending' = pending \ {DISPATCH}
        /\ irql' = DISPATCH
        /\ ints' = TRUE
        /\ Goto("dpcs")
     \/ /\ ~PendingAbove(Top.to)
        /\ Return
        /\ UNCHANGED <<irql, pending>>
  /\ UNCHANGED dpcVars

\* The while loop of softint_dispatch with the entry of dpc_interrupt, and
\* the exit of softint_dispatch.
Loop ==
  /\ At("loop")
  /\ \/ /\ DISPATCH \in pending /\ PendingAbove(Top.to)
        /\ pending' = pending \ {DISPATCH}
        /\ irql' = DISPATCH
        /\ ints' = TRUE
        /\ Goto("dpcs")
     \/ /\ ~PendingAbove(Top.to)
        /\ irql' = Top.to
        /\ Return
        /\ UNCHANGED pending
  /\ UNCHANGED dpcVars

EndOfOnePass ==
  /\ At("end")
  /\ irql' = Top.to
  /\ Return
  /\ UNCHANGED <<pending, dpcVars>>

\* port_disable_ints at the end of dpc_interrupt.
End ==
  /\ At("end")
  /\ ints' = FALSE
  /\ Goto("loop")
  /\ UNCHANGED <<irql, pending, dpcVars>>

-----------------------------------------------------------------------------
(* Interrupts                                                              *)

\* The processor delivers an interrupt above the current level, and handle_irq
\* raises the level and enables interrupts again.
Interrupt(i) ==
  /\ ints
  /\ level[i] > irql
  /\ stack' = Append(stack, Frame("isr", irql))
  /\ irql' = level[i]
  /\ UNCHANGED <<ints, pending, dpcVars>>

\* The driver's handler enqueues a DPC, or does not.
Handler ==
  /\ At("isr")
  /\ Goto("isrend")
  /\ \/ \E d \in Dpcs : Enqueue(d)
     \/ UNCHANGED <<pending, dpcVars>>
  /\ UNCHANGED <<irql, ints>>

\* handle_irq disables interrupts and lowers the level to the saved one.
IsrEnd ==
  /\ At("isrend")
  /\ ints' = FALSE
  /\ stack' = Front(stack) \o <<[Top EXCEPT !.at = "lower", !.iret = TRUE]>>
  /\ UNCHANGED <<irql, pending, dpcVars>>

-----------------------------------------------------------------------------
(* Thread code                                                             *)

\* irql_raise(DISPATCH)
Raise ==
  /\ At("passive")
  /\ irql' = DISPATCH
  /\ Goto("raised")
  /\ UNCHANGED <<ints, pending, dpcVars>>

\* timer_install and timer_uninstall enqueue their DPC at DISPATCH level.
ThreadEnqueue(d) ==
  /\ At("raised")
  /\ Enqueue(d)
  /\ UNCHANGED <<irql, ints, stack>>

\* irql_lower(PASSIVE) is called; the thread continues at PASSIVE level.
CallLower ==
  /\ At("raised")
  /\ stack' = Front(stack) \o <<Frame("passive", PASSIVE), Frame("lower", PASSIVE)>>
  /\ UNCHANGED <<irql, ints, pending, dpcVars>>

-----------------------------------------------------------------------------
Init ==
  /\ irql = PASSIVE
  /\ ints = TRUE
  /\ pending = {}
  /\ dpcq = <<>>
  /\ enqueued = {}
  /\ count = 0
  /\ stack = <<Frame("passive", PASSIVE)>>

Dispatcher == Lower \/ Test \/ Enter \/ Loop \/ RunQueue \/ FnReturn \/ End

ThreadCode == Raise \/ CallLower \/ \E d \in Dpcs : ThreadEnqueue(d)

Next ==
  \/ Dispatcher \/ ThreadCode \/ Handler \/ IsrEnd
  \/ \E d \in Dpcs : FnEnqueue(d)
  \/ \E i \in Irqs : Interrupt(i)

Spec == Init /\ [][Next]_vars

\* Interrupted code continues: however often interrupts arrive, the frame at
\* each depth of the stack keeps executing, thread code that raised the level
\* lowers it, and a DPC function returns.
Depths == 1..(3 + Cardinality(Irqs))

Step == Dispatcher \/ Handler \/ IsrEnd \/ CallLower

FairSpec == Spec /\ \A n \in Depths : SF_vars(Len(stack) = n /\ Step)

-----------------------------------------------------------------------------
(* Properties                                                              *)

Places == {"passive", "raised", "isr", "isrend", "lower", "test", "enter",
           "loop", "dpcs", "fn", "end"}

\* Frames, levels and queues have their types; in particular handle_irq raises
\* the level, so that interrupts nest at most once per source.
TypeOK ==
  /\ irql \in 0..15
  /\ ints \in BOOLEAN
  /\ pending \subseteq {DISPATCH}
  /\ dpcq \in Seq(Dpcs)
  /\ enqueued \in SUBSET Dpcs
  /\ count \in Nat
  /\ Len(stack) \in Depths
  /\ stack \in Seq([at : Places, to : 0..15, old : BOOLEAN, iret : BOOLEAN,
                    dpc : Dpcs \cup {NoDpc}])

\* The frames that are executing dpc_run_queue.
Draining == {i \in DOMAIN stack : stack[i].at \in {"dpcs", "fn"}}

\* No software interrupt is lost: while thread code executes at PASSIVE level
\* no DPC waits, whichever interrupts arrived between the test of the pending
\* bits and the change of the level.
PassiveIsQuiet == At("passive") => ~PendingAbove(PASSIVE) /\ dpcq = <<>>

\* The enqueued flags and the count agree with the queue, a DPC is in it at
\* most once, and a DPC that waits is announced by the pending bit or is
\* going to be found by the dpc_run_queue that is executing, which never
\* interrupts itself.
QueueConsistent ==
  /\ TypeOK
  /\ count = Len(dpcq)
  /\ enqueued = Range(dpcq)
  /\ Cardinality(enqueued) = count
  /\ dpcq # <<>> => DISPATCH \in pending \/ Draining # {}
  /\ Cardinality(Draining) <= 1

\* Returning from irql_lower restores the level that the interrupted or
\* calling code expects, with interrupts enabled.
LevelRestored ==
  [][Len(stack') < Len(stack) =>
       /\ ints'
       /\ irql' = CASE Last(stack').at = "passive" -> PASSIVE
                    [] Last(stack').at \in {"raised", "dpcs", "fn", "end"} -> DISPATCH
                    [] OTHER -> Top.to]_vars

\* The function that is running, if any.
Running ==
  IF \E i \in DOMAIN stack : stack[i].dpc # NoDpc
  THEN stack[CHOOSE i \in DOMAIN stack : stack[i].dpc # NoDpc].dpc
  ELSE NoDpc

\* The queue behaves like a queue of DPCs that run one at a time in order,
\* and each of them eventually runs.
Abstract == INSTANCE DpcQueue WITH queue <- dpcq, running <- Running

ImplementsDpcQueue == Abstract!FairSpec
=============================================================================
