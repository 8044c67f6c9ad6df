------------------------------- MODULE DpcQueue -------------------------------
(***************************************************************************)
(* What the DPC queue of a CPU promises: DPCs run in the order in which    *)
(* they were enqueued, one at a time, and enqueueing a DPC that is still   *)
(* in the queue changes nothing.                                           *)
(***************************************************************************)
EXTENDS Naturals, Sequences

CONSTANTS Dpcs, NoDpc

VARIABLES
  queue,    \* the enqueued DPCs, first in first out
  running   \* the DPC whose function is being executed

vars == <<queue, running>>

Enqueue(d) ==
  /\ \A i \in DOMAIN queue : queue[i] # d
  /\ queue' = Append(queue, d)
  /\ UNCHANGED running

Start ==
  /\ running = NoDpc
  /\ queue # <<>>
  /\ running' = Head(queue)
  /\ queue' = Tail(queue)

Finish ==
  /\ running # NoDpc
  /\ running' = NoDpc
  /\ UNCHANGED queue

Init == queue = <<>> /\ running = NoDpc

Next == Start \/ Finish \/ \E d \in Dpcs : Enqueue(d)

Spec == Init /\ [][Next]_vars

\* An enqueued DPC is run, and the function that runs returns.
Fairness == WF_vars(Start) /\ WF_vars(Finish)

FairSpec == Spec /\ Fairness
=============================================================================
