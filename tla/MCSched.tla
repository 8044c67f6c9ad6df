------------------------------- MODULE MCSched -------------------------------
(***************************************************************************)
(* Sched with two threads of the middle priority, one above, one at the    *)
(* priority of the idle thread.                                            *)
(***************************************************************************)
EXTENDS Sched, TLC

CONSTANTS low, mid1, mid2, high, idle

MCThreads  == {low, mid1, mid2, high}
MCPriority == (low :> 0) @@ (mid1 :> 1) @@ (mid2 :> 1) @@ (high :> 2) @@ (idle :> 0)
=============================================================================
