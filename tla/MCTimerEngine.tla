---------------------------- MODULE MCTimerEngine ----------------------------
(***************************************************************************)
(* TimerEngine with two timers that can have the same deadline.            *)
(***************************************************************************)
EXTENDS TimerEngine, TLC

Symmetry == Permutations(Timers)
=============================================================================
