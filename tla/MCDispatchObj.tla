---------------------------- MODULE MCDispatchObj ----------------------------
(***************************************************************************)
(* DispatchObj with three threads and one object of each kind.             *)
(***************************************************************************)
EXTENDS DispatchObj, TLC

Symmetry == Permutations(Threads)
=============================================================================
