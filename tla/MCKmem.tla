------------------------------- MODULE MCKmem -------------------------------
(***************************************************************************)
(* Five virtual pages under two tables of the second level, fewer physical *)
(* pages than would back all of them.                                      *)
(***************************************************************************)
EXTENDS Kmem

MCKernelPages == 0..4

KmemSpec == KmemInit /\ [][KmemNext]_kmemVars
=============================================================================
