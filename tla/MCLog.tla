------------------------------- MODULE MCLog --------------------------------
(***************************************************************************)
(* Two processors, two consoles in the list, one of them without a write   *)
(* function, and a third that comes and goes.                              *)
(***************************************************************************)
EXTENDS Log

CONSTANTS serial, memory, fb

MCInitConsoles == <<memory, serial>>
=============================================================================
