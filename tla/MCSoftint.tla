------------------------------ MODULE MCSoftint ------------------------------
(***************************************************************************)
(* Softint with a device interrupt, the clock interrupt above it, and two  *)
(* DPCs.                                                                   *)
(***************************************************************************)
EXTENDS Softint, TLC

CONSTANTS device, clock

MCIrqs  == {device, clock}
MCLevel == (device :> 3) @@ (clock :> 13)
=============================================================================
