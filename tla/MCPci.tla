------------------------------- MODULE MCPci --------------------------------
(***************************************************************************)
(* Machines with up to three buses, for TLC.                               *)
(***************************************************************************)
EXTENDS Pci

\* Two slots of two functions on bus 0, a single function on bus 1 and bus 2.
MCPlaces == {<<0, 0, 0>>, <<0, 0, 1>>, <<0, 1, 0>>, <<0, 1, 1>>,
             <<1, 0, 0>>, <<2, 0, 0>>}

\* No table, one with a bus to spare, ones whose last bus may be in use or
\* that leave buses out, and two entries.
MCEntry(a, b) == [start |-> a, end |-> b]
MCTables == {<<>>, <<MCEntry(0, 3)>>, <<MCEntry(0, 2)>>, <<MCEntry(0, 1)>>,
             <<MCEntry(1, 3)>>, <<MCEntry(0, 1), MCEntry(2, 3)>>}

PciMachines ==
  /\ PciStart
  /\ config \in Machines(Places)
  /\ mcfg \in Tables
  /\ adjacent \in IF Len(mcfg) > 1 THEN BOOLEAN ELSE {FALSE}

PciSpec == PciMachines /\ [][PciNext]_pciVars
=============================================================================
