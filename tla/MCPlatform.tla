----------------------------- MODULE MCPlatform -----------------------------
(***************************************************************************)
(* Boot, PCI, interrupt vectors and arenas, for TLC.  What they have in    *)
(* common is settled before the later ones begin, so a behaviour exercises *)
(* one of them, chosen at the start.                                       *)
(***************************************************************************)
EXTENDS Vmem, Boot, MCPci, Irq

CONSTANTS o1, o2, o3, o4

VARIABLE subject

platformVars == <<vars, bootVars, pciVars, irqVars, subject>>

\* The boot processor first, last and in the middle, LAPIC ids with a gap, and
\* more cores than MAX_CORES.
MCSmpLists == {<<0>>, <<0, 1, 2>>, <<2, 0, 1>>, <<3, 1, 0>>, <<0, 4, 2, 1>>,
               <<1, 2, 3, 0>>}

\* Every entry of up to twelve units from one of nine bases.
MCMemEntries == [base : 0..8, length : 1..12]
MCSections == {[start |-> 0, end |-> 4], [start |-> 3, end |-> 9], [start |-> 5, end |-> 6]}

\* More interrupt objects than two levels of two vectors hold unshared.
MCObjects == {o1, o2, o3, o4}

MCSourceAddresses == 0..4

\* Before its first use.
BootUnused == BootInit /\ smp = <<0>>
PciUnused == /\ PciStart /\ mcfg = <<>> /\ adjacent = FALSE
             /\ config = [p \in Places |-> Absent]

PlatformInit ==
  /\ Init /\ IrqInit
  /\ subject \in {"boot", "pci", "irq", "vmem"}
  /\ IF subject = "boot" THEN BootInit    ELSE BootUnused
  /\ IF subject = "pci"  THEN PciMachines ELSE PciUnused

BootRuns(c) ==
  /\ subject = "boot" /\ BootStep(c)
  /\ UNCHANGED <<vars, pciVars, irqVars, subject>>

PlatformNext ==
  \/ \E c \in Cores : BootRuns(c)
  \/ /\ subject = "pci" /\ PciNext
     /\ UNCHANGED <<vars, bootVars, irqVars, subject>>
  \/ /\ subject = "irq" /\ IrqNext
     /\ UNCHANGED <<vars, bootVars, pciVars, subject>>
  \/ /\ subject = "vmem" /\ Next
     /\ UNCHANGED <<bootVars, pciVars, irqVars, subject>>

\* Every core that runs goes on running.
PlatformSpec ==
  /\ PlatformInit /\ [][PlatformNext]_platformVars
  /\ \A c \in 1..4 : WF_platformVars(c \in Cores /\ BootRuns(c))
=============================================================================
