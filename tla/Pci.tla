--------------------------------- MODULE Pci ---------------------------------
(***************************************************************************)
(* PCI: access to configuration space (devkit/pci/pci.c and                *)
(* platform/amd64/pci.c) and the scan that hangs every device into the     *)
(* device tree (pci.c, devkit/node.c).                                     *)
(*                                                                         *)
(* The scan runs on one processor before any driver, so it is one step. Of *)
(* a function only what the scan reads is kept: whether it is there, its   *)
(* class, the multi-function bit of its header and its secondary bus.      *)
(***************************************************************************)
EXTENDS Integers, SequencesExt, FiniteSets, TLC

CONSTANTS
  NBuses, NSlots, NFunctions,
  Places,      \* the triples of bus, slot and function that may be occupied
  Tables,      \* MCFG tables: sequences of first and last bus, <<>> for none
  NWords,      \* words of configuration space that are read and written
  Bytes8       \* the values of a byte

Buses == 0..(NBuses - 1)

ASSUME PciAssumption ==
  /\ Places \subseteq Buses \X (0..(NSlots - 1)) \X (0..(NFunctions - 1))
  /\ <<0, 0, 0>> \in Places

VARIABLES
  config,      \* what is at each place
  mcfg,        \* mcfg_entries; empty when port_pci_init falls back to ports
  adjacent,    \* vm_map_allocate gave the entries consecutive addresses
  nodes,       \* the device tree, in the order of dev_node_attach
  outside,     \* an access left the mapping of its MCFG entry
  fault,       \* and there was no mapping where it went
  scanned,     \* pci_init has returned
  regs,        \* configuration space of one function, in words of four bytes
  bytes,       \* the bytes its writers mean it to have (reference)
  asserted     \* an assertion of pci_legacy_read or pci_legacy_write failed

pciVars ==
  <<config, mcfg, adjacent, nodes, outside, fault, scanned, regs, bytes, asserted>>

-----------------------------------------------------------------------------
(* Reading what is at a place.                                             *)

\* Every register reads as ones.
Absent == [class |-> "none", multi |-> TRUE, secondary |-> NBuses]
Function(c, m, s) == [class |-> c, multi |-> m, secondary |-> s]

\* mcfg_bus: the first entry that has the bus, or 0.
McfgBus(bus) ==
  LET found == {i \in DOMAIN mcfg : bus \in mcfg[i].start..mcfg[i].end}
  IN  IF found = {} THEN 0 ELSE Min(found)

\* The buses that port_pci_init has mapped of an entry: the argument of
\* MCFG_MAPPING_SIZE.
Buscount(i) == mcfg[i].end - mcfg[i].start

Outside(bus) ==
  LET i == McfgBus(bus) IN i # 0 /\ bus - mcfg[i].start >= Buscount(i)

\* Behind the mapping of an entry is that of the next one or nothing.
Faults(bus) == Outside(bus) /\ ~(adjacent /\ McfgBus(bus) < Len(mcfg))

\* The bus whose configuration space pci_mcfg_read gets to; NoBus for a bus
\* without an entry, which reads as ones.
NoBus == NBuses
Accessed(bus) ==
  IF mcfg = <<>> THEN bus
  ELSE IF McfgBus(bus) = 0 THEN NoBus
  ELSE IF Outside(bus) THEN mcfg[McfgBus(bus) + 1].start
  ELSE bus

\* port_pci_read32, of a bus that does not fault.
Read(bus, slot, function) ==
  LET at == <<Accessed(bus), slot, function>>
  IN  IF at \in Places THEN config[at] ELSE Absent

-----------------------------------------------------------------------------
(* The device tree.                                                        *)

\* dev_node_attach of a new node: parent is its place in nodes.
Attach(s, kind, at, busId, parent) ==
  [s EXCEPT !.nodes = Append(@, [kind |-> kind, at |-> at, busId |-> busId,
                                 parent |-> parent])]

\* The nodes "Root" and "AMD64Platform" of devkit_init and port_devkit_init.
Root == 1
Platform == 2
FirstNodes ==
  <<[kind |-> "root", at |-> <<>>, busId |-> NoBus, parent |-> 0],
    [kind |-> "platform", at |-> <<>>, busId |-> NoBus, parent |-> Root]>>

\* dev_print_tree_n: the depth at which a node is printed, and whether the
\* climb from its parent, one step for every level, follows no NULL.
Depth(ns, n) ==
  LET up[m \in DOMAIN ns] == IF ns[m].parent = 0 THEN 0 ELSE 1 + up[ns[m].parent]
  IN  up[n]
ClimbsInside(ns, n) ==
  LET climb[k \in 0..Depth(ns, n)] ==
        IF k = 0 THEN ns[n].parent ELSE ns[climb[k - 1]].parent
  IN  \A k \in 0..(Depth(ns, n) - 1) : climb[k] \in DOMAIN ns

-----------------------------------------------------------------------------
(* The scan. A state is a record of nodes, outside and fault.              *)

RECURSIVE CheckBus(_, _)

\* check_function: a bridge is first a bus, attached next to the bus it is on
\* and scanned, and then a device like any other.
CheckFunction(s, b, slot, function) ==
  LET bus == s.nodes[b].busId
      f == Read(bus, slot, function)
      at == <<bus, slot, function>>
      a == IF f.class = "bridge"
           THEN CheckBus(Attach(s, "bus", at, f.secondary, s.nodes[b].parent),
                         Len(s.nodes) + 1)
           ELSE s
  IN  IF s.fault \/ f.class = "host" THEN s
      ELSE IF a.fault THEN a
      ELSE Attach(a, "dev", at, NoBus, b)

\* A plausible slip: the other functions are looked at for every device.
CheckSlotAlways(s, b, slot) ==
  LET bus == s.nodes[b].busId
      Others == SelectSeq([i \in 1..(NFunctions - 1) |-> i],
                          LAMBDA i : Read(bus, slot, i).class # "none")
  IN  IF Read(bus, slot, 0).class = "none" THEN s
      ELSE FoldLeft(LAMBDA t, i : CheckFunction(t, b, slot, i),
                    CheckFunction(s, b, slot, 0), Others)

\* check_slot: the other functions only of a multi-function device.
CheckSlot(s, b, slot) ==
  LET bus == s.nodes[b].busId
      Others == SelectSeq([i \in 1..(NFunctions - 1) |-> i],
                          LAMBDA i : Read(bus, slot, i).class # "none")
      first == CheckFunction(s, b, slot, 0)
  IN  IF Read(bus, slot, 0).class = "none" THEN s
      ELSE IF ~Read(bus, slot, 0).multi THEN first
      ELSE FoldLeft(LAMBDA t, i : CheckFunction(t, b, slot, i), first, Others)

\* check_bus: its first read already leaves the mapping, or never one does.
CheckBus(s, b) ==
  LET bus == s.nodes[b].busId
      seen == [s EXCEPT !.outside = @ \/ Outside(bus), !.fault = Faults(bus)]
  IN  FoldLeft(LAMBDA t, slot : IF t.fault THEN t ELSE CheckSlot(t, b, slot),
               seen, [i \in 1..NSlots |-> i - 1])

\* The functions of the host bridge that pci_init takes for root buses.
HostFunctions ==
  LET Present(n) == \A i \in 0..(n - 1) : Read(0, 0, i).class # "none"
  IN  IF ~Read(0, 0, 0).multi THEN 1
      ELSE Max({n \in 0..NFunctions : Present(n)})

\* pci_init, from devkit_init.
PciInit ==
  LET Start == [nodes |-> FirstNodes, outside |-> Outside(0), fault |-> Faults(0)]
      Scan(s, i) == IF s.fault THEN s
                    ELSE CheckBus(Attach(s, "bus", <<0, 0, i>>, i, Platform),
                                  Len(s.nodes) + 1)
      end == IF Start.fault THEN Start
             ELSE FoldLeft(Scan, Start, [i \in 1..HostFunctions |-> i - 1])
  IN  /\ ~scanned
      /\ nodes' = end.nodes /\ outside' = end.outside /\ fault' = end.fault
      /\ scanned' = TRUE
      /\ UNCHANGED <<config, mcfg, adjacent, regs, bytes, asserted>>

-----------------------------------------------------------------------------
(* Configuration space, by offset.                                         *)

Offsets == 0..(4 * NWords - 1)
Aligned(o, n) == o % n = 0

\* pci_legacy_read and pci_legacy_write assert that the offset is that of a
\* word; pci_mcfg_read and pci_mcfg_write round it down.
Permitted(o) == mcfg # <<>> \/ Aligned(o, 4)

\* What pci_read8, pci_read16 and pci_read32 return: n bytes of the word at o.
Value(o, n) == [i \in 1..n |-> regs[o \div 4][(o % 4) + i]]

PciRead(o, n) ==
  /\ ~asserted
  /\ Aligned(o, n)
  /\ asserted' = ~Permitted(o)
  /\ UNCHANGED <<config, mcfg, adjacent, nodes, outside, fault, scanned, regs, bytes>>

\* A plausible slip: the old bytes are not masked out.
StoreOver(word, o, value) ==
  [i \in 1..4 |-> LET k == i - (o % 4)
                  IN  IF k \in DOMAIN value /\ value[k] # 0 THEN value[k] ELSE word[i]]

\* The word with the bytes of value, shifted into place; the others are the
\* ones that were read before.
Store(word, o, value) ==
  [i \in 1..4 |-> LET k == i - (o % 4)
                  IN  IF k \in DOMAIN value THEN value[k] ELSE word[i]]

\* pci_write8, pci_write16 and pci_write32 of as many bytes as value has.
PciWrite(o, value) ==
  /\ ~asserted
  /\ Aligned(o, Len(value))
  /\ asserted' = ~Permitted(o)
  /\ IF Permitted(o)
     THEN /\ regs' = [regs EXCEPT ![o \div 4] = Store(@, o, value)]
          /\ bytes' = [p \in Offsets |-> IF p - o + 1 \in DOMAIN value
                                         THEN value[p - o + 1] ELSE bytes[p]]
     ELSE UNCHANGED <<regs, bytes>>
  /\ UNCHANGED <<config, mcfg, adjacent, nodes, outside, fault, scanned>>

-----------------------------------------------------------------------------
(* The machines: a host bridge, and bridges to buses of their own, with     *)
(* numbers above that of the bus they are on, as firmware assigns them.     *)

Kinds(p) ==
  LET Multi == IF p[3] = 0 THEN BOOLEAN ELSE {FALSE}
      Behind == {b \in Buses : b > p[1]}
  IN  IF p = <<0, 0, 0>> THEN {Function("host", m, NBuses) : m \in BOOLEAN}
      ELSE {Absent} \cup {Function("dev", m, NBuses) : m \in Multi}
             \cup {Function("bridge", m, b) : m \in Multi, b \in Behind}

RECURSIVE Machines(_)
Machines(S) ==
  IF S = {} THEN {<<>>}
  ELSE LET p == CHOOSE x \in S : TRUE
           Apart(m, k) == k.class = "bridge" =>
             \A q \in DOMAIN m : m[q].class = "bridge" => m[q].secondary # k.secondary
       IN  UNION {{m @@ (p :> k) : k \in {j \in Kinds(p) : Apart(m, j)}}
                    : m \in Machines(S \ {p})}

PciStart ==
  /\ nodes = FirstNodes /\ outside = FALSE /\ fault = FALSE /\ scanned = FALSE
  /\ regs = [w \in 0..(NWords - 1) |-> <<0, 0, 0, 0>>]
  /\ bytes = [o \in Offsets |-> 0]
  /\ asserted = FALSE

\* After the scan drivers use configuration space. It is that of the host
\* bridge, where its bus is mapped; to keep scan and access apart, in the
\* machine that has nothing else.
Bare == /\ \A p \in Places : p # <<0, 0, 0>> => config[p] = Absent
        /\ mcfg = <<>> \/ (McfgBus(0) # 0 /\ ~Outside(0))

PciNext ==
  \/ PciInit
  \/ /\ scanned /\ Bare
     /\ \E n \in {1, 2, 4}, o \in Offsets :
          \/ PciRead(o, n)
          \/ \E value \in [1..n -> Bytes8] : PciWrite(o, value)

-----------------------------------------------------------------------------
(* Properties.                                                             *)

\* The functions that can be seen on a bus: function 0 of a slot, and the
\* others when function 0 has the multi-function bit.
Visible(p) ==
  /\ Read(p[1], p[2], p[3]).class # "none"
  /\ p[3] # 0 => LET z == Read(p[1], p[2], 0) IN z.class # "none" /\ z.multi

RootBuses == 0..(HostFunctions - 1)
BehindBus(b) == {Read(p[1], p[2], p[3]).secondary :
                   p \in {x \in Places : x[1] = b /\ Visible(x)
                                         /\ Read(x[1], x[2], x[3]).class = "bridge"}}
Reachable ==
  LET r[n \in 0..NBuses] ==
        IF n = 0 THEN RootBuses ELSE r[n - 1] \cup UNION {BehindBus(b) : b \in r[n - 1]}
  IN  r[NBuses]

\* A scan that stays inside the mappings finds every function of every bus
\* that can be reached over bridges, as often as its bus is scanned, which is
\* once unless a function of the host bridge names a bus that is also behind a
\* bridge. In the tree of any scan every device hangs under the node of its bus
\* and every bus under the platform, and dev_print_tree finds its way from each
\* node to the root.
ScanExact ==
  scanned =>
    LET Devs(p) == {i \in DOMAIN nodes : nodes[i].kind = "dev" /\ nodes[i].at = p}
        BusNodes(b) == {i \in DOMAIN nodes : nodes[i].busId = b}
        Expected(p) == /\ p[1] \in Reachable /\ Visible(p)
                       /\ Read(p[1], p[2], p[3]).class # "host"
    IN  /\ \A i \in DOMAIN nodes :
             /\ nodes[i].kind = "bus" => nodes[i].parent = Platform
             /\ nodes[i].kind = "dev" => nodes[nodes[i].parent].busId = nodes[i].at[1]
             /\ ClimbsInside(nodes, i)
        /\ ~outside =>
             /\ \A p \in Places : Cardinality(Devs(p)) =
                  IF Expected(p) THEN Cardinality(BusNodes(p[1])) ELSE 0
             /\ \A b \in Buses :
                  /\ BusNodes(b) # {} <=> b \in Reachable
                  /\ RootBuses = {0} => Cardinality(BusNodes(b)) <= 1

\* The buses that an MCFG entry says it has are mapped: mcfg_bus hands out an
\* entry for every bus up to its end_bus, and the access that follows must find
\* that bus in what port_pci_init has mapped.
BusesMapped ==
  \A i \in DOMAIN nodes :
    nodes[i].kind = "bus" => ~Outside(nodes[i].busId)

\* A write of one, two or four bytes changes these bytes and no others, as
\* every read sees it that returns: pci_write8 and pci_write16 put back what
\* they read around their value.
ConfigMatches ==
  \A n \in {1, 2, 4}, o \in Offsets :
    Aligned(o, n) /\ Permitted(o) => Value(o, n) = [i \in 1..n |-> bytes[o + i - 1]]
=============================================================================
