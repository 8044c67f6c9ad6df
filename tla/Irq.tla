--------------------------------- MODULE Irq ---------------------------------
(***************************************************************************)
(* Assignment of interrupt objects to vectors, kernel/irq/irq.c.           *)
(*                                                                         *)
(* A level has IRQL_VECTOR_COUNT_PER vectors; levels are counted from      *)
(* IRQL_DISPATCH, the first that has any.  irq_initialize_obj_irql runs    *)
(* under s_irq_lock at DISPATCH level and is one step.                     *)
(***************************************************************************)
EXTENDS Naturals, Sequences, FiniteSetsExt

CONSTANTS
  Objects,    \* the irq_t objects
  Levels,     \* the interrupt request levels of devices
  PerLevel    \* IRQL_VECTOR_COUNT_PER

ASSUME IrqAssumption == Levels \subseteq Nat /\ PerLevel \in Nat \ {0}

VARIABLES
  objq,       \* irq_vector_t.objq, of every vector
  objectcnt,  \* irq_vector_t.objectcnt
  shareable,  \* IRQ_SHAREABLE in irq_vector_t.flags
  isr,        \* the vectors port_register_isr has given a handler
  wanted,     \* ghost: level and flag an object was initialized with
  result      \* ghost: what irq_initialize_obj_irql returned for an object

irqVars == <<objq, objectcnt, shareable, isr, wanted, result>>

\* IRQL_TO_VECTOR, and the vectors from there that are searched.
VectorsOf(l) == (l * PerLevel)..(l * PerLevel + PerLevel - 1)
Vectors == UNION {VectorsOf(l) : l \in Levels}

Attached == UNION {Range(objq[v]) : v \in Vectors}

\* A plausible slip: a vector is shared with an object that cannot be shared.
FoundAnyShared(l, s) ==
  LET Empty  == {v \in VectorsOf(l) : objectcnt[v] = 0}
      Shared == {v \in VectorsOf(l) : shareable[v]}
      Least  == {v \in Shared : \A w \in Shared : objectcnt[v] <= objectcnt[w]}
  IN  IF Empty # {} THEN {Min(Empty)}
      ELSE IF Shared # {} THEN {Min(Least)} ELSE {}

\* The vectors that a search for level l with flag s ends with: the first one
\* without objects, or else the first with the fewest among the shareable.
Found(l, s) ==
  LET Empty  == {v \in VectorsOf(l) : objectcnt[v] = 0}
      Shared == {v \in VectorsOf(l) : s /\ shareable[v]}
      Least  == {v \in Shared : \A w \in Shared : objectcnt[v] <= objectcnt[w]}
  IN  IF Empty # {} THEN {Min(Empty)}
      ELSE IF Shared # {} THEN {Min(Least)} ELSE {}

\* irq_register_handler, ending in port_register_isr, which refuses a vector
\* that already has a handler.
Register(obj, v, s) ==
  /\ shareable' = [shareable EXCEPT ![v] = IF objectcnt[v] = 0 THEN s ELSE @]
  /\ objq' = [objq EXCEPT ![v] = Append(@, obj)]
  /\ objectcnt' = [objectcnt EXCEPT ![v] = @ + 1]
  /\ isr' = isr \cup {v}
  /\ result' = [result EXCEPT ![obj] = IF v \in isr THEN 1 ELSE 0]

\* irq_initialize_obj_irql of an object without a vector.
Initialize(obj, l, s) ==
  /\ obj \notin Attached
  /\ wanted' = [wanted EXCEPT ![obj] = <<l, s>>]
  /\ \/ \E v \in Found(l, s) : Register(obj, v, s)
     \/ /\ Found(l, s) = {}
        /\ result' = [result EXCEPT ![obj] = 1]
        /\ UNCHANGED <<objq, objectcnt, shareable, isr>>

\* irq_init and irq_allocate_obj of every object.
IrqInit ==
  /\ objq = [v \in Vectors |-> <<>>]
  /\ objectcnt = [v \in Vectors |-> 0]
  /\ shareable = [v \in Vectors |-> FALSE]
  /\ isr = {}
  /\ wanted = [obj \in Objects |-> <<>>]
  /\ result = [obj \in Objects |-> 0]

IrqNext == \E obj \in Objects, l \in Levels, s \in BOOLEAN : Initialize(obj, l, s)

IrqSpec == IrqInit /\ [][IrqNext]_irqVars

-----------------------------------------------------------------------------
(* Properties                                                              *)

\* Vectors, counts and flags have their types, and objectcnt, which both the
\* search and irq_do_dispatch trust, is the length of the object queue.
IrqTypeOK ==
  /\ objq \in [Vectors -> Seq(Objects)]
  /\ objectcnt = [v \in Vectors |-> Len(objq[v])]
  /\ shareable \in [Vectors -> BOOLEAN]
  /\ isr = {v \in Vectors : objq[v] # <<>>}
  /\ result \in [Objects -> {0, 1}]

\* Objects share a vector only when every one of them was initialized with
\* IRQ_SHAREABLE, whatever order they came in: a device that cannot share its
\* line is alone on its vector, at the level it asked for.  Vectors are shared
\* only when the level has no free vector left.
SharingAgreed ==
  /\ IrqTypeOK
  /\ \A v \in Vectors : \A i, j \in DOMAIN objq[v] :
       /\ v \in VectorsOf(wanted[objq[v][i]][1])
       /\ i # j => objq[v][i] # objq[v][j] /\ wanted[objq[v][i]][2]
  /\ \A l \in Levels :
       (\E v \in VectorsOf(l) : objectcnt[v] > 1)
         => \A v \in VectorsOf(l) : objectcnt[v] > 0

\* irq_initialize_obj_irql asserts that its object has no vector yet, so that
\* an object may be tried again where it failed: one that has got a vector is
\* not reported with the 1 that stands for no vector found.
AttachedIsReported == \A obj \in Attached : result[obj] = 0
=============================================================================
