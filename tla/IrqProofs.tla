------------------------------ MODULE IrqProofs ------------------------------
(***************************************************************************)
(* Proofs about Irq, for every set of objects and levels and every number  *)
(* of vectors per level.                                                   *)
(***************************************************************************)
EXTENDS Irq, SequenceTheorems, WellFoundedInduction, TLAPS

Settings == Levels \X BOOLEAN

\* An object on a vector has a level and a flag, the vector is one of the
\* level, and the flag of the vector is a promise of all its objects.
Placed(v) ==
  /\ IsInjective(objq[v])
  /\ Len(objq[v]) > 1 => shareable[v]
  /\ \A i \in DOMAIN objq[v] :
       /\ wanted[objq[v][i]] \in Settings
       /\ v \in VectorsOf(wanted[objq[v][i]][1])
       /\ shareable[v] => wanted[objq[v][i]][2]

\* Vectors of a level are shared only when none of them is free.
FreeFirst(l) ==
  (\E v \in VectorsOf(l) : objectcnt[v] > 1) => \A v \in VectorsOf(l) : objectcnt[v] > 0

IInv ==
  /\ IrqTypeOK
  /\ wanted \in [Objects -> {<<>>} \cup Settings]
  /\ \A v \in Vectors : Placed(v)
  /\ \A l \in Levels : FreeFirst(l)

-----------------------------------------------------------------------------
(* Vectors and their search.                                               *)

\* The vectors of two levels are apart.
LEMMA VectorLevel ==
  ASSUME NEW l \in Levels, NEW k \in Levels, NEW v \in VectorsOf(l), v \in VectorsOf(k)
  PROVE  l = k
<1> USE IrqAssumption
<1>1. \A a, b \in Nat : a < b => a * PerLevel + PerLevel <= b * PerLevel
  <2> TAKE a, b \in Nat
  <2> HAVE a < b
  <2>1. PICK d \in Nat : b = a + 1 + d
    <3>1. b - a - 1 \in Nat /\ b = a + 1 + (b - a - 1)
      OBVIOUS
    <3> QED
      BY <3>1
  <2>2. b * PerLevel = a * PerLevel + PerLevel + d * PerLevel
    BY <2>1
  <2>3. d * PerLevel \in Nat /\ a * PerLevel \in Nat
    OBVIOUS
  <2> QED
    BY <2>2, <2>3
<1>2. l * PerLevel \in Nat /\ k * PerLevel \in Nat /\ l \in Nat /\ k \in Nat
  OBVIOUS
<1> QED
  BY <1>1, <1>2 DEF VectorsOf

\* A set of numbers that is not empty has a least one.
LEMMA LeastNumber ==
  ASSUME NEW S \in SUBSET Nat, S # {}
  PROVE  \E n \in S : \A m \in S : n <= m
<1> DEFINE R == OpToRel(<, Nat)
<1>1. \A a, b \in Nat : a < b => <<a, b>> \in R
  BY DEF OpToRel
<1>2. IsWellFoundedOn(R, Nat)
  BY NatLessThanWellFounded
<1> HIDE DEF R
<1>3. PICK n \in S : \A m \in S : ~(<<m, n>> \in R)
  BY <1>2, WFMin
<1>4. \A m \in S : ~(m < n)
  BY <1>1, <1>3
<1>5. \A m \in S : n <= m
  BY <1>4
<1> QED
  BY <1>5

\* Min is a member of its set.
LEMMA MinIsMember ==
  ASSUME NEW S \in SUBSET Nat, S # {}
  PROVE  Min(S) \in S
<1>1. PICK n \in S : \A m \in S : n <= m
  BY LeastNumber
<1> QED
  BY <1>1 DEF Min

\* The search ends with a free vector of the level, or, when there is none, with
\* one that is shareable for an object that is.
LEMMA FoundVector ==
  ASSUME IrqTypeOK, NEW l \in Levels, NEW s \in BOOLEAN, NEW v \in Found(l, s)
  PROVE  /\ v \in VectorsOf(l)
         /\ \/ objectcnt[v] = 0
            \/ s /\ shareable[v] /\ \A w \in VectorsOf(l) : objectcnt[w] # 0
<1> DEFINE Empty  == {w \in VectorsOf(l) : objectcnt[w] = 0}
           Shared == {w \in VectorsOf(l) : s /\ shareable[w]}
           Least  == {w \in Shared : \A x \in Shared : objectcnt[w] <= objectcnt[x]}
<1>1. l * PerLevel \in Nat /\ VectorsOf(l) \subseteq Nat /\ VectorsOf(l) \subseteq Vectors
  BY IrqAssumption DEF VectorsOf, Vectors
<1>2. CASE Empty # {}
  <2>1. v = Min(Empty)
    BY <1>2 DEF Found
  <2>2. v \in Empty
    BY <1>1, <1>2, <2>1, MinIsMember
  <2> QED
    BY <2>2
<1>3. CASE Empty = {} /\ Shared # {}
  <2>1. v = Min(Least)
    BY <1>3 DEF Found
  <2>2. Least # {}
    <3> DEFINE C == {objectcnt[w] : w \in Shared}
    <3>1. C \in SUBSET Nat /\ C # {}
      BY <1>1, <1>3 DEF IrqTypeOK
    <3>2. PICK n \in C : \A m \in C : n <= m
      BY <3>1, LeastNumber
    <3>3. PICK w \in Shared : objectcnt[w] = n
      BY <3>2
    <3>4. w \in Least
      BY <3>2, <3>3
    <3> QED
      BY <3>4
  <2>3. Least \in SUBSET Nat
    BY <1>1
  <2>4. v \in Least
    BY <2>1, <2>2, <2>3, MinIsMember
  <2> QED
    BY <1>3, <2>4
<1>4. ~(Empty = {} /\ Shared = {})
  BY DEF Found
<1> QED
  BY <1>2, <1>3, <1>4

-----------------------------------------------------------------------------
(* The invariant.                                                          *)

\* irq_init leaves every vector without objects.
LEMMA InitIInv ==
  IrqInit => IInv
<1> SUFFICES ASSUME IrqInit PROVE IInv
  OBVIOUS
<1>1. IrqTypeOK
  BY DEF IrqInit, IrqTypeOK
<1>2. wanted \in [Objects -> {<<>>} \cup Settings]
  BY DEF IrqInit
<1>3. \A v \in Vectors : Placed(v)
  BY DEF IrqInit, Placed, IsInjective
<1>4. \A l \in Levels : FreeFirst(l)
  BY DEF IrqInit, FreeFirst, Vectors
<1> QED
  BY <1>1, <1>2, <1>3, <1>4 DEF IInv

\* Vectors without the new object are placed as before, with the new object's
\* wish recorded.
LEMMA PlacedStays ==
  ASSUME IInv, NEW obj \in Objects, NEW l \in Levels, NEW s \in BOOLEAN,
         obj \notin Attached, wanted' = [wanted EXCEPT ![obj] = <<l, s>>],
         NEW v \in Vectors, objq'[v] = objq[v], shareable'[v] = shareable[v]
  PROVE  Placed(v)'
<1>1. \A i \in DOMAIN objq[v] : objq[v][i] # obj /\ objq[v][i] \in Objects
  BY DEF IInv, IrqTypeOK, Attached, Range
<1>2. \A i \in DOMAIN objq[v] : wanted'[objq[v][i]] = wanted[objq[v][i]]
  BY <1>1 DEF IInv
<1> QED
  BY <1>2 DEF IInv, Placed, IsInjective

\* irq_register_handler with the vector that the search found keeps the invariant.
LEMMA RegisterIInv ==
  ASSUME IInv, NEW obj \in Objects, NEW l \in Levels, NEW s \in BOOLEAN,
         obj \notin Attached, wanted' = [wanted EXCEPT ![obj] = <<l, s>>],
         NEW v \in Found(l, s), Register(obj, v, s)
  PROVE  IInv'
<1>1. /\ v \in VectorsOf(l)
      /\ \/ objectcnt[v] = 0
         \/ s /\ shareable[v] /\ \A w \in VectorsOf(l) : objectcnt[w] # 0
  BY FoundVector DEF IInv
<1>2. v \in Vectors
  BY <1>1 DEF Vectors
<1>3. /\ objq \in [Vectors -> Seq(Objects)]
      /\ objectcnt = [w \in Vectors |-> Len(objq[w])]
      /\ shareable \in [Vectors -> BOOLEAN]
  BY DEF IInv, IrqTypeOK
<1>4. /\ objq' \in [Vectors -> Seq(Objects)]
      /\ objq'[v] = Append(objq[v], obj)
      /\ \A w \in Vectors \ {v} : objq'[w] = objq[w]
  BY <1>2, <1>3 DEF Register
<1>5. /\ shareable' \in [Vectors -> BOOLEAN]
      /\ \A w \in Vectors \ {v} : shareable'[w] = shareable[w]
      /\ objectcnt[v] = 0 => shareable'[v] = s
      /\ objectcnt[v] # 0 => shareable'[v] = shareable[v]
  BY <1>2, <1>3 DEF Register
<1>6. Len(objq[v]) \in Nat /\ Len(objq'[v]) = Len(objq[v]) + 1
  BY <1>2, <1>3, <1>4
<1>7. objectcnt' = [w \in Vectors |-> Len(objq'[w])]
  <2>1. objectcnt' = [w \in Vectors |-> IF w = v THEN objectcnt[v] + 1 ELSE objectcnt[w]]
    BY <1>2, <1>3 DEF Register
  <2>2. \A w \in Vectors :
          (IF w = v THEN objectcnt[v] + 1 ELSE objectcnt[w]) = Len(objq'[w])
    BY <1>2, <1>3, <1>4, <1>6
  <2> QED
    BY <2>1, <2>2
<1>8. isr' = {w \in Vectors : objq'[w] # <<>>}
  <2>1. objq'[v] # <<>>
    <3>1. Len(objq'[v]) # 0
      BY <1>6
    <3> QED
      BY <3>1
  <2> QED
    BY <1>2, <1>4, <2>1 DEF Register, IInv, IrqTypeOK
<1>9. IrqTypeOK'
  <2>1. result' \in [Objects -> {0, 1}]
    BY DEF Register, IInv, IrqTypeOK
  <2> QED
    BY <1>4, <1>5, <1>7, <1>8, <2>1 DEF IrqTypeOK
<1>10. wanted' \in [Objects -> {<<>>} \cup Settings]
  BY DEF IInv, Settings
<1>11. Placed(v)'
  <2> DEFINE q == objq[v]
             n == Len(objq[v])
  <2>1. /\ q \in Seq(Objects) /\ n \in Nat /\ DOMAIN q = 1..n
        /\ DOMAIN objq'[v] = 1..(n + 1)
        /\ objq'[v][n + 1] = obj
        /\ \A i \in 1..n : objq'[v][i] = q[i]
    BY <1>2, <1>3, <1>4
  <2>2. \A i \in 1..n : q[i] \in Objects /\ q[i] # obj
    BY <1>2, <2>1 DEF Attached, Range
  <2>3. \A i \in 1..n : wanted'[q[i]] = wanted[q[i]]
    BY <2>2 DEF IInv
  <2>4. wanted'[obj] = <<l, s>> /\ <<l, s>> \in Settings
    BY DEF IInv, Settings
  <2>5. /\ \A i, j \in 1..n : q[i] = q[j] => i = j
        /\ \A i \in 1..n :
             /\ wanted[q[i]] \in Settings
             /\ v \in VectorsOf(wanted[q[i]][1])
             /\ shareable[v] => wanted[q[i]][2]
    BY <1>2, <2>1 DEF IInv, Placed, IsInjective
  <2>6. IsInjective(objq'[v])
    <3>1. \A i \in 1..(n + 1) : i \in 1..n \/ i = n + 1
      BY <2>1
    <3>2. ASSUME NEW i \in 1..(n + 1), NEW j \in 1..(n + 1), objq'[v][i] = objq'[v][j]
          PROVE  i = j
      BY <2>1, <2>2, <2>5, <3>1, <3>2
    <3> QED
      BY <2>1, <3>2 DEF IsInjective
  <2>7. shareable'[v] => s
    BY <1>1, <1>5
  <2>8. n > 0 => shareable[v] /\ shareable'[v]
    BY <1>1, <1>2, <1>3, <1>5
  <2>9. ASSUME NEW i \in 1..(n + 1)
        PROVE  /\ wanted'[objq'[v][i]] \in Settings
               /\ v \in VectorsOf(wanted'[objq'[v][i]][1])
               /\ shareable'[v] => wanted'[objq'[v][i]][2]
    <3>1. CASE i = n + 1
      BY <1>1, <2>1, <2>4, <2>7, <3>1, SMTT(30)
    <3>2. CASE i \in 1..n
      <4>1. shareable[v]
        BY <2>1, <2>8, <3>2
      <4> QED
        BY <2>1, <2>3, <2>5, <3>2, <4>1
    <3> QED
      BY <2>1, <3>1, <3>2, SMTT(30)
  <2>10. Len(objq'[v]) > 1 => shareable'[v]
    BY <1>6, <2>8
  <2> QED
    BY <2>1, <2>6, <2>9, <2>10 DEF Placed, VectorsOf
<1>12. \A w \in Vectors : Placed(w)'
  BY <1>4, <1>5, <1>11, PlacedStays
<1>13. ASSUME NEW k \in Levels PROVE FreeFirst(k)'
  <2>1. VectorsOf(k) \subseteq Vectors
    BY DEF Vectors
  <2>2. \A w \in VectorsOf(k) : objectcnt[w] \in Nat /\ objectcnt'[w] \in Nat
    BY <1>3, <1>4, <1>7, <2>1
  <2>3. \A w \in Vectors \ {v} : objectcnt'[w] = objectcnt[w]
    BY <1>3, <1>4, <1>7
  <2>4. objectcnt'[v] = objectcnt[v] + 1
    BY <1>2, <1>3, <1>6, <1>7
  <2>5. FreeFirst(k)
    BY DEF IInv
  <2>6. CASE k = l
    BY <1>1, <2>1, <2>2, <2>3, <2>4, <2>5, <2>6 DEF FreeFirst
  <2>7. CASE k # l
    <3>1. v \notin VectorsOf(k)
      BY <1>1, <2>7, VectorLevel
    <3> QED
      BY <2>1, <2>3, <2>5, <3>1 DEF FreeFirst
  <2> QED
    BY <2>6, <2>7
<1> QED
  BY <1>9, <1>10, <1>12, <1>13 DEF IInv

\* Every call of irq_initialize_obj_irql keeps the invariant.
LEMMA StepIInv ==
  IInv /\ [IrqNext]_irqVars => IInv'
<1> SUFFICES ASSUME IInv, [IrqNext]_irqVars PROVE IInv'
  OBVIOUS
<1>1. ASSUME NEW obj \in Objects, NEW l \in Levels, NEW s \in BOOLEAN,
             Initialize(obj, l, s)
      PROVE  IInv'
  <2>1. obj \notin Attached /\ wanted' = [wanted EXCEPT ![obj] = <<l, s>>]
    BY <1>1 DEF Initialize
  <2>2. CASE \E v \in Found(l, s) : Register(obj, v, s)
    BY <2>1, <2>2, RegisterIInv
  <2>3. CASE /\ result' = [result EXCEPT ![obj] = 1]
             /\ UNCHANGED <<objq, objectcnt, shareable, isr>>
    <3>1. IrqTypeOK'
      BY <2>3 DEF IInv, IrqTypeOK
    <3>2. wanted' \in [Objects -> {<<>>} \cup Settings]
      BY <2>1 DEF IInv, Settings
    <3>3. \A v \in Vectors : Placed(v)'
      BY <2>1, <2>3, PlacedStays
    <3>4. \A k \in Levels : FreeFirst(k)'
      BY <2>3 DEF IInv, FreeFirst
    <3> QED
      BY <3>1, <3>2, <3>3, <3>4 DEF IInv
  <2> QED
    BY <1>1, <2>2, <2>3 DEF Initialize
<1>2. CASE UNCHANGED irqVars
  BY <1>2 DEF irqVars, IInv, IrqTypeOK, Placed, IsInjective, FreeFirst
<1> QED
  BY <1>1, <1>2 DEF IrqNext

\* The inductive invariant holds after every sequence of initializations.
THEOREM Inductive == IrqSpec => []IInv
<1> QED
  BY InitIInv, StepIInv, PTL DEF IrqSpec

\* An object that cannot be shared is alone on its vector, in whatever order the
\* objects come, for any number of vectors per level.
THEOREM SharingIsAgreed == IrqSpec => []SharingAgreed
<1>1. IInv => SharingAgreed
  <2> SUFFICES ASSUME IInv PROVE SharingAgreed
    OBVIOUS
  <2>1. ASSUME NEW v \in Vectors, NEW i \in DOMAIN objq[v], NEW j \in DOMAIN objq[v]
        PROVE  /\ v \in VectorsOf(wanted[objq[v][i]][1])
               /\ i # j => objq[v][i] # objq[v][j] /\ wanted[objq[v][i]][2]
    <3>1. Placed(v) /\ objq[v] \in Seq(Objects)
      BY DEF IInv, IrqTypeOK
    <3>2. i # j => Len(objq[v]) > 1
      BY <3>1
    <3> QED
      BY <3>1, <3>2 DEF Placed, IsInjective
  <2> QED
    BY <2>1 DEF SharingAgreed, IInv, FreeFirst
<1> QED
  BY <1>1, Inductive, PTL
=============================================================================
