---------------------------- MODULE RangeAllocator ----------------------------
(***************************************************************************)
(* What an allocator of ranges promises: a range that is handed out does   *)
(* not overlap any other range that is still in use.                       *)
(***************************************************************************)
EXTENDS Naturals

CONSTANTS Addresses, Sizes

VARIABLE held    \* the ranges in use, as pairs of address and size

Range(r) == r[1]..(r[1] + r[2] - 1)

CanAlloc(r) ==
  /\ Range(r) \subseteq Addresses
  /\ \A h \in held : Range(h) \cap Range(r) = {}

Alloc(r) == CanAlloc(r) /\ held' = held \cup {r}

Free(r) ==
  /\ r \in held
  /\ held' = held \ {r}

Init == held = {}

Next == \E r \in Addresses \X Sizes : Alloc(r) \/ Free(r)

Spec == Init /\ [][Next]_held
=============================================================================
