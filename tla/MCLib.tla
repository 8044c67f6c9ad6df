------------------------------- MODULE MCLib --------------------------------
(***************************************************************************)
(* The library, the timer engine and kernel memory, for TLC.  They share   *)
(* no state: a behaviour exercises one of them, chosen at the start, and   *)
(* leaves the others as they are.                                          *)
(***************************************************************************)
EXTENDS TimerEngine, Lists, Trees, Printf, Slab, MCKmem

CONSTANTS small, large1, large2

VARIABLE subject

libVars == <<vars, listVars, treeVars, printfVars, slabVars, kmemVars, subject>>

\* Formats: every flag alone and the pairs that meet in the code, widths and
\* precisions that are absent, literal, negative or taken from an argument.
\* The last two numbers are the most negative int and long.
MCFlags == {<<>>, <<"-">>, <<"0">>, <<"+">>, <<"#">>, <<"0", "#">>, <<"-", "0">>,
            <<" ", "+">>, <<"0", " ">>}
MCWidths == {<<>>, <<"6">>, <<"*">>}
MCPrecs == {<<>>, <<".">>, <<".", "2">>, <<".", "*">>, <<".", "-", "2">>}
MCMods == {<<>>, <<"h">>, <<"h", "h">>, <<"l">>}
MCConvs == {"%", "c", "s", "d", "o", "u", "x", "X", "b", "p", "q"}
MCStrArgs == {<<>>, <<"h", "i", "j">>}
MCIntArgs == {0, 44, -3, -128, -2048}
MCStarArgs == {5, -4}

\* A small cache with a slab for every chunk, two large ones that share
\* slab_cache and bufctl_cache, and pages for four slabs.
MCSmall == {small}
MCLarge == {large1, large2}
MCPageRuns == 1..4
MCSlabcap == [c \in Caches |-> IF c = bufctl_cache THEN 3
                               ELSE IF c \in {small, large2} THEN 1 ELSE 2]

\* Before its first use.
ListsUnused == ListsInit /\ kind = "LIST"
TreesUnused == TreesInit /\ tree = "rb"
PrintfUnused ==
  /\ fmt = <<>> /\ args = <<>> /\ text = <<>> /\ call = <<>>
  /\ dst = [buf |-> <<>>, cur |-> 0]
SlabUnused == SlabInit /\ kmem.buflist = [c \in LargeCaches |-> <<>>]

LibInit ==
  /\ Init /\ KmemInit
  /\ subject \in {"timer", "lists", "trees", "printf", "slab", "kmem"}
  /\ IF subject = "lists"  THEN ListsInit  ELSE ListsUnused
  /\ IF subject = "trees"  THEN TreesInit  ELSE TreesUnused
  /\ IF subject = "printf" THEN PrintfInit ELSE PrintfUnused
  /\ IF subject = "slab"   THEN SlabInit   ELSE SlabUnused

LibNext ==
  \/ /\ subject = "timer" /\ Next
     /\ UNCHANGED <<listVars, treeVars, printfVars, slabVars, kmemVars, subject>>
  \/ /\ subject = "lists" /\ ListsNext
     /\ UNCHANGED <<vars, treeVars, printfVars, slabVars, kmemVars, subject>>
  \/ /\ subject = "trees" /\ TreesNext
     /\ UNCHANGED <<vars, listVars, printfVars, slabVars, kmemVars, subject>>
  \/ /\ subject = "printf" /\ PrintfNext
     /\ UNCHANGED <<vars, listVars, treeVars, slabVars, kmemVars, subject>>
  \/ /\ subject = "slab" /\ SlabNext
     /\ UNCHANGED <<vars, listVars, treeVars, printfVars, kmemVars, subject>>
  \/ /\ subject = "kmem" /\ KmemNext
     /\ UNCHANGED <<vars, listVars, treeVars, printfVars, slabVars, subject>>

LibSpec == LibInit /\ [][LibNext]_libVars
=============================================================================
