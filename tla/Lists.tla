------------------------------- MODULE Lists --------------------------------
(***************************************************************************)
(* The intrusive lists every part of the kernel is built from              *)
(* (include/sys/queue.h), at the level of their pointers: LIST, SLIST,     *)
(* STAILQ with its twin SIMPLEQ, TAILQ and CIRCLEQ.                        *)
(*                                                                         *)
(* A holder is a head or an element. next[x] is its first pointer (the     *)
(* field first of a head, next of an element). link[x] is its second one   *)
(* (last of a head, prev of an element). The address of a next pointer,    *)
(* which LIST and the tail queues store in link, is named by its holder:   *)
(* *p = e writes next[p]. Heads and entries have the same layout, which    *)
(* TAILQ_LAST and TAILQ_PREV rely on. The fields of an element that is in  *)
(* no list keep whatever was there.                                        *)
(***************************************************************************)
EXTENDS Integers, Sequences, SequencesExt, FiniteSets

CONSTANTS
  Heads,   \* two, for CONCAT
  Elems,
  Null

Kinds == {"LIST", "SLIST", "STAILQ", "SIMPLEQ", "TAILQ", "CIRCLEQ"}
Holders == Heads \cup Elems

ASSUME ListsAssumption == Null \notin Holders /\ Heads \cap Elems = {}

VARIABLES
  kind,   \* the kind of list under test
  q,      \* the pointers: a record of next and link
  lists   \* the sequence each head stands for (reference)

listVars == <<kind, q, lists>>

\* A write through a pointer the code has compared with NULL.
Set(f, x, v) == IF x = Null THEN f ELSE [f EXCEPT ![x] = v]

-----------------------------------------------------------------------------
(* LIST: doubly linked, link is the address of the pointer to the element. *)

\* LIST_INSERT_AFTER, and LIST_INSERT_HEAD with the head in place of listelm:
\* the two differ in the name of the field only.
LIST_INSERT_AFTER(listelm, elm) ==
  LET n == q.next[listelm]
  IN [next |-> [q.next EXCEPT ![elm] = n, ![listelm] = elm],
      link |-> [Set(q.link, n, elm) EXCEPT ![elm] = listelm]]

LIST_INSERT_HEAD(head, elm) == LIST_INSERT_AFTER(head, elm)

LIST_INSERT_BEFORE(listelm, elm) ==
  [next |-> [q.next EXCEPT ![elm] = listelm, ![q.link[listelm]] = elm],
   link |-> [q.link EXCEPT ![elm] = q.link[listelm], ![listelm] = elm]]

LIST_REMOVE(elm) ==
  [next |-> [q.next EXCEPT ![q.link[elm]] = q.next[elm]],
   link |-> Set(q.link, q.next[elm], q.link[elm])]

-----------------------------------------------------------------------------
(* SLIST: singly linked.                                                   *)

SLIST_INSERT_AFTER(slistelm, elm) ==
  [q EXCEPT !.next = [@ EXCEPT ![elm] = q.next[slistelm], ![slistelm] = elm]]

SLIST_INSERT_HEAD(head, elm) == SLIST_INSERT_AFTER(head, elm)

SLIST_REMOVE_HEAD(head) == [q EXCEPT !.next[head] = q.next[q.next[head]]]

\* The loop that looks for the element in front of elm.
Curelm(head, elm) ==
  LET walk[c \in Elems] == IF q.next[c] = elm THEN c ELSE walk[q.next[c]]
  IN walk[q.next[head]]

SLIST_REMOVE(head, elm) ==
  IF q.next[head] = elm THEN SLIST_REMOVE_HEAD(head)
  ELSE [q EXCEPT !.next[Curelm(head, elm)] = q.next[elm]]

-----------------------------------------------------------------------------
(* STAILQ and SIMPLEQ: link of the head is the address of the last next    *)
(* pointer, which is the head's own when the queue is empty.               *)

STAILQ_INIT(p, head) ==
  [next |-> [p.next EXCEPT ![head] = Null], link |-> [p.link EXCEPT ![head] = head]]

STAILQ_INSERT_AFTER(head, listelm, elm) ==
  LET n == q.next[listelm]
  IN [next |-> [q.next EXCEPT ![elm] = n, ![listelm] = elm],
      link |-> [q.link EXCEPT ![head] = IF n = Null THEN elm ELSE @]]

STAILQ_INSERT_HEAD(head, elm) == STAILQ_INSERT_AFTER(head, head, elm)

STAILQ_INSERT_TAIL(head, elm) ==
  [next |-> [q.next EXCEPT ![elm] = Null, ![q.link[head]] = elm],
   link |-> [q.link EXCEPT ![head] = elm]]

STAILQ_REMOVE_HEAD(head) ==
  LET n == q.next[q.next[head]]
  IN [next |-> [q.next EXCEPT ![head] = n],
      link |-> [q.link EXCEPT ![head] = IF n = Null THEN head ELSE @]]

\* A plausible slip: the last pointer still points into the removed element.
STAILQ_REMOVE_KEEPS_LAST(head, elm) ==
  IF q.next[head] = elm THEN STAILQ_REMOVE_HEAD(head)
  ELSE [q EXCEPT !.next[Curelm(head, elm)] = q.next[elm]]

STAILQ_REMOVE(head, elm) ==
  IF q.next[head] = elm THEN STAILQ_REMOVE_HEAD(head)
  ELSE LET c == Curelm(head, elm)
           n == q.next[elm]
       IN [next |-> [q.next EXCEPT ![c] = n],
           link |-> [q.link EXCEPT ![head] = IF n = Null THEN c ELSE @]]

STAILQ_CONCAT(head1, head2) ==
  IF q.next[head2] = Null THEN q
  ELSE STAILQ_INIT([next |-> [q.next EXCEPT ![q.link[head1]] = q.next[head2]],
                    link |-> [q.link EXCEPT ![head1] = q.link[head2]]], head2)

\* SIMPLEQ repeats the text of STAILQ with other field names, without CONCAT.
SIMPLEQ_INSERT_HEAD(head, elm) == STAILQ_INSERT_HEAD(head, elm)
SIMPLEQ_INSERT_TAIL(head, elm) == STAILQ_INSERT_TAIL(head, elm)
SIMPLEQ_INSERT_AFTER(head, listelm, elm) == STAILQ_INSERT_AFTER(head, listelm, elm)
SIMPLEQ_REMOVE_HEAD(head) == STAILQ_REMOVE_HEAD(head)
SIMPLEQ_REMOVE(head, elm) == STAILQ_REMOVE(head, elm)

-----------------------------------------------------------------------------
(* TAILQ: both of the above; what follows the last element is the head.    *)

TAILQ_INIT(p, head) == STAILQ_INIT(p, head)

TAILQ_INSERT_AFTER(head, listelm, elm) ==
  LET n == q.next[listelm]
  IN [next |-> [q.next EXCEPT ![elm] = n, ![listelm] = elm],
      link |-> [q.link EXCEPT ![IF n = Null THEN head ELSE n] = elm,
                              ![elm] = listelm]]

TAILQ_INSERT_HEAD(head, elm) == TAILQ_INSERT_AFTER(head, head, elm)

TAILQ_INSERT_TAIL(head, elm) ==
  [next |-> [q.next EXCEPT ![elm] = Null, ![q.link[head]] = elm],
   link |-> [q.link EXCEPT ![elm] = q.link[head], ![head] = elm]]

TAILQ_INSERT_BEFORE(listelm, elm) == LIST_INSERT_BEFORE(listelm, elm)

TAILQ_REMOVE(head, elm) ==
  LET n == q.next[elm]
  IN [next |-> [q.next EXCEPT ![q.link[elm]] = n],
      link |-> [q.link EXCEPT ![IF n = Null THEN head ELSE n] = q.link[elm]]]

TAILQ_CONCAT(head1, head2) ==
  IF q.next[head2] = Null THEN q
  ELSE TAILQ_INIT([next |-> [q.next EXCEPT ![q.link[head1]] = q.next[head2]],
                   link |-> [q.link EXCEPT ![q.next[head2]] = q.link[head1],
                                           ![head1] = q.link[head2]]], head2)

\* The holder at the address in link is read as a head, whose last is link.
TAILQ_PREV(x) == q.next[q.link[q.link[x]]]

-----------------------------------------------------------------------------
(* CIRCLEQ: pointers to elements in both directions, the head for the end. *)

CIRCLEQ_INIT(p, head) ==
  [next |-> [p.next EXCEPT ![head] = head], link |-> [p.link EXCEPT ![head] = head]]

CIRCLEQ_INSERT_AFTER(listelm, elm) ==
  LET n == q.next[listelm]
  IN [next |-> [q.next EXCEPT ![elm] = n, ![listelm] = elm],
      link |-> [q.link EXCEPT ![elm] = listelm, ![n] = elm]]

CIRCLEQ_INSERT_BEFORE(listelm, elm) ==
  LET p == q.link[listelm]
  IN [next |-> [q.next EXCEPT ![elm] = listelm, ![p] = elm],
      link |-> [q.link EXCEPT ![elm] = p, ![listelm] = elm]]

\* The ends differ in what they test: the other end of an empty queue.
CIRCLEQ_INSERT_HEAD(head, elm) ==
  LET n == IF q.link[head] = head THEN head ELSE q.next[head]
  IN [next |-> [q.next EXCEPT ![elm] = q.next[head], ![head] = elm],
      link |-> [q.link EXCEPT ![elm] = head, ![n] = elm]]

CIRCLEQ_INSERT_TAIL(head, elm) ==
  LET p == IF q.next[head] = head THEN head ELSE q.link[head]
  IN [next |-> [q.next EXCEPT ![elm] = head, ![p] = elm],
      link |-> [q.link EXCEPT ![elm] = q.link[head], ![head] = elm]]

CIRCLEQ_REMOVE(elm) ==
  [next |-> [q.next EXCEPT ![q.link[elm]] = q.next[elm]],
   link |-> [q.link EXCEPT ![q.next[elm]] = q.link[elm]]]

-----------------------------------------------------------------------------
(* One action per operation; the reference sequence changes along.         *)

Unlinked == Elems \ UNION {ToSet(lists[h]) : h \in Heads}

Becomes(h, s) == lists' = [lists EXCEPT ![h] = s] /\ UNCHANGED kind

InsertHead(h, e) ==
  /\ q' = CASE kind = "LIST"    -> LIST_INSERT_HEAD(h, e)
            [] kind = "SLIST"   -> SLIST_INSERT_HEAD(h, e)
            [] kind = "STAILQ"  -> STAILQ_INSERT_HEAD(h, e)
            [] kind = "SIMPLEQ" -> SIMPLEQ_INSERT_HEAD(h, e)
            [] kind = "TAILQ"   -> TAILQ_INSERT_HEAD(h, e)
            [] kind = "CIRCLEQ" -> CIRCLEQ_INSERT_HEAD(h, e)
  /\ Becomes(h, <<e>> \o lists[h])

InsertTail(h, e) ==
  /\ kind \notin {"LIST", "SLIST"}
  /\ q' = CASE kind = "STAILQ"  -> STAILQ_INSERT_TAIL(h, e)
            [] kind = "SIMPLEQ" -> SIMPLEQ_INSERT_TAIL(h, e)
            [] kind = "TAILQ"   -> TAILQ_INSERT_TAIL(h, e)
            [] kind = "CIRCLEQ" -> CIRCLEQ_INSERT_TAIL(h, e)
  /\ Becomes(h, Append(lists[h], e))

InsertAfter(h, i, e) ==
  LET l == lists[h][i]
  IN /\ q' = CASE kind = "LIST"    -> LIST_INSERT_AFTER(l, e)
               [] kind = "SLIST"   -> SLIST_INSERT_AFTER(l, e)
               [] kind = "STAILQ"  -> STAILQ_INSERT_AFTER(h, l, e)
               [] kind = "SIMPLEQ" -> SIMPLEQ_INSERT_AFTER(h, l, e)
               [] kind = "TAILQ"   -> TAILQ_INSERT_AFTER(h, l, e)
               [] kind = "CIRCLEQ" -> CIRCLEQ_INSERT_AFTER(l, e)
     /\ Becomes(h, InsertAt(lists[h], i + 1, e))

InsertBefore(h, i, e) ==
  LET l == lists[h][i]
  IN /\ kind \in {"LIST", "TAILQ", "CIRCLEQ"}
     /\ q' = CASE kind = "LIST"    -> LIST_INSERT_BEFORE(l, e)
               [] kind = "TAILQ"   -> TAILQ_INSERT_BEFORE(l, e)
               [] kind = "CIRCLEQ" -> CIRCLEQ_INSERT_BEFORE(l, e)
     /\ Becomes(h, InsertAt(lists[h], i, e))

RemoveHead(h) ==
  /\ kind \in {"SLIST", "STAILQ", "SIMPLEQ"} /\ lists[h] # <<>>
  /\ q' = CASE kind = "SLIST"   -> SLIST_REMOVE_HEAD(h)
            [] kind = "STAILQ"  -> STAILQ_REMOVE_HEAD(h)
            [] kind = "SIMPLEQ" -> SIMPLEQ_REMOVE_HEAD(h)
  /\ Becomes(h, Tail(lists[h]))

RemoveElm(h, i) ==
  LET e == lists[h][i]
  IN /\ q' = CASE kind = "LIST"    -> LIST_REMOVE(e)
               [] kind = "SLIST"   -> SLIST_REMOVE(h, e)
               [] kind = "STAILQ"  -> STAILQ_REMOVE(h, e)
               [] kind = "SIMPLEQ" -> SIMPLEQ_REMOVE(h, e)
               [] kind = "TAILQ"   -> TAILQ_REMOVE(h, e)
               [] kind = "CIRCLEQ" -> CIRCLEQ_REMOVE(e)
     /\ Becomes(h, RemoveAt(lists[h], i))

Concat(h, g) ==
  /\ kind \in {"STAILQ", "TAILQ"} /\ h # g
  /\ q' = IF kind = "STAILQ" THEN STAILQ_CONCAT(h, g) ELSE TAILQ_CONCAT(h, g)
  /\ lists' = [lists EXCEPT ![h] = @ \o lists[g], ![g] = <<>>]
  /\ UNCHANGED kind

\* The *_INIT macros; the fields of the elements are not initialized.
ListsInit ==
  /\ kind \in Kinds
  /\ q = [next |-> [x \in Holders |-> IF kind = "CIRCLEQ" /\ x \in Heads THEN x ELSE Null],
          link |-> [x \in Holders |-> IF kind \notin {"LIST", "SLIST"} /\ x \in Heads
                                      THEN x ELSE Null]]
  /\ lists = [h \in Heads |-> <<>>]

ListsNext ==
  \E h \in Heads :
    \/ \E e \in Unlinked : InsertHead(h, e) \/ InsertTail(h, e)
    \/ \E i \in DOMAIN lists[h], e \in Unlinked :
         InsertAfter(h, i, e) \/ InsertBefore(h, i, e)
    \/ RemoveHead(h)
    \/ \E i \in DOMAIN lists[h] : RemoveElm(h, i)
    \/ \E g \in Heads : Concat(h, g)

-----------------------------------------------------------------------------
(* Properties.                                                             *)

\* What the FOREACH macros visit: from the first element on until the end, or
\* until there are more elements than can be.
Visited(step(_), h) ==
  LET end == IF kind = "CIRCLEQ" THEN h ELSE Null
      from[x \in Holders \cup {Null}, n \in 0..(Cardinality(Elems) + 1)] ==
        IF x = end \/ n = 0 THEN <<>> ELSE <<x>> \o from[step(x), n - 1]
  IN from[step(h), Cardinality(Elems) + 1]

\* Whatever the order of operations, walking a list forwards, and backwards
\* where the kind allows it, visits the elements it stands for and ends. The
\* pointers back agree with the pointers on: LIST and TAILQ elements know the
\* pointer that points to them, and last is the last next pointer of a queue.
ListsMatch ==
  \A h \in Heads :
    LET s == lists[h]
        At(i) == IF i = 0 THEN h ELSE s[i]
    IN /\ Visited(LAMBDA x : q.next[x], h) = s
       /\ kind = "TAILQ" => Visited(TAILQ_PREV, h) = Reverse(s)
       /\ kind = "CIRCLEQ" => Visited(LAMBDA x : q.link[x], h) = Reverse(s)
       /\ kind \in {"LIST", "TAILQ"} =>
            \A i \in DOMAIN s : q.link[s[i]] = At(i - 1)
       /\ kind \in {"STAILQ", "SIMPLEQ", "TAILQ"} => q.link[h] = At(Len(s))
=============================================================================
