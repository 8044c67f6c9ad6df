------------------------------- MODULE Trees --------------------------------
(***************************************************************************)
(* The red-black and splay trees of include/sys/tree.h, at the level of    *)
(* their pointers. Nodes are their keys, Nil is NULL. The left and the     *)
(* right branches of the code mirror each other; a side is a parameter.    *)
(***************************************************************************)
EXTENDS Integers, Sequences, FiniteSets

CONSTANT NKeys

Keys == 1..NKeys
Nil == 0
Sides == {"left", "right"}
Opp(s) == IF s = "left" THEN "right" ELSE "left"

ASSUME TreesAssumption == NKeys \in Nat \ {0}

VARIABLES
  tree,     \* which tree: "rb" or "splay"
  t,        \* root, child[side][node], parent[node], color[node]
  members   \* the keys that were inserted and not removed (reference)

treeVars == <<tree, t, members>>

\* (cmp)(a, b): the side of b on which a belongs.
Side(a, b) == IF a < b THEN "left" ELSE "right"

SetChild(r, s, x, v) == [r EXCEPT !.child[s][x] = v]
SetParent(r, x, v) == IF x = Nil THEN r ELSE [r EXCEPT !.parent[x] = v]
SetColor(r, x, c) == IF x = Nil THEN r ELSE [r EXCEPT !.color[x] = c]

\* The pointer of parent p, or the root, to old is set to new.
Replace(r, p, old, new) ==
  IF p = Nil THEN [r EXCEPT !.root = new]
  ELSE SetChild(r, IF r.child["left"][p] = old THEN "left" ELSE "right", p, new)

-----------------------------------------------------------------------------
(* Red-black trees.                                                        *)

RB_SET(r, elm, parent) ==
  [r EXCEPT !.parent[elm] = parent, !.child["left"][elm] = Nil,
            !.child["right"][elm] = Nil, !.color[elm] = "red"]

\* A plausible slip: only one of the two is colored.
RB_SET_BLACK_ONLY(r, black, red) == SetColor(r, black, "black")

RB_SET_BLACKRED(r, black, red) ==
  SetColor(SetColor(r, black, "black"), red, "red")

\* RB_ROTATE_LEFT for s = "left", RB_ROTATE_RIGHT for s = "right".
RB_ROTATE(r, elm, s) ==
  LET tmp == r.child[Opp(s)][elm]
      mid == r.child[s][tmp]
      up  == r.parent[elm]
      a   == SetParent(SetChild(r, Opp(s), elm, mid), mid, elm)
      b   == Replace(SetParent(a, tmp, up), up, elm, tmp)
  IN SetParent(SetChild(b, s, tmp, elm), elm, tmp)

IsBlack(r, x) == x = Nil \/ r.color[x] = "black"

RECURSIVE RB_INSERT_COLOR(_, _)
RB_INSERT_COLOR(r, elm) ==
  LET parent == r.parent[elm]
  IN IF IsBlack(r, parent) THEN SetColor(r, r.root, "black")
     ELSE LET gparent == r.parent[parent]
              s == IF parent = r.child["left"][gparent] THEN "left" ELSE "right"
              uncle == r.child[Opp(s)][gparent]
              inner == r.child[Opp(s)][parent] = elm
              a == IF inner THEN RB_ROTATE(r, parent, s) ELSE r
              top == IF inner THEN elm ELSE parent
              low == IF inner THEN parent ELSE elm
          IN IF ~IsBlack(r, uncle)
             THEN RB_INSERT_COLOR(
                    RB_SET_BLACKRED(SetColor(r, uncle, "black"), parent, gparent),
                    gparent)
             ELSE RB_INSERT_COLOR(
                    RB_ROTATE(RB_SET_BLACKRED(a, top, gparent), gparent, Opp(s)),
                    low)

RECURSIVE RB_REMOVE_COLOR(_, _, _)
RB_REMOVE_COLOR(r, parent, elm) ==
  IF ~IsBlack(r, elm) \/ elm = r.root THEN SetColor(r, elm, "black")
  ELSE LET s == IF r.child["left"][parent] = elm THEN "left" ELSE "right"
           o == Opp(s)
           sib == r.child[o][parent]
           \* a red sibling is rotated away first
           a == IF r.color[sib] = "red"
                THEN RB_ROTATE(RB_SET_BLACKRED(r, sib, parent), parent, s) ELSE r
           tmp == a.child[o][parent]
           inner == a.child[s][tmp]
           outer == a.child[o][tmp]
           \* a red inner nephew is rotated outwards
           b == IF IsBlack(a, outer)
                THEN RB_ROTATE(SetColor(SetColor(a, inner, "black"), tmp, "red"), tmp, o)
                ELSE a
           tmp2 == b.child[o][parent]
           c == SetColor(SetColor(b, tmp2, b.color[parent]), parent, "black")
           d == RB_ROTATE(SetColor(c, c.child[o][tmp2], "black"), parent, s)
       IN IF IsBlack(a, inner) /\ IsBlack(a, outer)
          THEN RB_REMOVE_COLOR(SetColor(a, tmp, "red"), a.parent[parent], parent)
          ELSE SetColor(d, d.root, "black")

RECURSIVE Extreme(_, _, _)
Extreme(r, x, s) ==
  IF r.child[s][x] = Nil THEN x ELSE Extreme(r, r.child[s][x], s)

\* elm with a child at most: the child takes its place.
Unlink(r, elm, child) ==
  Replace(SetParent(r, child, r.parent[elm]), r.parent[elm], elm, child)

\* old with two children: its successor elm is unlinked and takes over the
\* links and the color of old.
TakeOver(r, old, elm) ==
  LET a == Unlink(r, elm, r.child["right"][elm])
      b == [a EXCEPT !.parent[elm] = a.parent[old], !.color[elm] = a.color[old],
                     !.child["left"][elm] = a.child["left"][old],
                     !.child["right"][elm] = a.child["right"][old]]
      c == Replace(b, b.parent[old], old, elm)
  IN SetParent(SetParent(c, c.child["left"][old], elm), c.child["right"][old], elm)

RB_REMOVE(r, old) ==
  LET left == r.child["left"][old]
      right == r.child["right"][old]
      two == left # Nil /\ right # Nil
      elm == IF two THEN Extreme(r, right, "left") ELSE old
      child == IF two THEN r.child["right"][elm]
               ELSE IF left = Nil THEN right ELSE left
      parent == IF two /\ r.parent[elm] = old THEN elm ELSE r.parent[elm]
      a == IF two THEN TakeOver(r, old, elm) ELSE Unlink(r, elm, child)
  IN IF r.color[elm] = "black" THEN RB_REMOVE_COLOR(a, parent, child) ELSE a

\* The node at which a search for key ends, Nil in an empty tree.
RECURSIVE Search(_, _, _)
Search(r, x, key) ==
  IF x = Nil \/ x = key THEN x
  ELSE LET y == r.child[Side(key, x)][x]
       IN IF y = Nil THEN x ELSE Search(r, y, key)

RB_INSERT(r, elm) ==
  LET parent == Search(r, r.root, elm)
      a == RB_SET(r, elm, parent)
  IN IF parent = elm THEN r
     ELSE RB_INSERT_COLOR(
            IF parent = Nil THEN [a EXCEPT !.root = elm]
            ELSE SetChild(a, Side(elm, parent), parent, elm), elm)

RB_FIND(r, key) == IF Search(r, r.root, key) = key THEN key ELSE Nil

RECURSIVE NfindFrom(_, _, _, _)
NfindFrom(r, x, key, res) ==
  IF x = Nil THEN res
  ELSE IF key < x THEN NfindFrom(r, r.child["left"][x], key, x)
  ELSE IF key > x THEN NfindFrom(r, r.child["right"][x], key, res)
  ELSE x

RB_NFIND(r, key) == NfindFrom(r, r.root, key, Nil)

RECURSIVE Climb(_, _, _)
Climb(r, x, s) ==
  LET p == r.parent[x]
  IN IF p # Nil /\ x = r.child[s][p] THEN Climb(r, p, s) ELSE p

\* RB_NEXT for s = "right", RB_PREV for s = "left".
RB_STEP(r, elm, s) ==
  IF r.child[s][elm] # Nil THEN Extreme(r, r.child[s][elm], Opp(s))
  ELSE IF r.parent[elm] # Nil /\ elm = r.child[Opp(s)][r.parent[elm]]
       THEN r.parent[elm]
       ELSE Climb(r, elm, s)

RB_MINMAX(r, s) == IF r.root = Nil THEN Nil ELSE Extreme(r, r.root, s)

-----------------------------------------------------------------------------
(* Splay trees. Node -1 is the local variable __node of the splay; ends is *)
(* __left and __right.                                                     *)

Local == -1

\* SPLAY_ROTATE_RIGHT for s = "left" and SPLAY_ROTATE_LEFT for s = "right".
SPLAY_ROTATE(r, s) ==
  LET tmp == r.child[s][r.root]
  IN [SetChild(SetChild(r, s, r.root, r.child[Opp(s)][tmp]), Opp(s), tmp, r.root)
        EXCEPT !.root = tmp]

\* SPLAY_LINKLEFT for s = "left", SPLAY_LINKRIGHT for s = "right".
SPLAY_LINK(r, ends, s) ==
  [SetChild(r, s, ends[Opp(s)], r.root) EXCEPT !.root = r.child[s][r.root]]

\* A plausible slip: what hung on the right of the new root is lost.
SPLAY_ASSEMBLE_LOSES(r, ends) ==
  LET a == SetChild(r, "right", ends["left"], r.child["left"][r.root])
      c == SetChild(a, "left", a.root, a.child["right"][Local])
  IN SetChild(c, "right", c.root, c.child["left"][Local])

SPLAY_ASSEMBLE(r, ends) ==
  LET a == SetChild(r, "right", ends["left"], r.child["left"][r.root])
      b == SetChild(a, "left", ends["right"], a.child["right"][a.root])
      c == SetChild(b, "left", b.root, b.child["right"][Local])
  IN SetChild(c, "right", c.root, c.child["left"][Local])

\* The loop of SPLAY. It is the loop of SPLAY_MINMAX for a goal beyond all keys.
RECURSIVE SplayLoop(_, _, _)
SplayLoop(r, ends, goal) ==
  LET s == Side(goal, r.root)
      tmp == r.child[s][r.root]
      turn == tmp # goal /\ Side(goal, tmp) = s
      a == IF turn THEN SPLAY_ROTATE(r, s) ELSE r
  IN IF r.root = goal \/ tmp = Nil THEN SPLAY_ASSEMBLE(r, ends)
     ELSE IF turn /\ a.child[s][a.root] = Nil THEN SPLAY_ASSEMBLE(a, ends)
     ELSE SplayLoop(SPLAY_LINK(a, ends, s), [ends EXCEPT ![Opp(s)] = a.root], goal)

SPLAY(r, goal) ==
  LET fresh == [r EXCEPT !.child = [s \in Sides |->
                  [x \in Keys \cup {Local} |-> IF x = Local THEN Nil ELSE @[s][x]]]]
      a == SplayLoop(fresh, [s \in Sides |-> Local], goal)
  IN [a EXCEPT !.child = [s \in Sides |-> [x \in Keys |-> @[s][x]]]]

SPLAY_MINMAX(r, s) == SPLAY(r, IF s = "left" THEN 0 ELSE NKeys + 1)

SPLAY_INSERT(r, elm) ==
  LET a == SPLAY(r, elm)
      s == Side(elm, a.root)
      b == SetChild(SetChild(a, s, elm, a.child[s][a.root]), Opp(s), elm, a.root)
  IN IF r.root = Nil
     THEN [SetChild(SetChild(r, "left", elm, Nil), "right", elm, Nil)
             EXCEPT !.root = elm]
     ELSE IF a.root = elm THEN a
     ELSE [SetChild(b, s, a.root, Nil) EXCEPT !.root = elm]

SPLAY_REMOVE(r, elm) ==
  LET a == SPLAY(r, elm)
      left == a.child["left"][a.root]
      right == a.child["right"][a.root]
      b == SPLAY([a EXCEPT !.root = left], elm)
  IN IF r.root = Nil THEN r
     ELSE IF a.root # elm THEN a
     ELSE IF left = Nil THEN [a EXCEPT !.root = right]
     ELSE SetChild(b, "right", b.root, right)

\* SPLAY_FIND and SPLAY_NEXT: what they return, after SPLAY has moved the node.
SPLAY_FIND(r, key) ==
  IF r.root = Nil THEN Nil
  ELSE IF SPLAY(r, key).root = key THEN key ELSE Nil

SPLAY_NEXT(r, elm) ==
  LET a == SPLAY(r, elm)
  IN IF a.child["right"][elm] = Nil THEN Nil
     ELSE Extreme(a, a.child["right"][elm], "left")

-----------------------------------------------------------------------------

Insert(k) ==
  /\ t' = IF tree = "rb" THEN RB_INSERT(t, k) ELSE SPLAY_INSERT(t, k)
  /\ members' = members \cup {k}
  /\ UNCHANGED tree

\* The fields of a node outside the tree are not looked at: RB_SET and
\* SPLAY_INSERT write all of them. They are cleared to keep states apart only
\* where they matter.
Forget(r, k) ==
  [r EXCEPT !.child["left"][k] = Nil, !.child["right"][k] = Nil,
            !.parent[k] = Nil, !.color[k] = "black"]

\* RB_REMOVE is given a node of the tree, SPLAY_REMOVE searches for it.
RemoveKey(k) ==
  /\ tree = "rb" => k \in members
  /\ t' = Forget(IF tree = "rb" THEN RB_REMOVE(t, k) ELSE SPLAY_REMOVE(t, k), k)
  /\ members' = members \ {k}
  /\ UNCHANGED tree

\* SPLAY_FIND and SPLAY_NEXT move a node to the root.
Find(k) ==
  /\ tree = "splay" /\ t.root # Nil
  /\ t' = SPLAY(t, k)
  /\ UNCHANGED <<tree, members>>

FindEnd(s) ==
  /\ tree = "splay" /\ t.root # Nil
  /\ t' = SPLAY_MINMAX(t, s)
  /\ UNCHANGED <<tree, members>>

TreesInit ==
  /\ tree \in {"rb", "splay"}
  /\ t = [root |-> Nil,
          child |-> [s \in Sides |-> [x \in Keys |-> Nil]],
          parent |-> [x \in Keys |-> Nil],
          color |-> [x \in Keys |-> "black"]]
  /\ members = {}

TreesNext ==
  \/ \E k \in Keys : Insert(k) \/ RemoveKey(k) \/ Find(k)
  \/ \E s \in Sides : FindEnd(s)

-----------------------------------------------------------------------------
(* Properties.                                                             *)

RECURSIVE Inorder(_, _)
Inorder(r, x) ==
  IF x = Nil THEN <<>>
  ELSE Inorder(r, r.child["left"][x]) \o <<x>> \o Inorder(r, r.child["right"][x])

RECURSIVE BlackHeight(_)
BlackHeight(x) ==
  IF x = Nil THEN 0
  ELSE BlackHeight(t.child["left"][x]) + (IF t.color[x] = "black" THEN 1 ELSE 0)

RECURSIVE Height(_)
Height(x) ==
  IF x = Nil THEN 0
  ELSE LET l == Height(t.child["left"][x])
           r == Height(t.child["right"][x])
       IN 1 + (IF l > r THEN l ELSE r)

\* The least or greatest member that satisfies P, Nil if there is none.
Least(P(_)) == IF \E k \in members : P(k)
               THEN CHOOSE k \in members : P(k) /\ \A j \in members : P(j) => k <= j
               ELSE Nil
Greatest(P(_)) == IF \E k \in members : P(k)
                  THEN CHOOSE k \in members : P(k) /\ \A j \in members : P(j) => k >= j
                  ELSE Nil

AnyKey(k) == TRUE

\* After any sequence of insertions, removals and, in a splay tree, searches,
\* the tree holds the keys that were inserted and not removed, in order and
\* each once, and every query answers what the set of keys says.
TreeMatches ==
  LET s == Inorder(t, t.root)
  IN /\ {s[i] : i \in DOMAIN s} = members
     /\ \A i \in 1..(Len(s) - 1) : s[i] < s[i + 1]
     /\ tree = "rb" =>
          /\ \A k \in Keys : /\ RB_FIND(t, k) = Least(LAMBDA j : j = k)
                             /\ RB_NFIND(t, k) = Least(LAMBDA j : j >= k)
          /\ \A k \in members :
               /\ RB_STEP(t, k, "right") = Least(LAMBDA j : j > k)
               /\ RB_STEP(t, k, "left") = Greatest(LAMBDA j : j < k)
          /\ RB_MINMAX(t, "left") = Least(AnyKey)
          /\ RB_MINMAX(t, "right") = Greatest(AnyKey)
     /\ tree = "splay" /\ members # {} =>
          /\ \A k \in Keys : SPLAY_FIND(t, k) = Least(LAMBDA j : j = k)
          /\ \A k \in members : SPLAY_NEXT(t, k) = Least(LAMBDA j : j > k)
          /\ SPLAY_MINMAX(t, "left").root = Least(AnyKey)
          /\ SPLAY_MINMAX(t, "right").root = Greatest(AnyKey)

\* The conditions the header promises of a red-black tree: every path has the
\* same number of black nodes, a red node has a black parent, and the height
\* is at most 2 lg(n + 1), that is 2^height <= (n + 1)^2.
RbBalanced ==
  tree = "rb" =>
    /\ \A x \in members :
         /\ BlackHeight(t.child["left"][x]) = BlackHeight(t.child["right"][x])
         /\ t.color[x] = "red" => IsBlack(t, t.parent[x])
         /\ \A s \in Sides : t.child[s][x] # Nil => t.parent[t.child[s][x]] = x
    /\ 2 ^ Height(t.root) <= (Cardinality(members) + 1) ^ 2
=============================================================================
