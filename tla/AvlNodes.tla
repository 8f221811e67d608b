------------------------------ MODULE AvlNodes ------------------------------
(***************************************************************************)
(* The nodes of src/Data-Structures-and-Algorithms/binary-tree/new/avltree *)
(* and the steps of avltree.c that change a bounded number of them: links, *)
(* balance factors and the four rotations.                                 *)
(*                                                                         *)
(* A node is named by its key, and a tree is a record of its root and one  *)
(* function per field of struct avl_node.  A balance factor is stored as   *)
(* bf + 1 in the two low bits of the parent pointer; the bits and the      *)
(* pointer never meet as long as bf is in -1 .. 1, which the assertion in  *)
(* avl_set_bf (of a debug build) checks: the field checked records it.     *)
(***************************************************************************)
EXTENDS Integers

CONSTANT Nodes

Null == 0

ASSUME AvlNodesAssumption == Nodes \subseteq Nat \ {Null}

OrNull == Nodes \cup {Null}

Higher(a, b) == IF a > b THEN a ELSE b
Magnitude(n) == IF n < 0 THEN -n ELSE n

SetBf(h, n, bf) ==
  [h EXCEPT !.bf[n] = bf, !.checked = @ /\ bf \in -1 .. 1]

\* if (n) avl_set_parent(n, p)
SetParent(h, n, p) == IF n = Null THEN h ELSE [h EXCEPT !.parent[n] = p]

\* Let the parent p of old point to new instead.
ReplaceChild(h, p, old, new) ==
  IF p = Null THEN h
  ELSE IF h.left[p] = old THEN [h EXCEPT !.left[p] = new]
  ELSE [h EXCEPT !.right[p] = new]

-----------------------------------------------------------------------------
(* The arithmetic of a rotation.  Heights are measured from a base that     *)
(* makes the lower subtree of the child 0 or 1 high.                       *)

Base(present) == IF present THEN 1 ELSE 0

\* Mutant: the new balance of the parent is computed from the wrong subtree.
LLBalanceWrongSide(pbf, cbf, hasLeft, hasRight) ==
  LET c_right == IF cbf < 0 THEN Base(hasRight) ELSE Base(hasLeft) + cbf
      c_left == IF cbf < 0 THEN c_right - cbf ELSE Base(hasLeft)
      c_top == IF cbf < 0 THEN c_left ELSE c_right
      p_right == c_top + 1 + pbf
      p_top == Higher(c_right, p_right) + 1
  IN  [child |-> p_top - c_left, parent |-> p_right - c_left,
       delta |-> Higher(c_left, p_top) - (c_top + 1)]

\* From the balances of the parent and of its left child: what each has after
\* a rotation to the right, and by how much the height of the whole changes if
\* the left side was the higher one.
LLBalance(pbf, cbf, hasLeft, hasRight) ==
  LET c_right == IF cbf < 0 THEN Base(hasRight) ELSE Base(hasLeft) + cbf
      c_left == IF cbf < 0 THEN c_right - cbf ELSE Base(hasLeft)
      c_top == IF cbf < 0 THEN c_left ELSE c_right
      p_right == c_top + 1 + pbf
      p_top == Higher(c_right, p_right) + 1
  IN  [child |-> p_top - c_left, parent |-> p_right - c_right,
       delta |-> Higher(c_left, p_top) - (c_top + 1)]

RRBalance(pbf, cbf, hasLeft, hasRight) ==
  LET c_right == IF cbf < 0 THEN Base(hasRight) ELSE Base(hasLeft) + cbf
      c_left == IF cbf < 0 THEN c_right - cbf ELSE Base(hasLeft)
      c_top == IF cbf < 0 THEN c_left ELSE c_right
      p_left == c_top + 1 - pbf
      p_top == Higher(c_left, p_left) + 1
  IN  [child |-> c_right - p_top, parent |-> c_left - p_left,
       delta |-> Higher(c_right, p_top) - (c_top + 1)]

-----------------------------------------------------------------------------
(* The rotations.  The node that comes up, and its balance, are returned.   *)

\* The links of a rotation to the right, in which c comes up over p, with the
\* balances b.
TurnRight(h, p, c, b) ==
  LET inner == h.right[c]
      g == [SetBf(h, p, b.parent) EXCEPT
              !.left[p] = inner, !.right[c] = p,
              !.parent[c] = h.parent[p], !.parent[p] = c]
  IN  [tree |-> SetParent(g, inner, p), node |-> c, bf |-> b.child, delta |-> b.delta]

RotateLL(h, p, pbf, cbf) ==
  LET c == h.left[p]
  IN  TurnRight(h, p, c, LLBalance(pbf, cbf, h.left[c] # Null, h.right[c] # Null))

TurnLeft(h, p, c, b) ==
  LET inner == h.left[c]
      g == [SetBf(h, p, b.parent) EXCEPT
              !.right[p] = inner, !.left[c] = p,
              !.parent[c] = h.parent[p], !.parent[p] = c]
  IN  [tree |-> SetParent(g, inner, p), node |-> c, bf |-> b.child, delta |-> b.delta]

RotateRR(h, p, pbf, cbf) ==
  LET c == h.right[p]
  IN  TurnLeft(h, p, c, RRBalance(pbf, cbf, h.left[c] # Null, h.right[c] # Null))

\* The balance of the node that has come up is stored last.
Stored(r) == [tree |-> SetBf(r.tree, r.node, r.bf), node |-> r.node]

\* There is nothing to rotate under c.
Unrotated(h, c) == [tree |-> h, node |-> c, bf |-> h.bf[c], delta |-> 0]

\* The rotation of p over the result r of a rotation under it.
LLOver(r, p, pbf) == RotateLL([r.tree EXCEPT !.left[p] = r.node], p, pbf - r.delta, r.bf)
RROver(r, p, pbf) == RotateRR([r.tree EXCEPT !.right[p] = r.node], p, pbf + r.delta, r.bf)

\* The balances of the first rotation's result stay in local variables: they
\* may be out of range, and only what the second makes of them is stored.
RotateLR(h, p, pbf) ==
  LET c == h.left[p]
      g == h.right[c]
  IN  Stored(LLOver(IF g = Null THEN Unrotated(h, c) ELSE RotateRR(h, c, h.bf[c], h.bf[g]),
                    p, pbf))

RotateRL(h, p, pbf) ==
  LET c == h.right[p]
      g == h.left[c]
  IN  Stored(RROver(IF g = Null THEN Unrotated(h, c) ELSE RotateLL(h, c, h.bf[c], h.bf[g]),
                    p, pbf))

Balance(h, n) == IF n = Null THEN 0 ELSE h.bf[n]

SingleLL(h, n, diff) == Stored(RotateLL(h, n, diff, h.bf[h.left[n]]))
SingleRR(h, n, diff) == Stored(RotateRR(h, n, diff, h.bf[h.right[n]]))

\* Mutant: a child that is in balance is taken for one that leans inwards.
BalanceTreeStrict(h, n, b) ==
  LET diff == h.bf[n] + b
  IN  IF diff < -1 /\ h.left[n] # Null
      THEN IF Balance(h, h.left[n]) < 0 THEN SingleLL(h, n, diff) ELSE RotateLR(h, n, diff)
      ELSE IF diff > 1 /\ h.right[n] # Null
      THEN IF Balance(h, h.right[n]) > 0 THEN SingleRR(h, n, diff) ELSE RotateRL(h, n, diff)
      ELSE [tree |-> SetBf(h, n, diff), node |-> n]

\* Let node n, one of whose subtrees has changed its height by one, lean by b.
BalanceTree(h, n, b) ==
  LET diff == h.bf[n] + b
  IN  IF diff < -1 /\ h.left[n] # Null
      THEN IF Balance(h, h.left[n]) <= 0 THEN SingleLL(h, n, diff) ELSE RotateLR(h, n, diff)
      ELSE IF diff > 1 /\ h.right[n] # Null
      THEN IF Balance(h, h.right[n]) >= 0 THEN SingleRR(h, n, diff) ELSE RotateRL(h, n, diff)
      ELSE [tree |-> SetBf(h, n, diff), node |-> n]

\* A subtree has changed its height when its root is a leaf now, or when the
\* balance has moved away from 0 by an insertion or back to 0 by a removal.
HeightChanged(op, old, h, n) ==
  \/ h.left[n] = Null /\ h.right[n] = Null
  \/ op = "insert" /\ Magnitude(old) < Magnitude(h.bf[n])
  \/ op = "remove" /\ Magnitude(old) > Magnitude(h.bf[n])
=============================================================================
