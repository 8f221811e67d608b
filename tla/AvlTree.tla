------------------------------ MODULE AvlTree ------------------------------
(***************************************************************************)
(* The operations of binary-tree/new/avltree/avltree.c: insertion, removal, *)
(* the three searches and the traversal.  The links that -D_AVL_NEXT_POINTER *)
(* adds are modelled too, so that the two builds of avl_next and avl_prev  *)
(* can be compared.                                                        *)
(*                                                                         *)
(* One thread uses the tree.  What a call does up to its loop is an action, *)
(* and so is every pass of the loop, in order that what holds between two  *)
(* passes can be stated: pc says which call is in its loop, and node and   *)
(* lean are the local variables of the C functions (node or cur, and bf).  *)
(***************************************************************************)
EXTENDS AvlNodes, FiniteSets

ASSUME AvlTreeAssumption == IsFiniteSet(Nodes)

VARIABLES tree, pc, node, lean

vars == <<tree, pc, node, lean>>

\* struct avl_node *a against *b, as the comparison functions of the users do.
Cmp(a, b) == a - b

-----------------------------------------------------------------------------
(* Searches *)

\* The descent of every search and of the insertion: the node equal to k, or
\* the last one on the way to where k would be.
LastSeen(h, k) ==
  LET walk[n \in Nodes] ==
        LET next == IF Cmp(n, k) > 0 THEN h.left[n]
                    ELSE IF Cmp(n, k) < 0 THEN h.right[n] ELSE Null
        IN  IF next = Null THEN n ELSE walk[next]
  IN  IF h.root = Null THEN Null ELSE walk[h.root]

\* The first and the last node of the subtree of n.
First(h, n) ==
  LET walk[m \in Nodes] == IF h.left[m] = Null THEN m ELSE walk[h.left[m]]
  IN  IF n = Null THEN Null ELSE walk[n]

Last(h, n) ==
  LET walk[m \in Nodes] == IF h.right[m] = Null THEN m ELSE walk[h.right[m]]
  IN  IF n = Null THEN Null ELSE walk[n]

avl_first(h) == First(h, h.root)
avl_last(h) == Last(h, h.root)

avl_next(h, n) ==
  LET climb[m \in Nodes] ==
        LET p == h.parent[m]
        IN  IF p = Null \/ h.left[p] = m THEN p ELSE climb[p]
  IN  IF h.right[n] # Null THEN First(h, h.right[n]) ELSE climb[n]

avl_prev(h, n) ==
  LET climb[m \in Nodes] ==
        LET p == h.parent[m]
        IN  IF p = Null \/ h.right[p] = m THEN p ELSE climb[p]
  IN  IF h.left[n] # Null THEN Last(h, h.left[n]) ELSE climb[n]

avl_search(h, k) == IF LastSeen(h, k) = k THEN k ELSE Null

avl_search_greater(h, k) ==
  LET pp == LastSeen(h, k)
  IN  IF pp = Null \/ Cmp(pp, k) >= 0 THEN pp ELSE avl_next(h, pp)

avl_search_smaller(h, k) ==
  LET pp == LastSeen(h, k)
  IN  IF pp = Null \/ Cmp(pp, k) <= 0 THEN pp ELSE avl_prev(h, pp)

-----------------------------------------------------------------------------
(* The loop from a changed node to the root *)

\* How a change of the height of its child n makes the parent p lean.
Lean(op, h, p, n) ==
  IF (h.left[p] = n) = (op = "remove") THEN 1 ELSE -1

\* The new root of a subtree takes the place of n below p.
Hung(r, p, n) ==
  IF r.tree.right[p] = n THEN [r.tree EXCEPT !.right[p] = r.node]
                         ELSE [r.tree EXCEPT !.left[p] = r.node]

\* Mutant: the tree is not told that a rotation has brought up a new root.
SettledKeepsRoot(h, n, r) ==
  IF h.parent[n] # Null THEN Hung(r, h.parent[n], n)
  ELSE IF n = h.root THEN r.tree ELSE h

\* The tree after the balancing r of n.
Settled(h, n, r) ==
  IF h.parent[n] # Null THEN Hung(r, h.parent[n], n)
  ELSE IF n = h.root THEN [r.tree EXCEPT !.root = r.node] ELSE h

Parent == tree.parent[node]
Result == BalanceTree(tree, node, lean)

\* The parent leans now, because the subtree has changed its height.
GoesOn ==
  Parent # Null /\ HeightChanged(pc, tree.bf[node], Result.tree, Result.node)

Climb ==
  /\ pc # "idle" /\ GoesOn
  /\ tree' = Settled(tree, node, Result)
  /\ node' = Parent
  /\ lean' = Lean(pc, Settled(tree, node, Result), Parent, Result.node)
  /\ UNCHANGED pc

\* The last pass of the loop, at the root or below it.
Stop ==
  /\ pc # "idle" /\ ~GoesOn
  /\ tree' = Settled(tree, node, Result)
  /\ pc' = "idle" /\ node' = Null /\ lean' = 0

-----------------------------------------------------------------------------
(* avl_insert *)

Cleared(h, k, p) ==
  [h EXCEPT !.parent[k] = p, !.bf[k] = 0, !.left[k] = Null, !.right[k] = Null,
            !.prev[k] = Null, !.next[k] = Null]

\* Mutant: p->prev is overwritten before it is read.
LinkBeforeLate(h, k, p) ==
  [h EXCEPT !.left[p] = k, !.next[k] = p, !.prev[k] = k, !.prev[p] = k]

LinkBefore(h, k, p) ==
  LET q == h.prev[p]
      g == [h EXCEPT !.left[p] = k, !.next[k] = p, !.prev[k] = q, !.prev[p] = k]
  IN  IF q = Null THEN g ELSE [g EXCEPT !.next[q] = k]

LinkAfter(h, k, p) ==
  LET q == h.next[p]
      g == [h EXCEPT !.right[p] = k, !.prev[k] = p, !.next[k] = q, !.next[p] = k]
  IN  IF q = Null THEN g ELSE [g EXCEPT !.prev[q] = k]

Link(h, k, p) ==
  IF p = Null THEN [Cleared(h, k, p) EXCEPT !.root = k]
  ELSE IF Cmp(p, k) > 0 THEN LinkBefore(Cleared(h, k, p), k, p)
  ELSE LinkAfter(Cleared(h, k, p), k, p)

\* avl_insert up to its loop, which begins at the new leaf.  Where the key is
\* present the node that has it is returned and nothing changes.
Insert(k) ==
  /\ pc = "idle"
  /\ LastSeen(tree, k) # k
  /\ tree' = Link(tree, k, LastSeen(tree, k))
  /\ pc' = "insert" /\ node' = k /\ lean' = 0

-----------------------------------------------------------------------------
(* avl_remove *)

Unthread(h, n) ==
  LET g == IF h.prev[n] = Null THEN h ELSE [h EXCEPT !.next[h.prev[n]] = h.next[n]]
  IN  IF h.next[n] = Null THEN g ELSE [g EXCEPT !.prev[h.next[n]] = h.prev[n]]

\* Mutant: the right child of the successor keeps its old parent.
DetachKeepsParent(h, n, next) ==
  LET p == h.parent[next]
  IN  IF p = n THEN h ELSE [h EXCEPT !.left[p] = h.right[next]]

\* The successor leaves its place, and its right child takes it.
Detach(h, n, next) ==
  LET p == h.parent[next]
  IN  IF p = n THEN h
      ELSE SetParent([h EXCEPT !.left[p] = h.right[next]], h.right[next], p)

\* The successor takes the place and the balance of n.
ReplaceBySuccessor(h, n, next) ==
  LET direct == h.right[n] = next
      g == ReplaceChild(Detach(h, n, next), h.parent[n], n, next)
      moved == IF direct THEN g
               ELSE SetParent([g EXCEPT !.right[next] = g.right[n]], g.right[n], next)
      linked == SetParent([moved EXCEPT !.left[next] = h.left[n]], h.left[n], next)
  IN  [tree |-> SetBf([linked EXCEPT !.parent[next] = h.parent[n]], next, h.bf[n]),
       cur |-> IF direct THEN next ELSE h.parent[next],
       bf |-> IF direct THEN -1 ELSE 1]

\* There is no right subtree: the left one takes the place of n.
ReplaceByLeft(h, n) ==
  LET p == h.parent[n]
  IN  [tree |-> SetParent(ReplaceChild(h, p, n, h.left[n]), h.left[n], p),
       cur |-> p,
       bf |-> IF p # Null /\ h.left[p] = n THEN 1 ELSE -1]

\* The caller frees the node: what it holds is not part of the state any more.
Forgotten(h, n) == Cleared(h, n, Null)

Spliced(h, n) ==
  LET next == First(h, h.right[n])
      u == Unthread(h, n)
  IN  IF next # Null THEN ReplaceBySuccessor(u, n, next) ELSE ReplaceByLeft(u, n)

\* Where n was the root, its successor is, or else its left child.
Rerooted(h, n, g) ==
  LET next == First(h, h.right[n])
  IN  IF h.root # n THEN g
      ELSE [g EXCEPT !.root = IF next # Null THEN next ELSE h.left[n]]

\* avl_remove of a node that has been found, up to its loop.  The loop does not
\* come to the node any more.
Remove(k) ==
  LET s == Spliced(tree, k)
  IN  /\ pc = "idle"
      /\ avl_search(tree, k) = k
      /\ tree' = Forgotten(Rerooted(tree, k, s.tree), k)
      /\ node' = s.cur
      /\ IF s.cur = Null THEN pc' = "idle" /\ lean' = 0
                         ELSE pc' = "remove" /\ lean' = s.bf

-----------------------------------------------------------------------------
Empty ==
  LET nowhere == [n \in Nodes |-> Null]
  IN  [root |-> Null, left |-> nowhere, right |-> nowhere, parent |-> nowhere,
       prev |-> nowhere, next |-> nowhere, bf |-> [n \in Nodes |-> 0], checked |-> TRUE]

\* avl_init
Init == tree = Empty /\ pc = "idle" /\ node = Null /\ lean = 0

Call == \E k \in Nodes : Insert(k) \/ Remove(k)

Next == Call \/ Climb \/ Stop

Spec == Init /\ [][Next]_vars

-----------------------------------------------------------------------------
(* Properties *)

\* Every field has its type; the bits of the balance factor hold it.
TypeOK ==
  /\ tree.root \in OrNull /\ tree.checked \in BOOLEAN
  /\ \A f \in {"left", "right", "parent", "prev", "next"} : tree[f] \in [Nodes -> OrNull]
  /\ tree.bf \in [Nodes -> -1 .. 1]
  /\ pc \in {"idle", "insert", "remove"} /\ node \in OrNull /\ lean \in -1 .. 1

\* The nodes that the links upwards place in the tree.
Members == {n \in Nodes : n = tree.root \/ tree.parent[n] # Null}

\* The nodes to which the links downwards lead from every node.
Under(h) ==
  LET under[n \in OrNull] ==
        IF n = Null THEN {} ELSE {n} \cup under[h.left[n]] \cup under[h.right[n]]
  IN  under

\* Whatever was rotated or spliced, between two passes of a loop too, the links
\* downwards lead to the same nodes as those upwards, to all in search order,
\* and the parent of a child is the node that has it.
SearchTree ==
  /\ Under(tree)[tree.root] = Members
  /\ tree.root # Null => tree.parent[tree.root] = Null
  /\ \A n \in Members :
       /\ \A c \in {tree.left[n], tree.right[n]} \ {Null} : tree.parent[c] = n
       /\ \A m \in Under(tree)[tree.left[n]] : Cmp(m, n) < 0
       /\ \A m \in Under(tree)[tree.right[n]] : Cmp(m, n) > 0

\* The length of the longest path down from every node.
Height(h) ==
  LET height[n \in OrNull] ==
        IF n = Null THEN 0 ELSE Higher(height[h.left[n]], height[h.right[n]]) + 1
  IN  height

\* What _avl_integrity_check asserts of a tree between two calls: the stored
\* balance of every node is the difference of the heights of its subtrees, which
\* is at most one.  And no balance factor that was ever stored, in the middle of
\* a double rotation included, was out of the range of its two bits.
Balanced ==
  /\ pc = "idle" =>
       \A n \in Members :
         /\ tree.bf[n] = Height(tree)[tree.right[n]] - Height(tree)[tree.left[n]]
         /\ tree.bf[n] \in -1 .. 1
  /\ tree.checked

Set == INSTANCE OrderedSet WITH Keys <- Nodes, members <- Members

\* The set changes with a call and by the key that the call is about, and no node
\* is lost or gained by the rotations on the way to the root.
ImplementsSet ==
  /\ Set!Spec
  /\ [][IF pc = "idle"
         THEN \E k \in Nodes : (Set!Insert(k) /\ Insert(k)) \/ (Set!Remove(k) /\ Remove(k))
         ELSE UNCHANGED Members]_vars

\* Between two calls the searches return the node they document, present or not;
\* the traversal visits the neighbour of every node, and the links of the build
\* with _AVL_NEXT_POINTER lead to the same one.
QueriesRight == pc = "idle" =>
  /\ \A k \in Nodes :
       /\ avl_search(tree, k) = Set!Find(Members, k)
       /\ avl_search_greater(tree, k) = Set!AtLeast(Members, k)
       /\ avl_search_smaller(tree, k) = Set!AtMost(Members, k)
  /\ avl_first(tree) = Set!Least(Members)
  /\ avl_last(tree) = Set!Greatest(Members)
  /\ \A n \in Members :
       /\ avl_next(tree, n) = Set!Above(Members, n) /\ tree.next[n] = avl_next(tree, n)
       /\ avl_prev(tree, n) = Set!Below(Members, n) /\ tree.prev[n] = avl_prev(tree, n)
=============================================================================
