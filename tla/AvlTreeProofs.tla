---------------------------- MODULE AvlTreeProofs ----------------------------
(***************************************************************************)
(* What avl_insert and avl_remove keep true, as theorems of Spec for every *)
(* finite set of nodes: types, search order, balance, the refinement of    *)
(* OrderedSet, and what the searches and the traversal return.  LinksInv   *)
(* is the inductive invariant about the links; HeightInv, about heights    *)
(* and balances, is inductive with it.  What the rotations compute from    *)
(* two balances, and what _balance_tree makes of a subtree, comes first.   *)
(*                                                                         *)
(* The links of an AVL tree are those of a red-black tree without colours. *)
(* Rb states the lemmas about links once more, of the view that View gives *)
(* of an AVL tree; the variables of that module play no role in them.      *)
(***************************************************************************)
EXTENDS AvlTree, TLAPS

-----------------------------------------------------------------------------
(* The arithmetic.  a and b are the heights of the subtrees of the child that *)
(* comes up, outer and inner, and c is that of the other child of the parent. *)

\* The rotation to the right computes the balance factors that the heights
\* imply, although it is given no height, only the two balances and whether the
\* child's subtrees are empty.
THEOREM LLBalanceExact ==
  ASSUME NEW a \in Nat, NEW b \in Nat, NEW c \in Nat
  PROVE  LET r == LLBalance(c - (Higher(a, b) + 1), b - a, a > 0, b > 0)
         IN  /\ r.parent = c - b
             /\ r.child = (Higher(b, c) + 1) - a
BY DEF LLBalance, Higher, Base

\* For a parent that leans to the left or not at all, as the comment demands,
\* the delta is what the height of the whole changes by.
LEMMA LLBalanceDelta ==
  ASSUME NEW a \in Nat, NEW b \in Nat, NEW c \in Nat, c <= Higher(a, b) + 1
  PROVE  LLBalance(c - (Higher(a, b) + 1), b - a, a > 0, b > 0).delta
           = Higher(a, Higher(b, c) + 1) - Higher(Higher(a, b) + 1, c)
BY DEF LLBalance, Higher, Base

\* The rotation to the left is its mirror image.
THEOREM RRBalanceExact ==
  ASSUME NEW a \in Nat, NEW b \in Nat, NEW c \in Nat
  PROVE  LET r == RRBalance((Higher(a, b) + 1) - c, a - b, b > 0, a > 0)
         IN  /\ r.parent = b - c
             /\ r.child = a - (Higher(b, c) + 1)
BY DEF RRBalance, Higher, Base

\* The mirror image, for a parent that leans to the right or not at all.
LEMMA RRBalanceDelta ==
  ASSUME NEW a \in Nat, NEW b \in Nat, NEW c \in Nat, c <= Higher(a, b) + 1
  PROVE  RRBalance((Higher(a, b) + 1) - c, a - b, b > 0, a > 0).delta
           = Higher(a, Higher(b, c) + 1) - Higher(Higher(a, b) + 1, c)
BY DEF RRBalance, Higher, Base

-----------------------------------------------------------------------------
(* The links.  In what follows a tree has fields of the right types. *)

Trees == [root : OrNull, left : [Nodes -> OrNull], right : [Nodes -> OrNull],
          parent : [Nodes -> OrNull], prev : [Nodes -> OrNull],
          next : [Nodes -> OrNull], bf : [Nodes -> Int], checked : BOOLEAN]

\* The null pointer is not a node.
LEMMA NullIsNoNode == Null \notin Nodes
BY AvlNodesAssumption DEF Null

Balances == [child : Int, parent : Int, delta : Int]

\* A rotation computes integers from integers, in range or not.
LEMMA LLBalanceIsInt ==
  ASSUME NEW pbf \in Int, NEW cbf \in Int, NEW l \in BOOLEAN, NEW r \in BOOLEAN
  PROVE  LLBalance(pbf, cbf, l, r) \in Balances
BY DEF LLBalance, Higher, Base, Balances

\* The same to the left.
LEMMA RRBalanceIsInt ==
  ASSUME NEW pbf \in Int, NEW cbf \in Int, NEW l \in BOOLEAN, NEW r \in BOOLEAN
  PROVE  RRBalance(pbf, cbf, l, r) \in Balances
BY DEF RRBalance, Higher, Base, Balances

\* avl_set_bf changes the balance factor of one node and nothing else.
LEMMA SetBfFields ==
  ASSUME NEW h \in Trees, NEW n \in Nodes, NEW b \in Int
  PROVE  LET g == SetBf(h, n, b)
         IN  /\ g \in Trees
             /\ g.root = h.root /\ g.left = h.left /\ g.right = h.right
             /\ g.parent = h.parent
             /\ g.bf = [h.bf EXCEPT ![n] = b]
             /\ g.checked = (h.checked /\ b \in -1 .. 1)
BY DEF SetBf, Trees

\* The parent pointers after a rotation that brings c up over p and hands the
\* subtree inner over to p.
Turned(h, p, c, inner) ==
  [m \in Nodes |-> IF m = inner THEN p ELSE IF m = p THEN c
                   ELSE IF m = c THEN h.parent[p] ELSE h.parent[m]]

\* What a rotation to the right writes, field by field.
LEMMA TurnRightFields ==
  ASSUME NEW h \in Trees, NEW p \in Nodes, NEW c \in Nodes, c # p,
         NEW b \in Balances
  PROVE  LET r == TurnRight(h, p, c, b)
             g == r.tree
         IN  /\ g \in Trees
             /\ r.node = c /\ r.bf = b.child /\ r.delta = b.delta
             /\ g.left = [h.left EXCEPT ![p] = h.right[c]]
             /\ g.right = [h.right EXCEPT ![c] = p]
             /\ g.parent = Turned(h, p, c, h.right[c])
             /\ g.bf = [h.bf EXCEPT ![p] = b.parent]
             /\ g.checked = (h.checked /\ b.parent \in -1 .. 1)
<1> DEFINE inner == h.right[c]
           s == SetBf(h, p, b.parent)
           k == [s EXCEPT !.left[p] = inner, !.right[c] = p,
                          !.parent[c] = h.parent[p], !.parent[p] = c]
           g == SetParent(k, inner, p)
<1>1. b.child \in Int /\ b.parent \in Int /\ b.delta \in Int
  BY DEF Balances
<1>2. inner \in OrNull
  BY DEF Trees, OrNull
<1>3. /\ s \in Trees
      /\ s.root = h.root /\ s.left = h.left /\ s.right = h.right
      /\ s.parent = h.parent
      /\ s.bf = [h.bf EXCEPT ![p] = b.parent]
      /\ s.checked = (h.checked /\ b.parent \in -1 .. 1)
  BY <1>1, SetBfFields
<1>4. TurnRight(h, p, c, b) = [tree |-> g, node |-> c, bf |-> b.child, delta |-> b.delta]
  BY DEF TurnRight
<1> HIDE DEF s
<1>5. /\ k \in Trees
      /\ k.left = [h.left EXCEPT ![p] = inner]
      /\ k.right = [h.right EXCEPT ![c] = p]
      /\ k.parent = [h.parent EXCEPT ![c] = h.parent[p], ![p] = c]
      /\ k.bf = [h.bf EXCEPT ![p] = b.parent]
      /\ k.checked = (h.checked /\ b.parent \in -1 .. 1)
  BY <1>2, <1>3 DEF Trees, OrNull
<1> HIDE DEF k
<1>6. /\ g \in Trees
      /\ g.left = k.left /\ g.right = k.right
      /\ g.bf = k.bf /\ g.checked = k.checked
      /\ g.parent = Turned(h, p, c, inner)
  <2>1. CASE inner = Null
    BY <1>5, <2>1, NullIsNoNode DEF SetParent, Turned, Trees, OrNull
  <2>2. CASE inner # Null
    <3>1. inner \in Nodes /\ g = [k EXCEPT !.parent[inner] = p]
      BY <1>2, <2>2 DEF SetParent, OrNull
    <3>2. g.parent = [k.parent EXCEPT ![inner] = p]
      BY <1>5, <3>1 DEF Trees
    <3>3. g.parent = Turned(h, p, c, inner)
      BY <1>5, <3>1, <3>2 DEF Turned, Trees, OrNull
    <3>4. g \in Trees
      BY SMTT(30), <1>5, <3>1 DEF Trees, OrNull
    <3> QED BY <1>5, <3>1, <3>3, <3>4 DEF Trees
  <2> QED BY <2>1, <2>2
<1> HIDE DEF g
<1> QED BY <1>4, <1>5, <1>6

\* What a rotation to the left writes, field by field.
LEMMA TurnLeftFields ==
  ASSUME NEW h \in Trees, NEW p \in Nodes, NEW c \in Nodes, c # p,
         NEW b \in Balances
  PROVE  LET r == TurnLeft(h, p, c, b)
             g == r.tree
         IN  /\ g \in Trees
             /\ r.node = c /\ r.bf = b.child /\ r.delta = b.delta
             /\ g.right = [h.right EXCEPT ![p] = h.left[c]]
             /\ g.left = [h.left EXCEPT ![c] = p]
             /\ g.parent = Turned(h, p, c, h.left[c])
             /\ g.bf = [h.bf EXCEPT ![p] = b.parent]
             /\ g.checked = (h.checked /\ b.parent \in -1 .. 1)
<1> DEFINE inner == h.left[c]
           s == SetBf(h, p, b.parent)
           k == [s EXCEPT !.right[p] = inner, !.left[c] = p,
                          !.parent[c] = h.parent[p], !.parent[p] = c]
           g == SetParent(k, inner, p)
<1>1. b.child \in Int /\ b.parent \in Int /\ b.delta \in Int
  BY DEF Balances
<1>2. inner \in OrNull
  BY DEF Trees, OrNull
<1>3. /\ s \in Trees
      /\ s.root = h.root /\ s.right = h.right /\ s.left = h.left
      /\ s.parent = h.parent
      /\ s.bf = [h.bf EXCEPT ![p] = b.parent]
      /\ s.checked = (h.checked /\ b.parent \in -1 .. 1)
  BY <1>1, SetBfFields
<1>4. TurnLeft(h, p, c, b) = [tree |-> g, node |-> c, bf |-> b.child, delta |-> b.delta]
  BY DEF TurnLeft
<1> HIDE DEF s
<1>5. /\ k \in Trees
      /\ k.right = [h.right EXCEPT ![p] = inner]
      /\ k.left = [h.left EXCEPT ![c] = p]
      /\ k.parent = [h.parent EXCEPT ![c] = h.parent[p], ![p] = c]
      /\ k.bf = [h.bf EXCEPT ![p] = b.parent]
      /\ k.checked = (h.checked /\ b.parent \in -1 .. 1)
  BY <1>2, <1>3 DEF Trees, OrNull
<1> HIDE DEF k
<1>6. /\ g \in Trees
      /\ g.right = k.right /\ g.left = k.left
      /\ g.bf = k.bf /\ g.checked = k.checked
      /\ g.parent = Turned(h, p, c, inner)
  <2>1. CASE inner = Null
    BY <1>5, <2>1, NullIsNoNode DEF SetParent, Turned, Trees, OrNull
  <2>2. CASE inner # Null
    <3>1. inner \in Nodes /\ g = [k EXCEPT !.parent[inner] = p]
      BY <1>2, <2>2 DEF SetParent, OrNull
    <3>2. g.parent = [k.parent EXCEPT ![inner] = p]
      BY <1>5, <3>1 DEF Trees
    <3>3. g.parent = Turned(h, p, c, inner)
      BY <1>5, <3>1, <3>2 DEF Turned, Trees, OrNull
    <3>4. g \in Trees
      BY SMTT(30), <1>5, <3>1 DEF Trees, OrNull
    <3> QED BY <1>5, <3>1, <3>3, <3>4 DEF Trees
  <2> QED BY <2>1, <2>2
<1> HIDE DEF g
<1> QED BY <1>4, <1>5, <1>6

-----------------------------------------------------------------------------
(* The shape.  D is the set of nodes of a subtree with root n.             *)

\* Parents and children agree in the subtree, and n is its root.
Links(h, D, n) ==
  \A m \in D :
    /\ h.left[m] \in (D \ {n}) \cup {Null}
    /\ h.right[m] \in (D \ {n}) \cup {Null}
    /\ h.left[m] # Null => h.parent[h.left[m]] = m
    /\ h.right[m] # Null => h.parent[h.right[m]] = m
    /\ h.left[m] = h.right[m] => h.left[m] = Null

\* The links of g are those of h after the rotation of n, whose left child c is.
RotatedRight(h, n, c, g) ==
  /\ g.left = [h.left EXCEPT ![n] = h.right[c]]
  /\ g.right = [h.right EXCEPT ![c] = n]
  /\ g.parent = Turned(h, n, c, h.right[c])

\* A rotation of the root to the right keeps parents and children in agreement.
LEMMA TurnRightLinks ==
  ASSUME NEW h \in Trees, NEW D \in SUBSET Nodes, NEW n \in D, NEW c \in D,
         Links(h, D, n), h.left[n] = c, NEW g, RotatedRight(h, n, c, g)
  PROVE  Links(g, D, c)
<1> DEFINE inner == h.right[c]
<1>0. /\ g.left = [h.left EXCEPT ![n] = inner]
      /\ g.right = [h.right EXCEPT ![c] = n]
      /\ g.parent = Turned(h, n, c, inner)
  BY DEF RotatedRight
<1>1. /\ Null \notin D /\ n \in Nodes /\ c \in Nodes
      /\ c # n /\ h.parent[c] = n /\ h.right[n] # c
  BY NullIsNoNode DEF Links
<1>2. /\ inner \in (D \ {n, c}) \cup {Null}
      /\ inner # Null => h.parent[inner] = c
  BY <1>1 DEF Links
<1>3. /\ h.left[c] \in (D \ {n, c, inner}) \cup {Null}
      /\ h.left[c] # Null => h.parent[h.left[c]] = c
      /\ h.right[n] \in (D \ {n, c, inner}) \cup {Null}
      /\ h.right[n] # Null => h.parent[h.right[n]] = n
  BY <1>1, <1>2 DEF Links
<1>4. ASSUME NEW m \in D \ {n, c}
      PROVE  /\ h.left[m] \in (D \ {n, c, inner}) \cup {Null}
             /\ h.right[m] \in (D \ {n, c, inner}) \cup {Null}
             /\ h.left[m] # Null => h.parent[h.left[m]] = m
             /\ h.right[m] # Null => h.parent[h.right[m]] = m
             /\ h.left[m] = h.right[m] => h.left[m] = Null
  BY <1>1, <1>2, <1>4 DEF Links
<1>5. /\ g.parent[n] = c
      /\ inner # Null => g.parent[inner] = n
      /\ \A m \in D \ {n, c, inner} : g.parent[m] = h.parent[m]
  BY <1>0, <1>1, <1>2 DEF Turned
<1>6. /\ g.left[n] = inner /\ g.right[n] = h.right[n]
      /\ g.left[c] = h.left[c] /\ g.right[c] = n
      /\ \A m \in D \ {n, c} : g.left[m] = h.left[m] /\ g.right[m] = h.right[m]
  BY <1>0, <1>1 DEF Trees
<1> HIDE DEF inner
<1> SUFFICES ASSUME NEW m \in D
             PROVE  /\ g.left[m] \in (D \ {c}) \cup {Null}
                    /\ g.right[m] \in (D \ {c}) \cup {Null}
                    /\ g.left[m] # Null => g.parent[g.left[m]] = m
                    /\ g.right[m] # Null => g.parent[g.right[m]] = m
                    /\ g.left[m] = g.right[m] => g.left[m] = Null
  BY DEF Links
<1>7. CASE m = n
  BY <1>1, <1>2, <1>3, <1>5, <1>6, <1>7
<1>8. CASE m = c
  BY <1>1, <1>2, <1>3, <1>5, <1>6, <1>8
<1>9. CASE m \notin {n, c}
  BY <1>1, <1>4, <1>5, <1>6, <1>9
<1> QED BY <1>7, <1>8, <1>9

\* The rotation of the left child p of the root, whose right child c comes up
\* and is hung under the root.
RotatedLeftBelow(h, n, p, c, g) ==
  /\ g.left = [h.left EXCEPT ![c] = p, ![n] = c]
  /\ g.right = [h.right EXCEPT ![p] = h.left[c]]
  /\ g.parent = Turned(h, p, c, h.left[c])

\* So does the first of the two rotations of _rotate_LR.
LEMMA TurnLeftBelowLinks ==
  ASSUME NEW h \in Trees, NEW D \in SUBSET Nodes, NEW n \in D, NEW p \in D, NEW c \in D,
         Links(h, D, n), h.left[n] = p, h.right[p] = c, NEW g, RotatedLeftBelow(h, n, p, c, g)
  PROVE  Links(g, D, n)
<1> DEFINE inner == h.left[c]
<1>0. /\ g.left = [h.left EXCEPT ![c] = p, ![n] = c]
      /\ g.right = [h.right EXCEPT ![p] = inner]
      /\ g.parent = Turned(h, p, c, inner)
  BY DEF RotatedLeftBelow
<1>1. /\ Null \notin D /\ n \in Nodes /\ p \in Nodes /\ c \in Nodes
      /\ p # n /\ c # n /\ c # p /\ h.parent[p] = n /\ h.parent[c] = p
      /\ h.right[n] # p /\ h.right[n] # c /\ h.left[p] # c
  BY NullIsNoNode DEF Links
<1>2. /\ inner \in (D \ {n, p, c}) \cup {Null}
      /\ inner # Null => h.parent[inner] = c
  BY <1>1 DEF Links
<1>3. /\ h.right[c] \in (D \ {n, p, c, inner}) \cup {Null}
      /\ h.right[c] # Null => h.parent[h.right[c]] = c
      /\ h.left[p] \in (D \ {n, p, c, inner}) \cup {Null}
      /\ h.left[p] # Null => h.parent[h.left[p]] = p
      /\ h.right[n] \in (D \ {n, p, c, inner}) \cup {Null}
      /\ h.right[n] # Null => h.parent[h.right[n]] = n
  BY <1>1, <1>2 DEF Links
<1>4. ASSUME NEW m \in D \ {n, p, c}
      PROVE  /\ h.left[m] \in (D \ {n, p, c, inner}) \cup {Null}
             /\ h.right[m] \in (D \ {n, p, c, inner}) \cup {Null}
             /\ h.left[m] # Null => h.parent[h.left[m]] = m
             /\ h.right[m] # Null => h.parent[h.right[m]] = m
             /\ h.left[m] = h.right[m] => h.left[m] = Null
  BY <1>1, <1>2, <1>4 DEF Links
<1>5. /\ g.parent[p] = c /\ g.parent[c] = n
      /\ inner # Null => g.parent[inner] = p
      /\ \A m \in D \ {p, c, inner} : g.parent[m] = h.parent[m]
  <2>1. \A m \in Nodes : g.parent[m] = IF m = inner THEN p ELSE IF m = p THEN c
                                       ELSE IF m = c THEN h.parent[p] ELSE h.parent[m]
    BY <1>0 DEF Turned
  <2>2. inner \notin {p, c} /\ (inner # Null => inner \in Nodes)
    BY <1>1, <1>2
  <2> QED BY <1>1, <2>1, <2>2
<1>6. /\ g.left[n] = c /\ g.right[n] = h.right[n]
      /\ g.left[p] = h.left[p] /\ g.right[p] = inner
      /\ g.left[c] = p /\ g.right[c] = h.right[c]
      /\ \A m \in D \ {n, p, c} : g.left[m] = h.left[m] /\ g.right[m] = h.right[m]
  BY <1>0, <1>1 DEF Trees
<1> HIDE DEF inner
<1> SUFFICES ASSUME NEW m \in D
             PROVE  /\ g.left[m] \in (D \ {n}) \cup {Null}
                    /\ g.right[m] \in (D \ {n}) \cup {Null}
                    /\ g.left[m] # Null => g.parent[g.left[m]] = m
                    /\ g.right[m] # Null => g.parent[g.right[m]] = m
                    /\ g.left[m] = g.right[m] => g.left[m] = Null
  BY DEF Links
<1>7. CASE m = n
  BY <1>1, <1>3, <1>5, <1>6, <1>7
<1>8. CASE m = p
  BY <1>1, <1>2, <1>3, <1>5, <1>6, <1>8
<1>9. CASE m = c
  BY <1>1, <1>2, <1>3, <1>5, <1>6, <1>9
<1>10. CASE m \notin {n, p, c}
  BY <1>1, <1>4, <1>5, <1>6, <1>10
<1> QED BY <1>7, <1>8, <1>9, <1>10

\* The links of g are those of h after the rotation of n, whose right child c is.
RotatedLeft(h, n, c, g) ==
  /\ g.right = [h.right EXCEPT ![n] = h.left[c]]
  /\ g.left = [h.left EXCEPT ![c] = n]
  /\ g.parent = Turned(h, n, c, h.left[c])

\* A rotation of the root to the left keeps parents and children in agreement.
LEMMA TurnLeftLinks ==
  ASSUME NEW h \in Trees, NEW D \in SUBSET Nodes, NEW n \in D, NEW c \in D,
         Links(h, D, n), h.right[n] = c, NEW g, RotatedLeft(h, n, c, g)
  PROVE  Links(g, D, c)
<1> DEFINE inner == h.left[c]
<1>0. /\ g.right = [h.right EXCEPT ![n] = inner]
      /\ g.left = [h.left EXCEPT ![c] = n]
      /\ g.parent = Turned(h, n, c, inner)
  BY DEF RotatedLeft
<1>1. /\ Null \notin D /\ n \in Nodes /\ c \in Nodes
      /\ c # n /\ h.parent[c] = n /\ h.left[n] # c
  BY NullIsNoNode DEF Links
<1>2. /\ inner \in (D \ {n, c}) \cup {Null}
      /\ inner # Null => h.parent[inner] = c
  BY <1>1 DEF Links
<1>3. /\ h.right[c] \in (D \ {n, c, inner}) \cup {Null}
      /\ h.right[c] # Null => h.parent[h.right[c]] = c
      /\ h.left[n] \in (D \ {n, c, inner}) \cup {Null}
      /\ h.left[n] # Null => h.parent[h.left[n]] = n
  BY <1>1, <1>2 DEF Links
<1>4. ASSUME NEW m \in D \ {n, c}
      PROVE  /\ h.right[m] \in (D \ {n, c, inner}) \cup {Null}
             /\ h.left[m] \in (D \ {n, c, inner}) \cup {Null}
             /\ h.right[m] # Null => h.parent[h.right[m]] = m
             /\ h.left[m] # Null => h.parent[h.left[m]] = m
             /\ h.right[m] = h.left[m] => h.right[m] = Null
  BY <1>1, <1>2, <1>4 DEF Links
<1>5. /\ g.parent[n] = c
      /\ inner # Null => g.parent[inner] = n
      /\ \A m \in D \ {n, c, inner} : g.parent[m] = h.parent[m]
  BY <1>0, <1>1, <1>2 DEF Turned
<1>6. /\ g.right[n] = inner /\ g.left[n] = h.left[n]
      /\ g.right[c] = h.right[c] /\ g.left[c] = n
      /\ \A m \in D \ {n, c} : g.right[m] = h.right[m] /\ g.left[m] = h.left[m]
  BY <1>0, <1>1 DEF Trees
<1> HIDE DEF inner
<1> SUFFICES ASSUME NEW m \in D
             PROVE  /\ g.right[m] \in (D \ {c}) \cup {Null}
                    /\ g.left[m] \in (D \ {c}) \cup {Null}
                    /\ g.right[m] # Null => g.parent[g.right[m]] = m
                    /\ g.left[m] # Null => g.parent[g.left[m]] = m
                    /\ g.right[m] = g.left[m] => g.right[m] = Null
  BY DEF Links
<1>7. CASE m = n
  BY <1>1, <1>2, <1>3, <1>5, <1>6, <1>7
<1>8. CASE m = c
  BY <1>1, <1>2, <1>3, <1>5, <1>6, <1>8
<1>9. CASE m \notin {n, c}
  BY <1>1, <1>4, <1>5, <1>6, <1>9
<1> QED BY <1>7, <1>8, <1>9

\* The rotation of the right child p of the root, whose left child c comes up
\* and is hung under the root.
RotatedRightBelow(h, n, p, c, g) ==
  /\ g.right = [h.right EXCEPT ![c] = p, ![n] = c]
  /\ g.left = [h.left EXCEPT ![p] = h.right[c]]
  /\ g.parent = Turned(h, p, c, h.right[c])

\* So does the first of the two rotations of _rotate_RL.
LEMMA TurnRightBelowLinks ==
  ASSUME NEW h \in Trees, NEW D \in SUBSET Nodes, NEW n \in D, NEW p \in D, NEW c \in D,
         Links(h, D, n), h.right[n] = p, h.left[p] = c, NEW g, RotatedRightBelow(h, n, p, c, g)
  PROVE  Links(g, D, n)
<1> DEFINE inner == h.right[c]
<1>0. /\ g.right = [h.right EXCEPT ![c] = p, ![n] = c]
      /\ g.left = [h.left EXCEPT ![p] = inner]
      /\ g.parent = Turned(h, p, c, inner)
  BY DEF RotatedRightBelow
<1>1. /\ Null \notin D /\ n \in Nodes /\ p \in Nodes /\ c \in Nodes
      /\ p # n /\ c # n /\ c # p /\ h.parent[p] = n /\ h.parent[c] = p
      /\ h.left[n] # p /\ h.left[n] # c /\ h.right[p] # c
  BY NullIsNoNode DEF Links
<1>2. /\ inner \in (D \ {n, p, c}) \cup {Null}
      /\ inner # Null => h.parent[inner] = c
  BY <1>1 DEF Links
<1>3. /\ h.left[c] \in (D \ {n, p, c, inner}) \cup {Null}
      /\ h.left[c] # Null => h.parent[h.left[c]] = c
      /\ h.right[p] \in (D \ {n, p, c, inner}) \cup {Null}
      /\ h.right[p] # Null => h.parent[h.right[p]] = p
      /\ h.left[n] \in (D \ {n, p, c, inner}) \cup {Null}
      /\ h.left[n] # Null => h.parent[h.left[n]] = n
  BY <1>1, <1>2 DEF Links
<1>4. ASSUME NEW m \in D \ {n, p, c}
      PROVE  /\ h.right[m] \in (D \ {n, p, c, inner}) \cup {Null}
             /\ h.left[m] \in (D \ {n, p, c, inner}) \cup {Null}
             /\ h.right[m] # Null => h.parent[h.right[m]] = m
             /\ h.left[m] # Null => h.parent[h.left[m]] = m
             /\ h.right[m] = h.left[m] => h.right[m] = Null
  BY <1>1, <1>2, <1>4 DEF Links
<1>5. /\ g.parent[p] = c /\ g.parent[c] = n
      /\ inner # Null => g.parent[inner] = p
      /\ \A m \in D \ {p, c, inner} : g.parent[m] = h.parent[m]
  <2>1. \A m \in Nodes : g.parent[m] = IF m = inner THEN p ELSE IF m = p THEN c
                                       ELSE IF m = c THEN h.parent[p] ELSE h.parent[m]
    BY <1>0 DEF Turned
  <2>2. inner \notin {p, c} /\ (inner # Null => inner \in Nodes)
    BY <1>1, <1>2
  <2> QED BY <1>1, <2>1, <2>2
<1>6. /\ g.right[n] = c /\ g.left[n] = h.left[n]
      /\ g.right[p] = h.right[p] /\ g.left[p] = inner
      /\ g.right[c] = p /\ g.left[c] = h.left[c]
      /\ \A m \in D \ {n, p, c} : g.right[m] = h.right[m] /\ g.left[m] = h.left[m]
  BY <1>0, <1>1 DEF Trees
<1> HIDE DEF inner
<1> SUFFICES ASSUME NEW m \in D
             PROVE  /\ g.right[m] \in (D \ {n}) \cup {Null}
                    /\ g.left[m] \in (D \ {n}) \cup {Null}
                    /\ g.right[m] # Null => g.parent[g.right[m]] = m
                    /\ g.left[m] # Null => g.parent[g.left[m]] = m
                    /\ g.right[m] = g.left[m] => g.right[m] = Null
  BY DEF Links
<1>7. CASE m = n
  BY <1>1, <1>3, <1>5, <1>6, <1>7
<1>8. CASE m = p
  BY <1>1, <1>2, <1>3, <1>5, <1>6, <1>8
<1>9. CASE m = c
  BY <1>1, <1>2, <1>3, <1>5, <1>6, <1>9
<1>10. CASE m \notin {n, p, c}
  BY <1>1, <1>4, <1>5, <1>6, <1>10
<1> QED BY <1>7, <1>8, <1>9, <1>10

-----------------------------------------------------------------------------
(* The heights.  ht gives every node of the tree a height.                 *)

HeightMaps == {ht \in [OrNull -> Nat] : ht[Null] = 0 /\ \A m \in Nodes : ht[m] > 0}

Tall(h, ht, m) == ht[m] = Higher(ht[h.left[m]], ht[h.right[m]]) + 1

Diff(h, ht, m) == ht[h.right[m]] - ht[h.left[m]]

\* D is a subtree with root n, ht measures it, and the stored balances are the
\* real ones, except perhaps for the nodes in Out.
Measured(h, ht, D, n, Out) ==
  /\ n \in D
  /\ Links(h, D, n)
  /\ \A m \in D : Tall(h, ht, m)
  /\ \A m \in D \ Out : h.bf[m] = Diff(h, ht, m)

\* Nothing outside D differs.
SameOutside(h, g, D) ==
  \A m \in Nodes \ D : /\ g.left[m] = h.left[m] /\ g.right[m] = h.right[m]
                       /\ g.parent[m] = h.parent[m] /\ g.bf[m] = h.bf[m]

\* The balances that the rotation of n computes when it is given the real ones.
LLBalanceOf(h, ht, n, c) == LLBalance(Diff(h, ht, n), Diff(h, ht, c), h.left[c] # Null, h.right[c] # Null)

LLExact(h, ht, n, c, b) ==
  LET x == ht[h.left[c]]
      y == ht[h.right[c]]
      z == ht[h.right[n]]
  IN  /\ b \in Balances
      /\ b.parent = z - y
      /\ b.child = (Higher(y, z) + 1) - x
      /\ z <= ht[c] => b.delta = (Higher(x, Higher(y, z) + 1) + 1) - ht[n]

\* Given the real balances, a rotation to the right computes the real ones.
LEMMA LLBalances ==
  ASSUME NEW h \in Trees, NEW ht \in HeightMaps, NEW n \in Nodes, NEW c \in Nodes,
         h.left[n] = c, Tall(h, ht, c), Tall(h, ht, n)
  PROVE  LLExact(h, ht, n, c, LLBalanceOf(h, ht, n, c))
<1> DEFINE x == ht[h.left[c]]
           y == ht[h.right[c]]
           z == ht[h.right[n]]
<1>1. /\ h.left[c] \in OrNull /\ h.right[c] \in OrNull /\ h.right[n] \in OrNull
  BY DEF Trees
<1>2. /\ x \in Nat /\ y \in Nat /\ z \in Nat
      /\ (h.left[c] # Null) = (x > 0)
      /\ (h.right[c] # Null) = (y > 0)
  BY <1>1 DEF HeightMaps, OrNull
<1>3. ht[c] = Higher(x, y) + 1
  BY <1>2 DEF Tall, Higher
<1>4. /\ Diff(h, ht, n) = z - (Higher(x, y) + 1)
      /\ Diff(h, ht, c) = y - x
      /\ ht[n] = Higher(ht[c], z) + 1
  <2>1. Higher(x, y) + 1 \in Nat
    BY <1>2 DEF Higher
  <2> QED BY <1>2, <1>3, <2>1 DEF Diff, Tall, Higher
<1> HIDE DEF x, y, z
<1> DEFINE e == LLBalance(z - (Higher(x, y) + 1), y - x, x > 0, y > 0)
<1>5. LLBalanceOf(h, ht, n, c) = e
  BY <1>2, <1>4 DEF LLBalanceOf
<1>6. /\ e.parent = z - y
      /\ e.child = (Higher(y, z) + 1) - x
  <2>1. x \in Nat /\ y \in Nat /\ z \in Nat
    BY <1>2
  <2> QED BY <2>1, LLBalanceExact, Zenon
<1>7. z <= ht[c] => e.delta = (Higher(x, Higher(y, z) + 1) + 1) - ht[n]
  <2>1. ASSUME z <= Higher(x, y) + 1
        PROVE  e.delta = Higher(x, Higher(y, z) + 1) - Higher(Higher(x, y) + 1, z)
    BY <1>2, <2>1, LLBalanceDelta, Zenon
  <2> HIDE DEF e
  <2> QED BY <1>2, <1>3, <1>4, <2>1 DEF Higher
<1>8. e \in Balances
  <2>1. /\ z - (Higher(x, y) + 1) \in Int /\ y - x \in Int
        /\ (x > 0) \in BOOLEAN /\ (y > 0) \in BOOLEAN
    BY <1>2 DEF Higher
  <2> QED BY <2>1, LLBalanceIsInt, Zenon
<1> HIDE DEF e
<1> QED BY <1>2, <1>5, <1>6, <1>7, <1>8 DEF x, y, z, LLExact

\* After a rotation that brings c up over n: x and y are the heights of the
\* outer and of the inner subtree of c, and z that of the other child of n.
ComesUpRight(h, ht, D, n, c, r) ==
  LET x == ht[h.left[c]]
      y == ht[h.right[c]]
      z == ht[h.right[n]]
      top == Higher(x, Higher(y, z) + 1) + 1
      ht2 == [ht EXCEPT ![n] = Higher(y, z) + 1, ![c] = top]
      g == r.tree
  IN  /\ g \in Trees /\ ht2 \in HeightMaps
      /\ r.node = c /\ r.bf = (Higher(y, z) + 1) - x
      /\ z <= ht[c] => r.delta = top - ht[n]
      /\ Measured(g, ht2, D, c, {c})
      /\ Diff(g, ht2, c) = r.bf
      /\ g.parent[c] = h.parent[n]
      /\ g.bf = [h.bf EXCEPT ![n] = z - y]
      /\ g.checked = (h.checked /\ z - y \in -1 .. 1)
      /\ SameOutside(h, g, D)

\* A rotation of the root to the right, measured.
LEMMA TurnRightMeasured ==
  ASSUME NEW h \in Trees, NEW ht \in HeightMaps, NEW D \in SUBSET Nodes,
         NEW n \in D, NEW c \in D, h.left[n] = c, Measured(h, ht, D, n, {n, c})
  PROVE  ComesUpRight(h, ht, D, n, c, RotateLL(h, n, Diff(h, ht, n), Diff(h, ht, c)))
<1> DEFINE x == ht[h.left[c]]
           y == ht[h.right[c]]
           z == ht[h.right[n]]
           top == Higher(x, Higher(y, z) + 1) + 1
           ht2 == [ht EXCEPT ![n] = Higher(y, z) + 1, ![c] = top]
           b == LLBalanceOf(h, ht, n, c)
           r == RotateLL(h, n, Diff(h, ht, n), Diff(h, ht, c))
           g == r.tree
<1>1. /\ Links(h, D, n)
      /\ Tall(h, ht, n) /\ Tall(h, ht, c)
      /\ \A m \in D : Tall(h, ht, m)
      /\ \A m \in D \ {n, c} : h.bf[m] = Diff(h, ht, m)
  BY DEF Measured
<1>2. /\ Null \notin D /\ n \in Nodes /\ c \in Nodes
      /\ c # n /\ h.parent[c] = n /\ h.right[n] # c
  BY <1>1, NullIsNoNode DEF Links
<1>3. /\ b \in Balances
      /\ b.parent = z - y
      /\ b.child = (Higher(y, z) + 1) - x
      /\ z <= ht[c] => b.delta = top - ht[n]
  <2>1. LLExact(h, ht, n, c, b)
    BY <1>1, <1>2, LLBalances, Zenon
  <2> HIDE DEF b
  <2> QED BY <2>1 DEF LLExact
<1>4. r = TurnRight(h, n, c, b)
  BY DEF RotateLL, LLBalanceOf
<1> HIDE DEF b, r
<1>5. /\ g \in Trees
      /\ r.node = c /\ r.bf = b.child /\ r.delta = b.delta
      /\ g.left = [h.left EXCEPT ![n] = h.right[c]]
      /\ g.right = [h.right EXCEPT ![c] = n]
      /\ g.parent = Turned(h, n, c, h.right[c])
      /\ g.bf = [h.bf EXCEPT ![n] = b.parent]
      /\ g.checked = (h.checked /\ b.parent \in -1 .. 1)
  <2>1. c # n /\ n \in Nodes /\ c \in Nodes /\ b \in Balances
    BY <1>2, <1>3
  <2> HIDE DEF x, y, z, top
  <2> QED BY <2>1, <1>4, TurnRightFields
<1>6. Links(g, D, c)
  <2>1. RotatedRight(h, n, c, g)
    BY <1>5 DEF RotatedRight
  <2> HIDE DEF g
  <2> QED BY <1>1, <2>1, TurnRightLinks, Zenon
<1>7. x \in Nat /\ y \in Nat /\ z \in Nat /\ top \in Nat \ {0} /\ Higher(y, z) + 1 \in Nat \ {0}
  <2>1. h.left[c] \in OrNull /\ h.right[c] \in OrNull /\ h.right[n] \in OrNull
    BY <1>2 DEF Trees
  <2>2. x \in Nat /\ y \in Nat /\ z \in Nat
    BY <2>1 DEF HeightMaps
  <2> HIDE DEF x, y, z
  <2> QED BY <2>2 DEF Higher
<1> HIDE DEF top
<1>8. /\ ht2 \in HeightMaps
      /\ ht2[n] = Higher(y, z) + 1 /\ ht2[c] = top
      /\ \A m \in OrNull \ {n, c} : ht2[m] = ht[m]
  <2> HIDE DEF x, y, z
  <2> QED BY <1>2, <1>7, NullIsNoNode DEF HeightMaps, OrNull
<1> HIDE DEF ht2, g
<1>9. /\ h.right[c] \in OrNull \ {n, c} /\ h.left[c] \in OrNull \ {n, c}
      /\ h.right[n] \in OrNull \ {n, c}
  BY <1>1, <1>2 DEF Links, OrNull
<1>10. /\ g.left[n] = h.right[c] /\ g.right[n] = h.right[n]
       /\ g.left[c] = h.left[c] /\ g.right[c] = n
       /\ \A m \in D \ {n, c} : /\ g.left[m] = h.left[m] /\ g.right[m] = h.right[m]
                                /\ g.bf[m] = h.bf[m]
       /\ g.bf[n] = z - y
  BY <1>2, <1>3, <1>5 DEF Trees
<1>11. ht2[h.right[c]] = y /\ ht2[h.left[c]] = x /\ ht2[h.right[n]] = z
  BY <1>8, <1>9
<1>12. Tall(g, ht2, n) /\ Diff(g, ht2, n) = z - y
  <2> HIDE DEF x, y, z
  <2> QED BY <1>7, <1>8, <1>10, <1>11 DEF Tall, Diff, Higher
<1>13. Tall(g, ht2, c) /\ Diff(g, ht2, c) = (Higher(y, z) + 1) - x
  <2>1. top = Higher(Higher(y, z) + 1, x) + 1
    <3> HIDE DEF x, y, z
    <3> QED BY <1>7 DEF top, Higher
  <2> HIDE DEF x, y, z
  <2> QED BY <1>7, <1>8, <1>10, <1>11, <2>1 DEF Tall, Diff, top, Higher
<1>14. ASSUME NEW m \in D \ {n, c}
       PROVE  Tall(g, ht2, m) /\ g.bf[m] = Diff(g, ht2, m)
  <2>1. h.left[m] \in OrNull \ {n, c} /\ h.right[m] \in OrNull \ {n, c}
    BY <1>1, <1>2 DEF Links, OrNull
  <2>2. m \in OrNull \ {n, c}
    BY DEF OrNull
  <2> QED BY <1>1, <1>8, <1>10, <2>1, <2>2 DEF Tall, Diff
<1>15. Measured(g, ht2, D, c, {c})
  BY <1>6, <1>10, <1>12, <1>13, <1>14 DEF Measured
<1>16. g.parent[c] = h.parent[n]
  <2>1. h.right[c] # c /\ h.right[c] # n
    BY <1>9
  <2> QED BY <1>2, <1>5, <2>1 DEF Turned
<1>17. /\ r.bf = (Higher(y, z) + 1) - x
       /\ z <= ht[c] => r.delta = top - ht[n]
       /\ Diff(g, ht2, c) = r.bf
       /\ g.bf = [h.bf EXCEPT ![n] = z - y]
       /\ g.checked = (h.checked /\ z - y \in -1 .. 1)
  <2> HIDE DEF x, y, z
  <2> QED BY <1>3, <1>5, <1>13
<1>18. SameOutside(h, g, D)
  <2> SUFFICES ASSUME NEW m \in Nodes \ D
               PROVE  /\ g.left[m] = h.left[m] /\ g.right[m] = h.right[m]
                      /\ g.parent[m] = h.parent[m] /\ g.bf[m] = h.bf[m]
    BY DEF SameOutside
  <2>1. m # n /\ m # c /\ m # h.right[c]
    BY <1>1, <1>2, NullIsNoNode DEF Links
  <2>2. g.parent[m] = h.parent[m]
    BY <1>5, <2>1 DEF Turned
  <2> QED BY <1>5, <2>1, <2>2 DEF Trees
<1> QED BY <1>5, <1>8, <1>15, <1>16, <1>17, <1>18 DEF ComesUpRight, r, g, ht2, top

\* The balances that the rotation of n computes when it is given the real ones.
RRBalanceOf(h, ht, n, c) == RRBalance(Diff(h, ht, n), Diff(h, ht, c), h.left[c] # Null, h.right[c] # Null)

RRExact(h, ht, n, c, b) ==
  LET x == ht[h.right[c]]
      y == ht[h.left[c]]
      z == ht[h.left[n]]
  IN  /\ b \in Balances
      /\ b.parent = y - z
      /\ b.child = x - (Higher(y, z) + 1)
      /\ z <= ht[c] => b.delta = (Higher(x, Higher(y, z) + 1) + 1) - ht[n]

\* Given the real balances, a rotation to the left computes the real ones.
LEMMA RRBalances ==
  ASSUME NEW h \in Trees, NEW ht \in HeightMaps, NEW n \in Nodes, NEW c \in Nodes,
         h.right[n] = c, Tall(h, ht, c), Tall(h, ht, n)
  PROVE  RRExact(h, ht, n, c, RRBalanceOf(h, ht, n, c))
<1> DEFINE x == ht[h.right[c]]
           y == ht[h.left[c]]
           z == ht[h.left[n]]
<1>1. /\ h.right[c] \in OrNull /\ h.left[c] \in OrNull /\ h.left[n] \in OrNull
  BY DEF Trees
<1>2. /\ x \in Nat /\ y \in Nat /\ z \in Nat
      /\ (h.right[c] # Null) = (x > 0)
      /\ (h.left[c] # Null) = (y > 0)
  BY <1>1 DEF HeightMaps, OrNull
<1>3. ht[c] = Higher(x, y) + 1
  BY <1>2 DEF Tall, Higher
<1>4. /\ Diff(h, ht, n) = (Higher(x, y) + 1) - z
      /\ Diff(h, ht, c) = x - y
      /\ ht[n] = Higher(ht[c], z) + 1
  <2>1. Higher(x, y) + 1 \in Nat
    BY <1>2 DEF Higher
  <2> QED BY <1>2, <1>3, <2>1 DEF Diff, Tall, Higher
<1> HIDE DEF x, y, z
<1> DEFINE e == RRBalance((Higher(x, y) + 1) - z, x - y, y > 0, x > 0)
<1>5. RRBalanceOf(h, ht, n, c) = e
  BY <1>2, <1>4 DEF RRBalanceOf
<1>6. /\ e.parent = y - z
      /\ e.child = x - (Higher(y, z) + 1)
  <2>1. x \in Nat /\ y \in Nat /\ z \in Nat
    BY <1>2
  <2> QED BY <2>1, RRBalanceExact, Zenon
<1>7. z <= ht[c] => e.delta = (Higher(x, Higher(y, z) + 1) + 1) - ht[n]
  <2>1. ASSUME z <= Higher(x, y) + 1
        PROVE  e.delta = Higher(x, Higher(y, z) + 1) - Higher(Higher(x, y) + 1, z)
    BY <1>2, <2>1, RRBalanceDelta, Zenon
  <2> HIDE DEF e
  <2> QED BY <1>2, <1>3, <1>4, <2>1 DEF Higher
<1>8. e \in Balances
  <2>1. /\ (Higher(x, y) + 1) - z \in Int /\ x - y \in Int
        /\ (x > 0) \in BOOLEAN /\ (y > 0) \in BOOLEAN
    BY <1>2 DEF Higher
  <2> QED BY <2>1, RRBalanceIsInt, Zenon
<1> HIDE DEF e
<1> QED BY <1>2, <1>5, <1>6, <1>7, <1>8 DEF x, y, z, RRExact

\* After a rotation that brings c up over n: x and y are the heights of the
\* outer and of the inner subtree of c, and z that of the other child of n.
ComesUpLeft(h, ht, D, n, c, r) ==
  LET x == ht[h.right[c]]
      y == ht[h.left[c]]
      z == ht[h.left[n]]
      top == Higher(x, Higher(y, z) + 1) + 1
      ht2 == [ht EXCEPT ![n] = Higher(y, z) + 1, ![c] = top]
      g == r.tree
  IN  /\ g \in Trees /\ ht2 \in HeightMaps
      /\ r.node = c /\ r.bf = x - (Higher(y, z) + 1)
      /\ z <= ht[c] => r.delta = top - ht[n]
      /\ Measured(g, ht2, D, c, {c})
      /\ Diff(g, ht2, c) = r.bf
      /\ g.parent[c] = h.parent[n]
      /\ g.bf = [h.bf EXCEPT ![n] = y - z]
      /\ g.checked = (h.checked /\ y - z \in -1 .. 1)
      /\ SameOutside(h, g, D)

\* A rotation of the root to the left, measured.
LEMMA TurnLeftMeasured ==
  ASSUME NEW h \in Trees, NEW ht \in HeightMaps, NEW D \in SUBSET Nodes,
         NEW n \in D, NEW c \in D, h.right[n] = c, Measured(h, ht, D, n, {n, c})
  PROVE  ComesUpLeft(h, ht, D, n, c, RotateRR(h, n, Diff(h, ht, n), Diff(h, ht, c)))
<1> DEFINE x == ht[h.right[c]]
           y == ht[h.left[c]]
           z == ht[h.left[n]]
           top == Higher(x, Higher(y, z) + 1) + 1
           ht2 == [ht EXCEPT ![n] = Higher(y, z) + 1, ![c] = top]
           b == RRBalanceOf(h, ht, n, c)
           r == RotateRR(h, n, Diff(h, ht, n), Diff(h, ht, c))
           g == r.tree
<1>1. /\ Links(h, D, n)
      /\ Tall(h, ht, n) /\ Tall(h, ht, c)
      /\ \A m \in D : Tall(h, ht, m)
      /\ \A m \in D \ {n, c} : h.bf[m] = Diff(h, ht, m)
  BY DEF Measured
<1>2. /\ Null \notin D /\ n \in Nodes /\ c \in Nodes
      /\ c # n /\ h.parent[c] = n /\ h.left[n] # c
  BY <1>1, NullIsNoNode DEF Links
<1>3. /\ b \in Balances
      /\ b.parent = y - z
      /\ b.child = x - (Higher(y, z) + 1)
      /\ z <= ht[c] => b.delta = top - ht[n]
  <2>1. RRExact(h, ht, n, c, b)
    BY <1>1, <1>2, RRBalances, Zenon
  <2> HIDE DEF b
  <2> QED BY <2>1 DEF RRExact
<1>4. r = TurnLeft(h, n, c, b)
  BY DEF RotateRR, RRBalanceOf
<1> HIDE DEF b, r
<1>5. /\ g \in Trees
      /\ r.node = c /\ r.bf = b.child /\ r.delta = b.delta
      /\ g.right = [h.right EXCEPT ![n] = h.left[c]]
      /\ g.left = [h.left EXCEPT ![c] = n]
      /\ g.parent = Turned(h, n, c, h.left[c])
      /\ g.bf = [h.bf EXCEPT ![n] = b.parent]
      /\ g.checked = (h.checked /\ b.parent \in -1 .. 1)
  <2>1. c # n /\ n \in Nodes /\ c \in Nodes /\ b \in Balances
    BY <1>2, <1>3
  <2> HIDE DEF x, y, z, top
  <2> QED BY <2>1, <1>4, TurnLeftFields
<1>6. Links(g, D, c)
  <2>1. RotatedLeft(h, n, c, g)
    BY <1>5 DEF RotatedLeft
  <2> HIDE DEF g
  <2> QED BY <1>1, <2>1, TurnLeftLinks, Zenon
<1>7. x \in Nat /\ y \in Nat /\ z \in Nat /\ top \in Nat \ {0} /\ Higher(y, z) + 1 \in Nat \ {0}
  <2>1. h.right[c] \in OrNull /\ h.left[c] \in OrNull /\ h.left[n] \in OrNull
    BY <1>2 DEF Trees
  <2>2. x \in Nat /\ y \in Nat /\ z \in Nat
    BY <2>1 DEF HeightMaps
  <2> HIDE DEF x, y, z
  <2> QED BY <2>2 DEF Higher
<1> HIDE DEF top
<1>8. /\ ht2 \in HeightMaps
      /\ ht2[n] = Higher(y, z) + 1 /\ ht2[c] = top
      /\ \A m \in OrNull \ {n, c} : ht2[m] = ht[m]
  <2> HIDE DEF x, y, z
  <2> QED BY <1>2, <1>7, NullIsNoNode DEF HeightMaps, OrNull
<1> HIDE DEF ht2, g
<1>9. /\ h.left[c] \in OrNull \ {n, c} /\ h.right[c] \in OrNull \ {n, c}
      /\ h.left[n] \in OrNull \ {n, c}
  BY <1>1, <1>2 DEF Links, OrNull
<1>10. /\ g.right[n] = h.left[c] /\ g.left[n] = h.left[n]
       /\ g.right[c] = h.right[c] /\ g.left[c] = n
       /\ \A m \in D \ {n, c} : /\ g.right[m] = h.right[m] /\ g.left[m] = h.left[m]
                                /\ g.bf[m] = h.bf[m]
       /\ g.bf[n] = y - z
  BY <1>2, <1>3, <1>5 DEF Trees
<1>11. ht2[h.left[c]] = y /\ ht2[h.right[c]] = x /\ ht2[h.left[n]] = z
  BY <1>8, <1>9
<1>12. Tall(g, ht2, n) /\ Diff(g, ht2, n) = y - z
  <2> HIDE DEF x, y, z
  <2> QED BY <1>7, <1>8, <1>10, <1>11 DEF Tall, Diff, Higher
<1>13. Tall(g, ht2, c) /\ Diff(g, ht2, c) = x - (Higher(y, z) + 1)
  <2>1. top = Higher(Higher(y, z) + 1, x) + 1
    <3> HIDE DEF x, y, z
    <3> QED BY <1>7 DEF top, Higher
  <2> HIDE DEF x, y, z
  <2> QED BY <1>7, <1>8, <1>10, <1>11, <2>1 DEF Tall, Diff, top, Higher
<1>14. ASSUME NEW m \in D \ {n, c}
       PROVE  Tall(g, ht2, m) /\ g.bf[m] = Diff(g, ht2, m)
  <2>1. h.right[m] \in OrNull \ {n, c} /\ h.left[m] \in OrNull \ {n, c}
    BY <1>1, <1>2 DEF Links, OrNull
  <2>2. m \in OrNull \ {n, c}
    BY DEF OrNull
  <2> QED BY <1>1, <1>8, <1>10, <2>1, <2>2 DEF Tall, Diff
<1>15. Measured(g, ht2, D, c, {c})
  BY <1>6, <1>10, <1>12, <1>13, <1>14 DEF Measured
<1>16. g.parent[c] = h.parent[n]
  <2>1. h.left[c] # c /\ h.left[c] # n
    BY <1>9
  <2> QED BY <1>2, <1>5, <2>1 DEF Turned
<1>17. /\ r.bf = x - (Higher(y, z) + 1)
       /\ z <= ht[c] => r.delta = top - ht[n]
       /\ Diff(g, ht2, c) = r.bf
       /\ g.bf = [h.bf EXCEPT ![n] = y - z]
       /\ g.checked = (h.checked /\ y - z \in -1 .. 1)
  <2> HIDE DEF x, y, z
  <2> QED BY <1>3, <1>5, <1>13
<1>18. SameOutside(h, g, D)
  <2> SUFFICES ASSUME NEW m \in Nodes \ D
               PROVE  /\ g.right[m] = h.right[m] /\ g.left[m] = h.left[m]
                      /\ g.parent[m] = h.parent[m] /\ g.bf[m] = h.bf[m]
    BY DEF SameOutside
  <2>1. m # n /\ m # c /\ m # h.left[c]
    BY <1>1, <1>2, NullIsNoNode DEF Links
  <2>2. g.parent[m] = h.parent[m]
    BY <1>5, <2>1 DEF Turned
  <2> QED BY <1>5, <2>1, <2>2 DEF Trees
<1> QED BY <1>5, <1>8, <1>15, <1>16, <1>17, <1>18 DEF ComesUpLeft, r, g, ht2, top

\* The same below the root: p is the left child of n, and c comes up over p
\* without any change of height.
KeepsHeightLeft(h, ht, p, c) ==
  LET x == ht[h.right[c]]
      y == ht[h.left[c]]
      z == ht[h.left[p]]
  IN  z <= ht[c] /\ ht[p] = Higher(x, Higher(y, z) + 1) + 1

ComesUpLeftBelow(h, ht, D, n, p, c, r) ==
  LET x == ht[h.right[c]]
      y == ht[h.left[c]]
      z == ht[h.left[p]]
      ht2 == [ht EXCEPT ![p] = Higher(y, z) + 1, ![c] = ht[p]]
      g == [r.tree EXCEPT !.left[n] = r.node]
  IN  /\ g \in Trees /\ ht2 \in HeightMaps
      /\ r.node = c /\ r.delta = 0 /\ r.bf = x - (Higher(y, z) + 1)
      /\ Measured(g, ht2, D, n, {n, c})
      /\ Diff(g, ht2, c) = r.bf
      /\ g.parent[n] = h.parent[n]
      /\ g.bf = [h.bf EXCEPT ![p] = y - z]
      /\ g.checked = (h.checked /\ y - z \in -1 .. 1)
      /\ RotatedLeftBelow(h, n, p, c, g)
      /\ SameOutside(h, g, D)

\* The first rotation of _rotate_LR, measured.
LEMMA TurnLeftBelowMeasured ==
  ASSUME NEW h \in Trees, NEW ht \in HeightMaps, NEW D \in SUBSET Nodes,
         NEW n \in D, NEW p \in D, NEW c \in D, h.left[n] = p, h.right[p] = c,
         Measured(h, ht, D, n, {n}), KeepsHeightLeft(h, ht, p, c)
  PROVE  ComesUpLeftBelow(h, ht, D, n, p, c, RotateRR(h, p, h.bf[p], h.bf[c]))
<1> DEFINE x == ht[h.right[c]]
           y == ht[h.left[c]]
           z == ht[h.left[p]]
           ht2 == [ht EXCEPT ![p] = Higher(y, z) + 1, ![c] = ht[p]]
           r == RotateRR(h, p, h.bf[p], h.bf[c])
           g == [r.tree EXCEPT !.left[n] = r.node]
           b == RRBalanceOf(h, ht, p, c)
<1>1. /\ Links(h, D, n)
      /\ Tall(h, ht, n) /\ Tall(h, ht, p) /\ Tall(h, ht, c)
      /\ \A m \in D : Tall(h, ht, m)
      /\ \A m \in D \ {n} : h.bf[m] = Diff(h, ht, m)
  BY DEF Measured
<1>2. /\ Null \notin D /\ n \in Nodes /\ p \in Nodes /\ c \in Nodes
      /\ p # n /\ c # n /\ c # p /\ h.right[n] # p /\ h.right[n] # c /\ h.left[p] # c
      /\ h.parent[p] = n /\ h.parent[c] = p
  BY <1>1, NullIsNoNode DEF Links
<1>3. /\ x \in Nat /\ y \in Nat /\ z \in Nat /\ ht[p] \in Nat \ {0}
      /\ Higher(y, z) + 1 \in Nat \ {0}
  <2>1. h.right[c] \in OrNull /\ h.left[c] \in OrNull /\ h.left[p] \in OrNull
    BY <1>2 DEF Trees
  <2>2. x \in Nat /\ y \in Nat /\ z \in Nat /\ ht[p] \in Nat \ {0}
    BY <1>2, <2>1 DEF HeightMaps, OrNull
  <2> HIDE DEF x, y, z
  <2> QED BY <2>2 DEF Higher
<1>4. z <= ht[c] /\ ht[p] = Higher(x, Higher(y, z) + 1) + 1
  BY DEF KeepsHeightLeft
<1>5. /\ b \in Balances
      /\ b.parent = y - z
      /\ b.child = x - (Higher(y, z) + 1)
      /\ b.delta = 0
  <2>1. RRExact(h, ht, p, c, b)
    BY <1>1, <1>2, RRBalances, Zenon
  <2> HIDE DEF b
  <2>2. /\ b \in Balances
        /\ b.parent = y - z
        /\ b.child = x - (Higher(y, z) + 1)
        /\ z <= ht[c] => b.delta = (Higher(x, Higher(y, z) + 1) + 1) - ht[p]
    BY <2>1 DEF RRExact
  <2> HIDE DEF x, y, z
  <2> QED BY <1>3, <1>4, <2>2
<1>6. /\ r = TurnLeft(h, p, c, b)
  <2>1. h.bf[p] = Diff(h, ht, p) /\ h.bf[c] = Diff(h, ht, c)
    BY <1>1, <1>2
  <2> QED BY <2>1 DEF RotateRR, RRBalanceOf
<1> HIDE DEF b, r, x, y, z
<1>7. /\ r.tree \in Trees
      /\ r.node = c /\ r.bf = b.child /\ r.delta = b.delta
      /\ r.tree.left = [h.left EXCEPT ![c] = p]
      /\ r.tree.right = [h.right EXCEPT ![p] = h.left[c]]
      /\ r.tree.parent = Turned(h, p, c, h.left[c])
      /\ r.tree.bf = [h.bf EXCEPT ![p] = b.parent]
      /\ r.tree.checked = (h.checked /\ b.parent \in -1 .. 1)
  <2>1. c # p /\ p \in Nodes /\ c \in Nodes /\ b \in Balances
    BY <1>2, <1>5
  <2> QED BY SMTT(30), <2>1, <1>6, TurnLeftFields
<1>8. /\ g \in Trees
      /\ g.left = [h.left EXCEPT ![c] = p, ![n] = c]
      /\ g.right = [h.right EXCEPT ![p] = h.left[c]]
      /\ g.parent = Turned(h, p, c, h.left[c])
      /\ g.bf = [h.bf EXCEPT ![p] = y - z]
      /\ g.checked = (h.checked /\ y - z \in -1 .. 1)
  BY SMTT(30), <1>2, <1>5, <1>7 DEF Trees, OrNull
<1> HIDE DEF g
<1>9. Links(g, D, n) /\ RotatedLeftBelow(h, n, p, c, g)
  <2>1. RotatedLeftBelow(h, n, p, c, g)
    BY <1>8 DEF RotatedLeftBelow
  <2> QED BY <1>1, <2>1, TurnLeftBelowLinks, Zenon
<1>10. /\ h.right[c] \in OrNull \ {p, c} /\ h.left[c] \in OrNull \ {p, c}
       /\ h.left[p] \in OrNull \ {p, c} /\ h.right[n] \in OrNull \ {p, c}
  BY <1>1, <1>2 DEF Links, OrNull
<1>11. /\ g.left[n] = c /\ g.right[n] = h.right[n]
       /\ g.right[p] = h.left[c] /\ g.left[p] = h.left[p]
       /\ g.right[c] = h.right[c] /\ g.left[c] = p
       /\ g.bf[p] = y - z
  BY <1>2, <1>8 DEF Trees
<1>12. \A m \in D \ {n, p, c} : /\ g.left[m] = h.left[m] /\ g.right[m] = h.right[m]
                                /\ g.bf[m] = h.bf[m]
  BY <1>2, <1>8 DEF Trees
<1>13. /\ ht2 \in HeightMaps
       /\ ht2[p] = Higher(y, z) + 1 /\ ht2[c] = ht[p]
       /\ \A m \in OrNull \ {p, c} : ht2[m] = ht[m]
  BY <1>2, <1>3, NullIsNoNode DEF HeightMaps, OrNull
<1> HIDE DEF ht2
<1>14. ht2[h.left[c]] = y /\ ht2[h.right[c]] = x /\ ht2[h.left[p]] = z
  BY <1>10, <1>13 DEF x, y, z
<1>15. Tall(g, ht2, p) /\ Diff(g, ht2, p) = y - z
  BY <1>3, <1>11, <1>13, <1>14 DEF Tall, Diff, Higher
<1>16. Tall(g, ht2, c) /\ Diff(g, ht2, c) = x - (Higher(y, z) + 1)
  <2>1. Higher(x, Higher(y, z) + 1) = Higher(Higher(y, z) + 1, x)
    BY <1>3 DEF Higher
  <2> QED BY <1>4, <1>11, <1>13, <1>14, <2>1 DEF Tall, Diff
<1>17. Tall(g, ht2, n)
  <2>1. ht2[h.right[n]] = ht[h.right[n]] /\ ht2[n] = ht[n]
    BY <1>2, <1>10, <1>13 DEF OrNull
  <2>2. ht2[g.left[n]] = ht[h.left[n]] /\ ht2[g.right[n]] = ht[h.right[n]]
    BY <1>11, <1>13, <2>1
  <2> QED BY <1>1, <2>1, <2>2 DEF Tall
<1>18. ASSUME NEW m \in D \ {n, p, c}
       PROVE  Tall(g, ht2, m) /\ g.bf[m] = Diff(g, ht2, m)
  <2>1. h.left[m] \in OrNull \ {p, c} /\ h.right[m] \in OrNull \ {p, c}
    BY <1>1, <1>2 DEF Links, OrNull
  <2>2. m \in OrNull \ {p, c}
    BY DEF OrNull
  <2>3. ht2[g.left[m]] = ht[h.left[m]] /\ ht2[g.right[m]] = ht[h.right[m]] /\ ht2[m] = ht[m]
    BY <1>12, <1>13, <2>1, <2>2
  <2>4. Tall(h, ht, m) /\ h.bf[m] = Diff(h, ht, m) /\ g.bf[m] = h.bf[m]
    BY <1>1, <1>12
  <2> QED BY <2>3, <2>4 DEF Tall, Diff
<1>19. Measured(g, ht2, D, n, {n, c})
  <2>1. \A m \in D : Tall(g, ht2, m)
    BY <1>15, <1>16, <1>17, <1>18
  <2>2. \A m \in D \ {n, c} : g.bf[m] = Diff(g, ht2, m)
    BY <1>11, <1>15, <1>18
  <2> QED BY <1>9, <2>1, <2>2 DEF Measured
<1>20. g.parent[n] = h.parent[n]
  <2>1. h.left[c] # n
    BY <1>1, <1>2 DEF Links
  <2> QED BY <1>2, <1>8, <2>1 DEF Turned
<1>21. r.node = c /\ r.delta = 0 /\ r.bf = x - (Higher(y, z) + 1)
  BY <1>5, <1>7
<1>22. SameOutside(h, g, D)
  <2> SUFFICES ASSUME NEW m \in Nodes \ D
               PROVE  /\ g.left[m] = h.left[m] /\ g.right[m] = h.right[m]
                      /\ g.parent[m] = h.parent[m] /\ g.bf[m] = h.bf[m]
    BY DEF SameOutside
  <2>1. m # n /\ m # p /\ m # c /\ m # h.left[c]
    BY <1>1, <1>2, NullIsNoNode DEF Links
  <2>2. g.parent[m] = h.parent[m]
    BY <1>8, <2>1 DEF Turned
  <2> QED BY <1>8, <2>1, <2>2 DEF Trees
<1> QED BY ZenonT(60), <1>8, <1>9, <1>13, <1>16, <1>19, <1>20, <1>21, <1>22
     DEF ComesUpLeftBelow, g, r, x, y, z, ht2

\* The same below the root: p is the right child of n, and c comes up over p
\* without any change of height.
KeepsHeightRight(h, ht, p, c) ==
  LET x == ht[h.left[c]]
      y == ht[h.right[c]]
      z == ht[h.right[p]]
  IN  z <= ht[c] /\ ht[p] = Higher(x, Higher(y, z) + 1) + 1

ComesUpRightBelow(h, ht, D, n, p, c, r) ==
  LET x == ht[h.left[c]]
      y == ht[h.right[c]]
      z == ht[h.right[p]]
      ht2 == [ht EXCEPT ![p] = Higher(y, z) + 1, ![c] = ht[p]]
      g == [r.tree EXCEPT !.right[n] = r.node]
  IN  /\ g \in Trees /\ ht2 \in HeightMaps
      /\ r.node = c /\ r.delta = 0 /\ r.bf = (Higher(y, z) + 1) - x
      /\ Measured(g, ht2, D, n, {n, c})
      /\ Diff(g, ht2, c) = r.bf
      /\ g.parent[n] = h.parent[n]
      /\ g.bf = [h.bf EXCEPT ![p] = z - y]
      /\ g.checked = (h.checked /\ z - y \in -1 .. 1)
      /\ RotatedRightBelow(h, n, p, c, g)
      /\ SameOutside(h, g, D)

\* The first rotation of _rotate_RL, measured.
LEMMA TurnRightBelowMeasured ==
  ASSUME NEW h \in Trees, NEW ht \in HeightMaps, NEW D \in SUBSET Nodes,
         NEW n \in D, NEW p \in D, NEW c \in D, h.right[n] = p, h.left[p] = c,
         Measured(h, ht, D, n, {n}), KeepsHeightRight(h, ht, p, c)
  PROVE  ComesUpRightBelow(h, ht, D, n, p, c, RotateLL(h, p, h.bf[p], h.bf[c]))
<1> DEFINE x == ht[h.left[c]]
           y == ht[h.right[c]]
           z == ht[h.right[p]]
           ht2 == [ht EXCEPT ![p] = Higher(y, z) + 1, ![c] = ht[p]]
           r == RotateLL(h, p, h.bf[p], h.bf[c])
           g == [r.tree EXCEPT !.right[n] = r.node]
           b == LLBalanceOf(h, ht, p, c)
<1>1. /\ Links(h, D, n)
      /\ Tall(h, ht, n) /\ Tall(h, ht, p) /\ Tall(h, ht, c)
      /\ \A m \in D : Tall(h, ht, m)
      /\ \A m \in D \ {n} : h.bf[m] = Diff(h, ht, m)
  BY DEF Measured
<1>2. /\ Null \notin D /\ n \in Nodes /\ p \in Nodes /\ c \in Nodes
      /\ p # n /\ c # n /\ c # p /\ h.left[n] # p /\ h.left[n] # c /\ h.right[p] # c
      /\ h.parent[p] = n /\ h.parent[c] = p
  BY <1>1, NullIsNoNode DEF Links
<1>3. /\ x \in Nat /\ y \in Nat /\ z \in Nat /\ ht[p] \in Nat \ {0}
      /\ Higher(y, z) + 1 \in Nat \ {0}
  <2>1. h.left[c] \in OrNull /\ h.right[c] \in OrNull /\ h.right[p] \in OrNull
    BY <1>2 DEF Trees
  <2>2. x \in Nat /\ y \in Nat /\ z \in Nat /\ ht[p] \in Nat \ {0}
    BY <1>2, <2>1 DEF HeightMaps, OrNull
  <2> HIDE DEF x, y, z
  <2> QED BY <2>2 DEF Higher
<1>4. z <= ht[c] /\ ht[p] = Higher(x, Higher(y, z) + 1) + 1
  BY DEF KeepsHeightRight
<1>5. /\ b \in Balances
      /\ b.parent = z - y
      /\ b.child = (Higher(y, z) + 1) - x
      /\ b.delta = 0
  <2>1. LLExact(h, ht, p, c, b)
    BY <1>1, <1>2, LLBalances, Zenon
  <2> HIDE DEF b
  <2>2. /\ b \in Balances
        /\ b.parent = z - y
        /\ b.child = (Higher(y, z) + 1) - x
        /\ z <= ht[c] => b.delta = (Higher(x, Higher(y, z) + 1) + 1) - ht[p]
    BY <2>1 DEF LLExact
  <2> HIDE DEF x, y, z
  <2> QED BY <1>3, <1>4, <2>2
<1>6. /\ r = TurnRight(h, p, c, b)
  <2>1. h.bf[p] = Diff(h, ht, p) /\ h.bf[c] = Diff(h, ht, c)
    BY <1>1, <1>2
  <2> QED BY <2>1 DEF RotateLL, LLBalanceOf
<1> HIDE DEF b, r, x, y, z
<1>7. /\ r.tree \in Trees
      /\ r.node = c /\ r.bf = b.child /\ r.delta = b.delta
      /\ r.tree.right = [h.right EXCEPT ![c] = p]
      /\ r.tree.left = [h.left EXCEPT ![p] = h.right[c]]
      /\ r.tree.parent = Turned(h, p, c, h.right[c])
      /\ r.tree.bf = [h.bf EXCEPT ![p] = b.parent]
      /\ r.tree.checked = (h.checked /\ b.parent \in -1 .. 1)
  <2>1. c # p /\ p \in Nodes /\ c \in Nodes /\ b \in Balances
    BY <1>2, <1>5
  <2> QED BY SMTT(30), <2>1, <1>6, TurnRightFields
<1>8. /\ g \in Trees
      /\ g.right = [h.right EXCEPT ![c] = p, ![n] = c]
      /\ g.left = [h.left EXCEPT ![p] = h.right[c]]
      /\ g.parent = Turned(h, p, c, h.right[c])
      /\ g.bf = [h.bf EXCEPT ![p] = z - y]
      /\ g.checked = (h.checked /\ z - y \in -1 .. 1)
  BY SMTT(30), <1>2, <1>5, <1>7 DEF Trees, OrNull
<1> HIDE DEF g
<1>9. Links(g, D, n) /\ RotatedRightBelow(h, n, p, c, g)
  <2>1. RotatedRightBelow(h, n, p, c, g)
    BY <1>8 DEF RotatedRightBelow
  <2> QED BY <1>1, <2>1, TurnRightBelowLinks, Zenon
<1>10. /\ h.left[c] \in OrNull \ {p, c} /\ h.right[c] \in OrNull \ {p, c}
       /\ h.right[p] \in OrNull \ {p, c} /\ h.left[n] \in OrNull \ {p, c}
  BY <1>1, <1>2 DEF Links, OrNull
<1>11. /\ g.right[n] = c /\ g.left[n] = h.left[n]
       /\ g.left[p] = h.right[c] /\ g.right[p] = h.right[p]
       /\ g.left[c] = h.left[c] /\ g.right[c] = p
       /\ g.bf[p] = z - y
  BY <1>2, <1>8 DEF Trees
<1>12. \A m \in D \ {n, p, c} : /\ g.right[m] = h.right[m] /\ g.left[m] = h.left[m]
                                /\ g.bf[m] = h.bf[m]
  BY <1>2, <1>8 DEF Trees
<1>13. /\ ht2 \in HeightMaps
       /\ ht2[p] = Higher(y, z) + 1 /\ ht2[c] = ht[p]
       /\ \A m \in OrNull \ {p, c} : ht2[m] = ht[m]
  BY <1>2, <1>3, NullIsNoNode DEF HeightMaps, OrNull
<1> HIDE DEF ht2
<1>14. ht2[h.right[c]] = y /\ ht2[h.left[c]] = x /\ ht2[h.right[p]] = z
  BY <1>10, <1>13 DEF x, y, z
<1>15. Tall(g, ht2, p) /\ Diff(g, ht2, p) = z - y
  BY <1>3, <1>11, <1>13, <1>14 DEF Tall, Diff, Higher
<1>16. Tall(g, ht2, c) /\ Diff(g, ht2, c) = (Higher(y, z) + 1) - x
  <2>1. Higher(x, Higher(y, z) + 1) = Higher(Higher(y, z) + 1, x)
    BY <1>3 DEF Higher
  <2> QED BY <1>4, <1>11, <1>13, <1>14, <2>1 DEF Tall, Diff
<1>17. Tall(g, ht2, n)
  <2>1. ht2[h.left[n]] = ht[h.left[n]] /\ ht2[n] = ht[n]
    BY <1>2, <1>10, <1>13 DEF OrNull
  <2>2. ht2[g.right[n]] = ht[h.right[n]] /\ ht2[g.left[n]] = ht[h.left[n]]
    BY <1>11, <1>13, <2>1
  <2> QED BY <1>1, <2>1, <2>2 DEF Tall
<1>18. ASSUME NEW m \in D \ {n, p, c}
       PROVE  Tall(g, ht2, m) /\ g.bf[m] = Diff(g, ht2, m)
  <2>1. h.right[m] \in OrNull \ {p, c} /\ h.left[m] \in OrNull \ {p, c}
    BY <1>1, <1>2 DEF Links, OrNull
  <2>2. m \in OrNull \ {p, c}
    BY DEF OrNull
  <2>3. ht2[g.right[m]] = ht[h.right[m]] /\ ht2[g.left[m]] = ht[h.left[m]] /\ ht2[m] = ht[m]
    BY <1>12, <1>13, <2>1, <2>2
  <2>4. Tall(h, ht, m) /\ h.bf[m] = Diff(h, ht, m) /\ g.bf[m] = h.bf[m]
    BY <1>1, <1>12
  <2> QED BY <2>3, <2>4 DEF Tall, Diff
<1>19. Measured(g, ht2, D, n, {n, c})
  <2>1. \A m \in D : Tall(g, ht2, m)
    BY <1>15, <1>16, <1>17, <1>18
  <2>2. \A m \in D \ {n, c} : g.bf[m] = Diff(g, ht2, m)
    BY <1>11, <1>15, <1>18
  <2> QED BY <1>9, <2>1, <2>2 DEF Measured
<1>20. g.parent[n] = h.parent[n]
  <2>1. h.right[c] # n
    BY <1>1, <1>2 DEF Links
  <2> QED BY <1>2, <1>8, <2>1 DEF Turned
<1>21. r.node = c /\ r.delta = 0 /\ r.bf = (Higher(y, z) + 1) - x
  BY <1>5, <1>7
<1>22. SameOutside(h, g, D)
  <2> SUFFICES ASSUME NEW m \in Nodes \ D
               PROVE  /\ g.right[m] = h.right[m] /\ g.left[m] = h.left[m]
                      /\ g.parent[m] = h.parent[m] /\ g.bf[m] = h.bf[m]
    BY DEF SameOutside
  <2>1. m # n /\ m # p /\ m # c /\ m # h.right[c]
    BY <1>1, <1>2, NullIsNoNode DEF Links
  <2>2. g.parent[m] = h.parent[m]
    BY <1>8, <2>1 DEF Turned
  <2> QED BY <1>8, <2>1, <2>2 DEF Trees
<1> QED BY ZenonT(60), <1>8, <1>9, <1>13, <1>16, <1>19, <1>20, <1>21, <1>22
     DEF ComesUpRightBelow, g, r, x, y, z, ht2

-----------------------------------------------------------------------------
(* Rebalancing *)

\* An AVL tree: measured, and no node leans by more than one.
IsAvl(h, ht, D, n) ==
  /\ Measured(h, ht, D, n, {})
  /\ \A m \in D : Diff(h, ht, m) \in -1 .. 1

\* A subtree that an insertion or a removal below n has left: n leans by b more
\* than its balance factor says, and all is well below it.
Leans(h, ht, D, n, b) ==
  /\ Measured(h, ht, D, n, {n})
  /\ \A m \in D \ {n} : Diff(h, ht, m) \in -1 .. 1
  /\ h.bf[n] + b = Diff(h, ht, n)
  /\ Diff(h, ht, n) \in -2 .. 2

\* How the root of the result leans, and how high it is: a rotation of a child in
\* balance keeps the height, every other one takes one away.
NewBalance(h, ht, n) ==
  IF Diff(h, ht, n) = -2 THEN IF h.bf[h.left[n]] = 0 THEN 1 ELSE 0
  ELSE IF Diff(h, ht, n) = 2 THEN IF h.bf[h.right[n]] = 0 THEN -1 ELSE 0
  ELSE Diff(h, ht, n)

NewHeight(h, ht, n) ==
  IF Diff(h, ht, n) \in -1 .. 1 \/ NewBalance(h, ht, n) # 0 THEN ht[n] ELSE ht[n] - 1

\* What is promised of the result r, measured by ht2: an AVL tree of the same
\* nodes that hangs from the parent of n; no balance factor that was stored on
\* the way was out of range.
RebalancedTo(h, ht, D, n, r, ht2) ==
  /\ r.tree \in Trees
  /\ IsAvl(r.tree, ht2, D, r.node)
  /\ r.tree.bf[r.node] = NewBalance(h, ht, n)
  /\ ht2[r.node] = NewHeight(h, ht, n)
  /\ \A m \in OrNull \ D : ht2[m] = ht[m]
  /\ r.tree.parent[r.node] = h.parent[n]
  /\ r.tree.checked = h.checked
  /\ SameOutside(h, r.tree, D)

Rebalanced(h, ht, D, n, r) == \E ht2 \in HeightMaps : RebalancedTo(h, ht, D, n, r, ht2)

\* The measured tree after the balance of its root is stored.
LEMMA StoredMeasured ==
  ASSUME NEW h \in Trees, NEW ht \in HeightMaps, NEW D \in SUBSET Nodes, NEW n \in Nodes,
         Measured(h, ht, D, n, {n}), NEW b \in Int, b = Diff(h, ht, n)
  PROVE  /\ Measured(SetBf(h, n, b), ht, D, n, {})
         /\ \A m \in D : Diff(SetBf(h, n, b), ht, m) = Diff(h, ht, m)
<1> DEFINE g == SetBf(h, n, b)
<1>1. /\ g.left = h.left /\ g.right = h.right /\ g.parent = h.parent
      /\ g.bf = [h.bf EXCEPT ![n] = b]
  BY SetBfFields
<1> HIDE DEF g
<1>2. n \in D /\ Links(g, D, n)
  BY <1>1 DEF Measured, Links
<1>3. \A m \in D : Tall(g, ht, m) /\ Diff(g, ht, m) = Diff(h, ht, m)
  BY <1>1 DEF Measured, Tall, Diff
<1>4. \A m \in D : g.bf[m] = Diff(g, ht, m)
  BY <1>1, <1>3 DEF Measured, Trees
<1> QED BY <1>2, <1>3, <1>4 DEF Measured, g

\* The last step of every case: the balance of the new root is stored.
LEMMA StoredIsRebalanced ==
  ASSUME NEW h \in Trees, NEW ht \in HeightMaps, NEW D \in SUBSET Nodes, NEW n \in Nodes,
         NEW g \in Trees, NEW ht2 \in HeightMaps, NEW c \in D, NEW b \in Int,
         Measured(g, ht2, D, c, {c}), b = Diff(g, ht2, c),
         \A m \in D : Diff(g, ht2, m) \in -1 .. 1,
         b = NewBalance(h, ht, n), ht2[c] = NewHeight(h, ht, n),
         \A m \in OrNull \ D : ht2[m] = ht[m],
         g.parent[c] = h.parent[n], g.checked = h.checked, SameOutside(h, g, D)
  PROVE  Rebalanced(h, ht, D, n, [tree |-> SetBf(g, c, b), node |-> c])
<1> DEFINE s == SetBf(g, c, b)
<1>1. /\ Measured(s, ht2, D, c, {})
      /\ \A m \in D : Diff(s, ht2, m) = Diff(g, ht2, m)
  BY StoredMeasured
<1>2. /\ s \in Trees /\ s.left = g.left /\ s.right = g.right /\ s.parent = g.parent
      /\ s.bf = [g.bf EXCEPT ![c] = b]
      /\ s.checked = (g.checked /\ b \in -1 .. 1)
  BY SetBfFields
<1> HIDE DEF s
<1>3. IsAvl(s, ht2, D, c)
  BY <1>1 DEF IsAvl
<1>4. s.checked = h.checked /\ s.parent[c] = h.parent[n]
  <2>1. h.checked \in BOOLEAN
    BY DEF Trees
  <2> QED BY <1>2, <2>1
<1>5. SameOutside(h, s, D)
  <2> SUFFICES ASSUME NEW m \in Nodes \ D
               PROVE  /\ s.left[m] = h.left[m] /\ s.right[m] = h.right[m]
                      /\ s.parent[m] = h.parent[m] /\ s.bf[m] = h.bf[m]
    BY DEF SameOutside
  <2>1. /\ g.left[m] = h.left[m] /\ g.right[m] = h.right[m]
        /\ g.parent[m] = h.parent[m] /\ g.bf[m] = h.bf[m]
    BY DEF SameOutside
  <2>2. s.bf[m] = g.bf[m]
    <3>1. m # c /\ g.bf \in [Nodes -> Int]
      BY DEF Trees
    <3> QED BY <1>2, <3>1
  <2> QED BY <1>2, <2>1, <2>2
<1> DEFINE q == [tree |-> s, node |-> c]
<1>6. s.bf[c] = b
  BY <1>2 DEF Trees
<1>7. Rebalanced(h, ht, D, n, q)
  BY <1>2, <1>3, <1>4, <1>5, <1>6 DEF Rebalanced, RebalancedTo
<1> QED BY <1>7 DEF s

\* A node that leans by no more than one is left where it is.
LEMMA StaysBalanced ==
  ASSUME NEW h \in Trees, NEW ht \in HeightMaps, NEW D \in SUBSET Nodes,
         NEW n \in Nodes, NEW b \in Int, Leans(h, ht, D, n, b),
         Diff(h, ht, n) \in -1 .. 1
  PROVE  Rebalanced(h, ht, D, n, [tree |-> SetBf(h, n, h.bf[n] + b), node |-> n])
<1> DEFINE d == h.bf[n] + b
<1>1. d = Diff(h, ht, n) /\ d \in Int
  BY DEF Leans
<1>2. n \in D /\ Measured(h, ht, D, n, {n}) /\ \A m \in D : Diff(h, ht, m) \in -1 .. 1
  BY DEF Leans, Measured
<1>3. /\ d = NewBalance(h, ht, n) /\ ht[n] = NewHeight(h, ht, n)
      /\ SameOutside(h, h, D)
  BY <1>1 DEF SameOutside, NewHeight, NewBalance
<1> HIDE DEF d
<1>4. Rebalanced(h, ht, D, n, [tree |-> SetBf(h, n, d), node |-> n])
  BY <1>1, <1>2, <1>3, StoredIsRebalanced
<1> QED BY <1>4 DEF d

\* A child that leans outwards, or not at all, comes up.
LEMMA SingleRebalancesLL ==
  ASSUME NEW h \in Trees, NEW ht \in HeightMaps, NEW D \in SUBSET Nodes,
         NEW n \in Nodes, NEW b \in Int, Leans(h, ht, D, n, b),
         NEW c \in Nodes, h.left[n] = c,
         Diff(h, ht, n) = -2, h.bf[c] <= 0
  PROVE  Rebalanced(h, ht, D, n, SingleLL(h, n, -2))
<1> DEFINE x == ht[h.left[c]]
           y == ht[h.right[c]]
           z == ht[h.right[n]]
           top == Higher(x, Higher(y, z) + 1) + 1
           ht2 == [ht EXCEPT ![n] = Higher(y, z) + 1, ![c] = top]
           r == RotateLL(h, n, Diff(h, ht, n), Diff(h, ht, c))
           g == r.tree
           s == SetBf(g, c, r.bf)
<1>1. /\ n \in D /\ Links(h, D, n) /\ Measured(h, ht, D, n, {n})
      /\ Tall(h, ht, n)
      /\ \A m \in D \ {n} : h.bf[m] = Diff(h, ht, m) /\ Diff(h, ht, m) \in -1 .. 1
  BY DEF Leans, Measured
<1>2. c \in D /\ c # n
  BY <1>1, NullIsNoNode DEF Links
<1>3. Tall(h, ht, c) /\ h.bf[c] = Diff(h, ht, c) /\ Diff(h, ht, c) \in -1 .. 1
  BY <1>1, <1>2 DEF Measured
<1>4. x \in Nat /\ y \in Nat /\ z \in Nat
  <2>1. h.left[c] \in OrNull /\ h.right[c] \in OrNull /\ h.right[n] \in OrNull
    BY DEF Trees
  <2> QED BY <2>1 DEF HeightMaps
<1>5. /\ ht[c] = Higher(x, y) + 1 /\ y - x = Diff(h, ht, c)
      /\ z - ht[c] = -2 /\ ht[n] = Higher(ht[c], z) + 1
  <2>1. ht[c] \in Nat
    BY DEF HeightMaps, OrNull
  <2> QED BY <1>1, <1>3, <1>4, <2>1 DEF Tall, Diff, Higher
<1>6. /\ z - y \in -1 .. 1
      /\ (Higher(y, z) + 1) - x \in -1 .. 1
      /\ (Higher(y, z) + 1) - x = NewBalance(h, ht, n)
      /\ top = NewHeight(h, ht, n)
  <2>1. NewBalance(h, ht, n) = IF h.bf[c] = 0 THEN 1 ELSE 0
    BY DEF NewBalance
  <2> HIDE DEF x, y, z
  <2> QED BY <1>3, <1>4, <1>5, <2>1 DEF Higher, NewHeight
<1>7. Measured(h, ht, D, n, {n, c})
  BY <1>1 DEF Measured
<1>8. /\ g \in Trees /\ ht2 \in HeightMaps
      /\ r.node = c /\ r.bf = (Higher(y, z) + 1) - x
      /\ Measured(g, ht2, D, c, {c})
      /\ Diff(g, ht2, c) = r.bf
      /\ g.parent[c] = h.parent[n]
      /\ g.bf = [h.bf EXCEPT ![n] = z - y]
      /\ g.checked = (h.checked /\ z - y \in -1 .. 1)
      /\ SameOutside(h, g, D)
  <2>1. ComesUpRight(h, ht, D, n, c, r)
    BY <1>1, <1>2, <1>7, TurnRightMeasured, Zenon
  <2> HIDE DEF r
  <2> QED BY <2>1 DEF ComesUpRight
<1>9. SingleLL(h, n, -2) = [tree |-> s, node |-> c]
  BY <1>3, <1>8 DEF SingleLL, Stored
<1> HIDE DEF r, g
<1>10. r.bf \in Int /\ r.bf \in -1 .. 1
  BY <1>6, <1>8
<1>11. h.checked \in BOOLEAN
  BY DEF Trees
<1>12. g.checked = h.checked
  BY <1>6, <1>8, <1>11
<1>13. /\ ht2[c] = top
       /\ \A m \in OrNull \ D : ht2[m] = ht[m]
  BY <1>1, <1>2 DEF HeightMaps, OrNull
<1> HIDE DEF x, y, z, top, ht2
<1>14. \A m \in D : Diff(g, ht2, m) \in -1 .. 1
  <2> SUFFICES ASSUME NEW m \in D PROVE Diff(g, ht2, m) \in -1 .. 1
    OBVIOUS
  <2>1. CASE m = c
    BY <1>8, <1>10, <2>1
  <2>2. CASE m # c
    <3>1. Diff(g, ht2, m) = g.bf[m]
      BY <1>8, <2>2 DEF Measured
    <3>2. g.bf[m] = IF m = n THEN z - y ELSE h.bf[m]
      BY <1>8 DEF Trees
    <3> QED BY <1>1, <1>6, <3>1, <3>2
  <2> QED BY <2>1, <2>2
<1>15. Rebalanced(h, ht, D, n, [tree |-> SetBf(g, c, r.bf), node |-> c])
  BY <1>2, <1>6, <1>8, <1>10, <1>12, <1>13, <1>14, StoredIsRebalanced
<1> QED BY <1>9, <1>15 DEF s

\* A child p that leans inwards: its inner child c comes up twice.
LEMMA DoubleRebalancesLR ==
  ASSUME NEW h \in Trees, NEW ht \in HeightMaps, NEW D \in SUBSET Nodes,
         NEW n \in Nodes, NEW b \in Int, Leans(h, ht, D, n, b),
         NEW p \in Nodes, h.left[n] = p,
         Diff(h, ht, n) = -2, h.bf[p] > 0
  PROVE  Rebalanced(h, ht, D, n, RotateLR(h, n, -2))
<1> DEFINE c == h.right[p]
           x == ht[h.right[c]]
           y == ht[h.left[c]]
           z == ht[h.left[p]]
           w == ht[h.right[n]]
           ht1 == [ht EXCEPT ![p] = Higher(y, z) + 1, ![c] = ht[p]]
           r == RotateRR(h, p, h.bf[p], h.bf[c])
           k == [r.tree EXCEPT !.left[n] = r.node]
           top == Higher(Higher(y, z) + 1, Higher(x, w) + 1) + 1
           ht2 == [ht1 EXCEPT ![n] = Higher(x, w) + 1, ![c] = top]
           q == RotateLL(k, n, -2, r.bf)
           g == q.tree
<1>1. /\ n \in D /\ Links(h, D, n) /\ Measured(h, ht, D, n, {n})
      /\ Tall(h, ht, n)
      /\ \A m \in D \ {n} : h.bf[m] = Diff(h, ht, m) /\ Diff(h, ht, m) \in -1 .. 1
  BY DEF Leans, Measured
<1>2. p \in D /\ p # n
  BY <1>1, NullIsNoNode DEF Links
<1>3. Tall(h, ht, p) /\ Diff(h, ht, p) = 1
  BY <1>1, <1>2 DEF Measured
<1>4. c \in D /\ c \in Nodes /\ c # n /\ c # p
  <2>1. c # Null
    <3>1. h.left[p] \in OrNull /\ ht[h.left[p]] \in Nat /\ ht[Null] = 0
      BY DEF Trees, HeightMaps, OrNull
    <3> QED BY <1>3, <3>1 DEF Diff
  <2> QED BY <1>1, <1>2, <2>1, NullIsNoNode DEF Links
<1>5. Tall(h, ht, c) /\ Diff(h, ht, c) \in -1 .. 1
  BY <1>1, <1>4 DEF Measured
<1>6. x \in Nat /\ y \in Nat /\ z \in Nat /\ w \in Nat
  <2>1. /\ h.left[c] \in OrNull /\ h.right[c] \in OrNull /\ h.right[n] \in OrNull
        /\ h.left[p] \in OrNull
    BY <1>4 DEF Trees
  <2> QED BY <2>1 DEF HeightMaps
<1>7. /\ ht[c] = Higher(x, y) + 1 /\ x - y \in -1 .. 1
      /\ ht[p] = Higher(z, ht[c]) + 1 /\ ht[c] = z + 1
      /\ ht[n] = Higher(ht[p], w) + 1 /\ w = ht[p] - 2
  <2>1. ht[c] \in Nat /\ ht[p] \in Nat
    BY <1>4 DEF HeightMaps, OrNull
  <2>2. ht[c] = Higher(x, y) + 1 /\ x - y \in -1 .. 1
    BY <1>5, <1>6 DEF Tall, Diff, Higher
  <2>3. ht[p] = Higher(z, ht[c]) + 1 /\ ht[c] = z + 1
    <3> HIDE DEF c
    <3>1. h.right[p] = c
      BY DEF c
    <3> QED BY <1>3, <1>6, <2>1, <3>1 DEF Tall, Diff, Higher
  <2>4. ht[n] = Higher(ht[p], w) + 1 /\ w = ht[p] - 2
    BY <1>1, <1>6, <2>1 DEF Tall, Diff, Higher
  <2> QED BY <2>2, <2>3, <2>4
<1>8. /\ z <= ht[c] /\ ht[p] = Higher(x, Higher(y, z) + 1) + 1
      /\ y - z \in -1 .. 0 /\ w - x \in 0 .. 1
      /\ Higher(x, w) + 1 = Higher(y, z) + 1
      /\ top = ht[n] - 1
  <2> HIDE DEF x, y, z, w, c
  <2> QED BY <1>6, <1>7 DEF Higher
<1>9. KeepsHeightLeft(h, ht, p, c)
  BY <1>8 DEF KeepsHeightLeft
<1> HIDE DEF c
<1>10. h.right[p] = c
  BY DEF c
<1>11. /\ k \in Trees /\ ht1 \in HeightMaps
       /\ r.node = c /\ r.delta = 0 /\ r.bf = x - (Higher(y, z) + 1)
       /\ Measured(k, ht1, D, n, {n, c})
       /\ Diff(k, ht1, c) = r.bf
       /\ k.parent[n] = h.parent[n]
       /\ k.bf = [h.bf EXCEPT ![p] = y - z]
       /\ k.checked = (h.checked /\ y - z \in -1 .. 1)
       /\ RotatedLeftBelow(h, n, p, c, k)
       /\ SameOutside(h, k, D)
  <2>1. ComesUpLeftBelow(h, ht, D, n, p, c, r)
    BY <1>1, <1>2, <1>4, <1>9, <1>10, TurnLeftBelowMeasured, Zenon
  <2> HIDE DEF r
  <2> QED BY <2>1 DEF ComesUpLeftBelow
<1>12. RotateLR(h, n, -2) = Stored(q)
  <2>1. h.right[p] # Null
    BY <1>4, <1>10, NullIsNoNode
  <2>2. -2 - 0 = -2
    OBVIOUS
  <2>3. r.delta = 0
    BY <1>11
  <2> QED BY <1>10, <2>1, <2>2, <2>3 DEF RotateLR, LLOver
<1> HIDE DEF r, k
<1>13. /\ ht1[p] = Higher(y, z) + 1 /\ ht1[c] = ht[p]
       /\ \A m \in OrNull \ {p, c} : ht1[m] = ht[m]
  BY <1>2, <1>4 DEF HeightMaps, OrNull
<1> HIDE DEF ht1
<1>14. /\ k.left[n] = c /\ k.left[c] = p
       /\ k.right[c] = h.right[c] /\ k.right[n] = h.right[n]
  BY <1>1, <1>2, <1>4, <1>11 DEF RotatedLeftBelow, Trees
<1>15. ht1[k.left[c]] = Higher(y, z) + 1 /\ ht1[k.right[c]] = x /\ ht1[k.right[n]] = w
  <2>1. h.right[c] \in OrNull \ {p, c} /\ h.right[n] \in OrNull \ {p, c}
    <3>1. h.right[n] # p /\ h.right[n] # c
      BY <1>1, <1>2, <1>4, <1>10, NullIsNoNode DEF Links
    <3>2. h.right[c] # p /\ h.right[c] # c
      BY <1>1, <1>2, <1>4, <1>10, NullIsNoNode DEF Links
    <3> QED BY <1>1, <1>4, <3>1, <3>2 DEF Trees
  <2> QED BY <1>13, <1>14, <2>1
<1>16. Diff(k, ht1, n) = -2 /\ Diff(k, ht1, c) = r.bf
  <2>1. ht[p] \in Nat
    BY DEF HeightMaps, OrNull
  <2> QED BY <1>7, <1>11, <1>13, <1>14, <1>15, <2>1 DEF Diff
<1>17. /\ g \in Trees /\ ht2 \in HeightMaps
       /\ q.node = c /\ q.bf = 0
       /\ Measured(g, ht2, D, c, {c})
       /\ Diff(g, ht2, c) = q.bf
       /\ g.parent[c] = h.parent[n]
       /\ g.bf = [k.bf EXCEPT ![n] = w - x]
       /\ g.checked = (k.checked /\ w - x \in -1 .. 1)
       /\ SameOutside(k, g, D)
  <2> DEFINE q1 == RotateLL(k, n, Diff(k, ht1, n), Diff(k, ht1, c))
  <2>1. ComesUpRight(k, ht1, D, n, c, q1)
    BY <1>1, <1>4, <1>11, <1>14, TurnRightMeasured, Zenon
  <2>2. q1 = q
    BY <1>16
  <2> HIDE DEF q, q1
  <2>3. ComesUpRight(k, ht1, D, n, c, q)
    BY <2>1, <2>2
  <2>4. /\ g \in Trees /\ ht2 \in HeightMaps
        /\ q.node = c /\ q.bf = (Higher(x, w) + 1) - (Higher(y, z) + 1)
        /\ Measured(g, ht2, D, c, {c})
        /\ Diff(g, ht2, c) = q.bf
        /\ g.parent[c] = k.parent[n]
        /\ g.bf = [k.bf EXCEPT ![n] = w - x]
        /\ g.checked = (k.checked /\ w - x \in -1 .. 1)
        /\ SameOutside(k, g, D)
    <3> HIDE DEF x, y, z, w
    <3> QED BY <1>15, <2>3 DEF ComesUpRight
  <2>5. q.bf = 0
    <3> HIDE DEF x, y, z, w
    <3>1. Higher(y, z) + 1 \in Int
      BY <1>6 DEF Higher
    <3> QED BY <1>8, <2>4, <3>1
  <2> QED BY <1>11, <2>4, <2>5
<1> HIDE DEF q, g, x, y, z, w, top
<1>18. /\ ht2[c] = top
       /\ \A m \in OrNull \ D : ht2[m] = ht[m]
  BY <1>1, <1>2, <1>4, <1>11, <1>13 DEF HeightMaps, OrNull
<1> HIDE DEF ht2
<1>19. \A m \in D : Diff(g, ht2, m) \in -1 .. 1
  <2> SUFFICES ASSUME NEW m \in D PROVE Diff(g, ht2, m) \in -1 .. 1
    OBVIOUS
  <2>1. CASE m = c
    BY <1>17, <2>1
  <2>2. CASE m # c
    <3>1. Diff(g, ht2, m) = g.bf[m]
      BY <1>17, <2>2 DEF Measured
    <3>2. g.bf[m] = IF m = n THEN w - x ELSE IF m = p THEN y - z ELSE h.bf[m]
      BY <1>11, <1>17 DEF Trees
    <3> QED BY <1>1, <1>6, <1>8, <3>1, <3>2
  <2> QED BY <2>1, <2>2
<1>20. g.checked = h.checked
  <2>1. h.checked \in BOOLEAN /\ w - x \in -1 .. 1 /\ y - z \in -1 .. 1
    BY <1>6, <1>8 DEF Trees
  <2> QED BY <1>11, <1>17, <2>1
<1>21. SameOutside(h, g, D)
  BY ZenonT(60), <1>11, <1>17 DEF SameOutside
<1>22. Rebalanced(h, ht, D, n, [tree |-> SetBf(g, c, q.bf), node |-> c])
  <2>1. q.bf = NewBalance(h, ht, n)
    BY <1>17 DEF NewBalance
  <2>2. ht2[c] = NewHeight(h, ht, n)
    BY <1>8, <1>17, <1>18, <2>1 DEF NewHeight
  <2>3. q.bf \in Int
    BY <1>17
  <2> QED BY <1>4, <1>17, <1>18, <1>19, <1>20, <1>21, <2>1, <2>2, <2>3,
          StoredIsRebalanced
<1> QED BY <1>12, <1>17, <1>22 DEF Stored, g

\* A child that leans outwards, or not at all, comes up.
LEMMA SingleRebalancesRR ==
  ASSUME NEW h \in Trees, NEW ht \in HeightMaps, NEW D \in SUBSET Nodes,
         NEW n \in Nodes, NEW b \in Int, Leans(h, ht, D, n, b),
         NEW c \in Nodes, h.right[n] = c,
         Diff(h, ht, n) = 2, h.bf[c] >= 0
  PROVE  Rebalanced(h, ht, D, n, SingleRR(h, n, 2))
<1> DEFINE x == ht[h.right[c]]
           y == ht[h.left[c]]
           z == ht[h.left[n]]
           top == Higher(x, Higher(y, z) + 1) + 1
           ht2 == [ht EXCEPT ![n] = Higher(y, z) + 1, ![c] = top]
           r == RotateRR(h, n, Diff(h, ht, n), Diff(h, ht, c))
           g == r.tree
           s == SetBf(g, c, r.bf)
<1>1. /\ n \in D /\ Links(h, D, n) /\ Measured(h, ht, D, n, {n})
      /\ Tall(h, ht, n)
      /\ \A m \in D \ {n} : h.bf[m] = Diff(h, ht, m) /\ Diff(h, ht, m) \in -1 .. 1
  BY DEF Leans, Measured
<1>2. c \in D /\ c # n
  BY <1>1, NullIsNoNode DEF Links
<1>3. Tall(h, ht, c) /\ h.bf[c] = Diff(h, ht, c) /\ Diff(h, ht, c) \in -1 .. 1
  BY <1>1, <1>2 DEF Measured
<1>4. x \in Nat /\ y \in Nat /\ z \in Nat
  <2>1. h.right[c] \in OrNull /\ h.left[c] \in OrNull /\ h.left[n] \in OrNull
    BY DEF Trees
  <2> QED BY <2>1 DEF HeightMaps
<1>5. /\ ht[c] = Higher(x, y) + 1 /\ x - y = Diff(h, ht, c)
      /\ ht[c] - z = 2 /\ ht[n] = Higher(ht[c], z) + 1
  <2>1. ht[c] \in Nat
    BY DEF HeightMaps, OrNull
  <2> QED BY <1>1, <1>3, <1>4, <2>1 DEF Tall, Diff, Higher
<1>6. /\ y - z \in -1 .. 1
      /\ x - (Higher(y, z) + 1) \in -1 .. 1
      /\ x - (Higher(y, z) + 1) = NewBalance(h, ht, n)
      /\ top = NewHeight(h, ht, n)
  <2>1. NewBalance(h, ht, n) = IF h.bf[c] = 0 THEN -1 ELSE 0
    BY DEF NewBalance
  <2> HIDE DEF x, y, z
  <2> QED BY <1>3, <1>4, <1>5, <2>1 DEF Higher, NewHeight
<1>7. Measured(h, ht, D, n, {n, c})
  BY <1>1 DEF Measured
<1>8. /\ g \in Trees /\ ht2 \in HeightMaps
      /\ r.node = c /\ r.bf = x - (Higher(y, z) + 1)
      /\ Measured(g, ht2, D, c, {c})
      /\ Diff(g, ht2, c) = r.bf
      /\ g.parent[c] = h.parent[n]
      /\ g.bf = [h.bf EXCEPT ![n] = y - z]
      /\ g.checked = (h.checked /\ y - z \in -1 .. 1)
      /\ SameOutside(h, g, D)
  <2>1. ComesUpLeft(h, ht, D, n, c, r)
    BY <1>1, <1>2, <1>7, TurnLeftMeasured, Zenon
  <2> HIDE DEF r
  <2> QED BY <2>1 DEF ComesUpLeft
<1>9. SingleRR(h, n, 2) = [tree |-> s, node |-> c]
  BY <1>3, <1>8 DEF SingleRR, Stored
<1> HIDE DEF r, g
<1>10. r.bf \in Int /\ r.bf \in -1 .. 1
  BY <1>6, <1>8
<1>11. h.checked \in BOOLEAN
  BY DEF Trees
<1>12. g.checked = h.checked
  BY <1>6, <1>8, <1>11
<1>13. /\ ht2[c] = top
       /\ \A m \in OrNull \ D : ht2[m] = ht[m]
  BY <1>1, <1>2 DEF HeightMaps, OrNull
<1> HIDE DEF x, y, z, top, ht2
<1>14. \A m \in D : Diff(g, ht2, m) \in -1 .. 1
  <2> SUFFICES ASSUME NEW m \in D PROVE Diff(g, ht2, m) \in -1 .. 1
    OBVIOUS
  <2>1. CASE m = c
    BY <1>8, <1>10, <2>1
  <2>2. CASE m # c
    <3>1. Diff(g, ht2, m) = g.bf[m]
      BY <1>8, <2>2 DEF Measured
    <3>2. g.bf[m] = IF m = n THEN y - z ELSE h.bf[m]
      BY <1>8 DEF Trees
    <3> QED BY <1>1, <1>6, <3>1, <3>2
  <2> QED BY <2>1, <2>2
<1>15. Rebalanced(h, ht, D, n, [tree |-> SetBf(g, c, r.bf), node |-> c])
  BY <1>2, <1>6, <1>8, <1>10, <1>12, <1>13, <1>14, StoredIsRebalanced
<1> QED BY <1>9, <1>15 DEF s

\* A child p that leans inwards: its inner child c comes up twice.
LEMMA DoubleRebalancesRL ==
  ASSUME NEW h \in Trees, NEW ht \in HeightMaps, NEW D \in SUBSET Nodes,
         NEW n \in Nodes, NEW b \in Int, Leans(h, ht, D, n, b),
         NEW p \in Nodes, h.right[n] = p,
         Diff(h, ht, n) = 2, h.bf[p] < 0
  PROVE  Rebalanced(h, ht, D, n, RotateRL(h, n, 2))
<1> DEFINE c == h.left[p]
           x == ht[h.left[c]]
           y == ht[h.right[c]]
           z == ht[h.right[p]]
           w == ht[h.left[n]]
           ht1 == [ht EXCEPT ![p] = Higher(y, z) + 1, ![c] = ht[p]]
           r == RotateLL(h, p, h.bf[p], h.bf[c])
           k == [r.tree EXCEPT !.right[n] = r.node]
           top == Higher(Higher(y, z) + 1, Higher(x, w) + 1) + 1
           ht2 == [ht1 EXCEPT ![n] = Higher(x, w) + 1, ![c] = top]
           q == RotateRR(k, n, 2, r.bf)
           g == q.tree
<1>1. /\ n \in D /\ Links(h, D, n) /\ Measured(h, ht, D, n, {n})
      /\ Tall(h, ht, n)
      /\ \A m \in D \ {n} : h.bf[m] = Diff(h, ht, m) /\ Diff(h, ht, m) \in -1 .. 1
  BY DEF Leans, Measured
<1>2. p \in D /\ p # n
  BY <1>1, NullIsNoNode DEF Links
<1>3. Tall(h, ht, p) /\ Diff(h, ht, p) = -1
  BY <1>1, <1>2 DEF Measured
<1>4. c \in D /\ c \in Nodes /\ c # n /\ c # p
  <2>1. c # Null
    <3>1. h.right[p] \in OrNull /\ ht[h.right[p]] \in Nat /\ ht[Null] = 0
      BY DEF Trees, HeightMaps, OrNull
    <3> QED BY <1>3, <3>1 DEF Diff
  <2> QED BY <1>1, <1>2, <2>1, NullIsNoNode DEF Links
<1>5. Tall(h, ht, c) /\ Diff(h, ht, c) \in -1 .. 1
  BY <1>1, <1>4 DEF Measured
<1>6. x \in Nat /\ y \in Nat /\ z \in Nat /\ w \in Nat
  <2>1. /\ h.right[c] \in OrNull /\ h.left[c] \in OrNull /\ h.left[n] \in OrNull
        /\ h.right[p] \in OrNull
    BY <1>4 DEF Trees
  <2> QED BY <2>1 DEF HeightMaps
<1>7. /\ ht[c] = Higher(x, y) + 1 /\ x - y \in -1 .. 1
      /\ ht[p] = Higher(z, ht[c]) + 1 /\ ht[c] = z + 1
      /\ ht[n] = Higher(ht[p], w) + 1 /\ w = ht[p] - 2
  <2>1. ht[c] \in Nat /\ ht[p] \in Nat
    BY <1>4 DEF HeightMaps, OrNull
  <2>2. ht[c] = Higher(x, y) + 1 /\ x - y \in -1 .. 1
    BY <1>5, <1>6 DEF Tall, Diff, Higher
  <2>3. ht[p] = Higher(z, ht[c]) + 1 /\ ht[c] = z + 1
    <3> HIDE DEF c
    <3>1. h.left[p] = c
      BY DEF c
    <3> QED BY <1>3, <1>6, <2>1, <3>1 DEF Tall, Diff, Higher
  <2>4. ht[n] = Higher(ht[p], w) + 1 /\ w = ht[p] - 2
    BY <1>1, <1>6, <2>1 DEF Tall, Diff, Higher
  <2> QED BY <2>2, <2>3, <2>4
<1>8. /\ z <= ht[c] /\ ht[p] = Higher(x, Higher(y, z) + 1) + 1
      /\ y - z \in -1 .. 0 /\ w - x \in 0 .. 1
      /\ Higher(x, w) + 1 = Higher(y, z) + 1
      /\ top = ht[n] - 1
  <2> HIDE DEF x, y, z, w, c
  <2> QED BY <1>6, <1>7 DEF Higher
<1>9. KeepsHeightRight(h, ht, p, c)
  BY <1>8 DEF KeepsHeightRight
<1> HIDE DEF c
<1>10. h.left[p] = c
  BY DEF c
<1>11. /\ k \in Trees /\ ht1 \in HeightMaps
       /\ r.node = c /\ r.delta = 0 /\ r.bf = (Higher(y, z) + 1) - x
       /\ Measured(k, ht1, D, n, {n, c})
       /\ Diff(k, ht1, c) = r.bf
       /\ k.parent[n] = h.parent[n]
       /\ k.bf = [h.bf EXCEPT ![p] = z - y]
       /\ k.checked = (h.checked /\ z - y \in -1 .. 1)
       /\ RotatedRightBelow(h, n, p, c, k)
       /\ SameOutside(h, k, D)
  <2>1. ComesUpRightBelow(h, ht, D, n, p, c, r)
    BY <1>1, <1>2, <1>4, <1>9, <1>10, TurnRightBelowMeasured, Zenon
  <2> HIDE DEF r
  <2> QED BY <2>1 DEF ComesUpRightBelow
<1>12. RotateRL(h, n, 2) = Stored(q)
  <2>1. h.left[p] # Null
    BY <1>4, <1>10, NullIsNoNode
  <2>2. 2 + 0 = 2
    OBVIOUS
  <2>3. r.delta = 0
    BY <1>11
  <2> QED BY <1>10, <2>1, <2>2, <2>3 DEF RotateRL, RROver
<1> HIDE DEF r, k
<1>13. /\ ht1[p] = Higher(y, z) + 1 /\ ht1[c] = ht[p]
       /\ \A m \in OrNull \ {p, c} : ht1[m] = ht[m]
  BY <1>2, <1>4 DEF HeightMaps, OrNull
<1> HIDE DEF ht1
<1>14. /\ k.right[n] = c /\ k.right[c] = p
       /\ k.left[c] = h.left[c] /\ k.left[n] = h.left[n]
  BY <1>1, <1>2, <1>4, <1>11 DEF RotatedRightBelow, Trees
<1>15. ht1[k.right[c]] = Higher(y, z) + 1 /\ ht1[k.left[c]] = x /\ ht1[k.left[n]] = w
  <2>1. h.left[c] \in OrNull \ {p, c} /\ h.left[n] \in OrNull \ {p, c}
    <3>1. h.left[n] # p /\ h.left[n] # c
      BY <1>1, <1>2, <1>4, <1>10, NullIsNoNode DEF Links
    <3>2. h.left[c] # p /\ h.left[c] # c
      BY <1>1, <1>2, <1>4, <1>10, NullIsNoNode DEF Links
    <3> QED BY <1>1, <1>4, <3>1, <3>2 DEF Trees
  <2> QED BY <1>13, <1>14, <2>1
<1>16. Diff(k, ht1, n) = 2 /\ Diff(k, ht1, c) = r.bf
  <2>1. ht[p] \in Nat
    BY DEF HeightMaps, OrNull
  <2> QED BY <1>7, <1>11, <1>13, <1>14, <1>15, <2>1 DEF Diff
<1>17. /\ g \in Trees /\ ht2 \in HeightMaps
       /\ q.node = c /\ q.bf = 0
       /\ Measured(g, ht2, D, c, {c})
       /\ Diff(g, ht2, c) = q.bf
       /\ g.parent[c] = h.parent[n]
       /\ g.bf = [k.bf EXCEPT ![n] = x - w]
       /\ g.checked = (k.checked /\ x - w \in -1 .. 1)
       /\ SameOutside(k, g, D)
  <2> DEFINE q1 == RotateRR(k, n, Diff(k, ht1, n), Diff(k, ht1, c))
  <2>1. ComesUpLeft(k, ht1, D, n, c, q1)
    BY <1>1, <1>4, <1>11, <1>14, TurnLeftMeasured, Zenon
  <2>2. q1 = q
    BY <1>16
  <2> HIDE DEF q, q1
  <2>3. ComesUpLeft(k, ht1, D, n, c, q)
    BY <2>1, <2>2
  <2>4. /\ g \in Trees /\ ht2 \in HeightMaps
        /\ q.node = c /\ q.bf = (Higher(y, z) + 1) - (Higher(x, w) + 1)
        /\ Measured(g, ht2, D, c, {c})
        /\ Diff(g, ht2, c) = q.bf
        /\ g.parent[c] = k.parent[n]
        /\ g.bf = [k.bf EXCEPT ![n] = x - w]
        /\ g.checked = (k.checked /\ x - w \in -1 .. 1)
        /\ SameOutside(k, g, D)
    <3> HIDE DEF x, y, z, w
    <3> QED BY <1>15, <2>3 DEF ComesUpLeft
  <2>5. q.bf = 0
    <3> HIDE DEF x, y, z, w
    <3>1. Higher(y, z) + 1 \in Int
      BY <1>6 DEF Higher
    <3> QED BY <1>8, <2>4, <3>1
  <2> QED BY <1>11, <2>4, <2>5
<1> HIDE DEF q, g, x, y, z, w, top
<1>18. /\ ht2[c] = top
       /\ \A m \in OrNull \ D : ht2[m] = ht[m]
  BY <1>1, <1>2, <1>4, <1>11, <1>13 DEF HeightMaps, OrNull
<1> HIDE DEF ht2
<1>19. \A m \in D : Diff(g, ht2, m) \in -1 .. 1
  <2> SUFFICES ASSUME NEW m \in D PROVE Diff(g, ht2, m) \in -1 .. 1
    OBVIOUS
  <2>1. CASE m = c
    BY <1>17, <2>1
  <2>2. CASE m # c
    <3>1. Diff(g, ht2, m) = g.bf[m]
      BY <1>17, <2>2 DEF Measured
    <3>2. g.bf[m] = IF m = n THEN x - w ELSE IF m = p THEN z - y ELSE h.bf[m]
      BY <1>11, <1>17 DEF Trees
    <3> QED BY <1>1, <1>6, <1>8, <3>1, <3>2
  <2> QED BY <2>1, <2>2
<1>20. g.checked = h.checked
  <2>1. h.checked \in BOOLEAN /\ x - w \in -1 .. 1 /\ z - y \in -1 .. 1
    BY <1>6, <1>8 DEF Trees
  <2> QED BY <1>11, <1>17, <2>1
<1>21. SameOutside(h, g, D)
  BY ZenonT(60), <1>11, <1>17 DEF SameOutside
<1>22. Rebalanced(h, ht, D, n, [tree |-> SetBf(g, c, q.bf), node |-> c])
  <2>1. q.bf = NewBalance(h, ht, n)
    BY <1>17 DEF NewBalance
  <2>2. ht2[c] = NewHeight(h, ht, n)
    BY <1>8, <1>17, <1>18, <2>1 DEF NewHeight
  <2>3. q.bf \in Int
    BY <1>17
  <2> QED BY <1>4, <1>17, <1>18, <1>19, <1>20, <1>21, <2>1, <2>2, <2>3,
          StoredIsRebalanced
<1> QED BY <1>12, <1>17, <1>22 DEF Stored, g

-----------------------------------------------------------------------------
\* BalanceTree makes an AVL tree of every subtree that leans by up to two at its
\* root, of any size and height: balance factors agree with heights, parents
\* with children, and the nodes are the same.
THEOREM BalanceTreeRebalances ==
  ASSUME NEW h \in Trees, NEW ht \in HeightMaps, NEW D \in SUBSET Nodes,
         NEW n \in Nodes, NEW b \in Int, Leans(h, ht, D, n, b)
  PROVE  Rebalanced(h, ht, D, n, BalanceTree(h, n, b))
<1> DEFINE d == h.bf[n] + b
<1>1. /\ d = Diff(h, ht, n) /\ d \in -2 .. 2
      /\ Measured(h, ht, D, n, {n})
  BY DEF Leans
<1>2. /\ h.left[n] \in OrNull /\ h.right[n] \in OrNull
      /\ ht[h.left[n]] \in Nat /\ ht[h.right[n]] \in Nat /\ ht[Null] = 0
      /\ ht[h.right[n]] - ht[h.left[n]] = d
  BY <1>1 DEF Trees, HeightMaps, OrNull, Diff
<1>3. CASE d = -2
  <2>1. h.left[n] # Null /\ h.left[n] \in Nodes
    BY <1>2, <1>3 DEF OrNull
  <2> DEFINE c == h.left[n]
  <2>2. BalanceTree(h, n, b) = IF h.bf[c] <= 0 THEN SingleLL(h, n, -2) ELSE RotateLR(h, n, -2)
    BY <1>3, <2>1 DEF BalanceTree, Balance
  <2>3. h.bf[c] \in Int
    BY <2>1 DEF Trees
  <2> HIDE DEF d
  <2>4. CASE h.bf[c] <= 0
    <3>1. Diff(h, ht, n) = -2 /\ c \in Nodes /\ h.left[n] = c
      BY <1>1, <1>3, <2>1
    <3>2. BalanceTree(h, n, b) = SingleLL(h, n, -2)
      BY <2>2, <2>4
    <3> HIDE DEF c
    <3>3. Rebalanced(h, ht, D, n, SingleLL(h, n, -2))
      BY <3>1, <2>4, SingleRebalancesLL
    <3> QED BY <3>2, <3>3
  <2>5. CASE h.bf[c] > 0
    <3>1. Diff(h, ht, n) = -2 /\ c \in Nodes /\ h.left[n] = c
      BY <1>1, <1>3, <2>1
    <3>2. BalanceTree(h, n, b) = RotateLR(h, n, -2)
      BY <2>2, <2>3, <2>5
    <3> HIDE DEF c
    <3>3. Rebalanced(h, ht, D, n, RotateLR(h, n, -2))
      BY <3>1, <2>5, DoubleRebalancesLR
    <3> QED BY <3>2, <3>3
  <2> QED BY <2>3, <2>4, <2>5
<1>4. CASE d = 2
  <2>1. h.right[n] # Null /\ h.right[n] \in Nodes
    BY <1>2, <1>4 DEF OrNull
  <2> DEFINE c == h.right[n]
  <2>2. BalanceTree(h, n, b) = IF h.bf[c] >= 0 THEN SingleRR(h, n, 2) ELSE RotateRL(h, n, 2)
    BY <1>4, <2>1 DEF BalanceTree, Balance
  <2>3. h.bf[c] \in Int
    BY <2>1 DEF Trees
  <2> HIDE DEF d
  <2>4. CASE h.bf[c] >= 0
    <3>1. Diff(h, ht, n) = 2 /\ c \in Nodes /\ h.right[n] = c
      BY <1>1, <1>4, <2>1
    <3>2. BalanceTree(h, n, b) = SingleRR(h, n, 2)
      BY <2>2, <2>4
    <3> HIDE DEF c
    <3>3. Rebalanced(h, ht, D, n, SingleRR(h, n, 2))
      BY <3>1, <2>4, SingleRebalancesRR
    <3> QED BY <3>2, <3>3
  <2>5. CASE h.bf[c] < 0
    <3>1. Diff(h, ht, n) = 2 /\ c \in Nodes /\ h.right[n] = c
      BY <1>1, <1>4, <2>1
    <3>2. BalanceTree(h, n, b) = RotateRL(h, n, 2)
      BY <2>2, <2>3, <2>5
    <3> HIDE DEF c
    <3>3. Rebalanced(h, ht, D, n, RotateRL(h, n, 2))
      BY <3>1, <2>5, DoubleRebalancesRL
    <3> QED BY <3>2, <3>3
  <2> QED BY <2>3, <2>4, <2>5
<1>5. CASE d \in -1 .. 1
  <2>1. BalanceTree(h, n, b) = [tree |-> SetBf(h, n, d), node |-> n]
    BY <1>5 DEF BalanceTree
  <2> QED BY <1>1, <1>5, <2>1, StaysBalanced
<1> QED BY <1>1, <1>3, <1>4, <1>5

\* The height of n when its subtrees were higher by l and by r.
HeightBefore(h, ht, n, l, r) == Higher(ht[h.left[n]] + l, ht[h.right[n]] + r) + 1

\* A node is a leaf if and only if its height is one.
LEMMA LeafIsLow ==
  ASSUME NEW h \in Trees, NEW ht \in HeightMaps, NEW n \in Nodes, Tall(h, ht, n)
  PROVE  h.left[n] = Null /\ h.right[n] = Null <=> ht[n] = 1
<1>1. h.left[n] \in OrNull /\ h.right[n] \in OrNull
  BY DEF Trees
<1>2. /\ ht[h.left[n]] \in Nat /\ ht[h.right[n]] \in Nat /\ ht[n] \in Nat
      /\ ht[h.left[n]] = 0 <=> h.left[n] = Null
      /\ ht[h.right[n]] = 0 <=> h.right[n] = Null
  BY <1>1 DEF HeightMaps, OrNull
<1> QED BY <1>2 DEF Tall, Higher

\* The loop of avl_insert goes on at the parent if and only if the subtree is
\* higher than it was before the insertion, although it compares two balance
\* factors only.  The child that has grown leans, or is the new leaf.
THEOREM InsertionStops ==
  ASSUME NEW h \in Trees, NEW ht \in HeightMaps, NEW D \in SUBSET Nodes,
         NEW n \in Nodes, NEW b \in {-1, 1}, Leans(h, ht, D, n, b), h.bf[n] \in -1 .. 1,
         NEW c \in Nodes, c = IF b = -1 THEN h.left[n] ELSE h.right[n],
         h.bf[c] # 0 \/ ht[c] = 1
  PROVE  LET r == BalanceTree(h, n, b)
             changed == HeightChanged("insert", h.bf[n], r.tree, r.node)
             before == IF b = -1 THEN HeightBefore(h, ht, n, -1, 0)
                       ELSE HeightBefore(h, ht, n, 0, -1)
         IN  \E ht2 \in HeightMaps :
               /\ RebalancedTo(h, ht, D, n, r, ht2)
               /\ ht2[r.node] = IF changed THEN before + 1 ELSE before
               /\ changed => r.tree.bf[r.node] # 0
<1> DEFINE r == BalanceTree(h, n, b)
           x == ht[h.left[n]]
           y == ht[h.right[n]]
           changed == HeightChanged("insert", h.bf[n], r.tree, r.node)
           before == IF b = -1 THEN Higher(x - 1, y) + 1 ELSE Higher(x, y - 1) + 1
<1>1. PICK ht2 \in HeightMaps : RebalancedTo(h, ht, D, n, r, ht2)
  BY BalanceTreeRebalances DEF Rebalanced
<1> HIDE DEF r
<1>2. /\ x \in Nat /\ y \in Nat /\ ht[n] = Higher(x, y) + 1
      /\ Diff(h, ht, n) = y - x /\ y - x \in -2 .. 2 /\ h.bf[n] = (y - x) - b
  <2>1. h.left[n] \in OrNull /\ h.right[n] \in OrNull
    BY DEF Trees
  <2>2. x \in Nat /\ y \in Nat
    BY <2>1 DEF HeightMaps
  <2>3. n \in D /\ Tall(h, ht, n) /\ h.bf[n] \in Int
    BY DEF Leans, Measured, Trees
  <2> QED BY <2>2, <2>3 DEF Leans, Tall, Diff
<1>3. (b = -1 => x > 0) /\ (b = 1 => y > 0)
  BY <1>2 DEF HeightMaps
<1>4. /\ y - x = -2 => b = -1 /\ x > 1 /\ h.bf[h.left[n]] # 0
      /\ y - x = 2 => b = 1 /\ y > 1 /\ h.bf[h.right[n]] # 0
  <2>1. (y - x) - b \in -1 .. 1
    BY <1>2
  <2>2. CASE b = -1
    <3>1. h.left[n] = c
      BY <2>2
    <3>2. h.bf[h.left[n]] # 0 \/ x = 1
      BY <3>1
    <3> HIDE DEF x, y
    <3> QED BY <1>2, <2>1, <2>2, <3>2
  <2>3. CASE b = 1
    <3>1. h.right[n] = c
      BY <2>3
    <3>2. h.bf[h.right[n]] # 0 \/ y = 1
      BY <3>1
    <3> HIDE DEF x, y
    <3> QED BY <1>2, <2>1, <2>3, <3>2
  <2> QED BY <2>2, <2>3
<1> DEFINE nb == IF y - x \in {-2, 2} THEN 0 ELSE y - x
<1>5. NewBalance(h, ht, n) = nb
  BY <1>2, <1>4 DEF NewBalance
<1>6. /\ r.tree.bf[r.node] = nb
      /\ ht2[r.node] = IF y - x \in {-2, 2} THEN ht[n] - 1 ELSE ht[n]
  BY <1>1, <1>2, <1>5 DEF RebalancedTo, NewHeight
<1>7. changed <=> ht2[r.node] = 1 \/ Magnitude((y - x) - b) < Magnitude(nb)
  <2>1. r.tree \in Trees /\ r.node \in Nodes /\ Tall(r.tree, ht2, r.node)
    BY <1>1 DEF RebalancedTo, IsAvl, Measured
  <2>2. r.tree.left[r.node] = Null /\ r.tree.right[r.node] = Null <=> ht2[r.node] = 1
    BY <2>1, LeafIsLow
  <2> HIDE DEF nb, x, y
  <2> QED BY <1>2, <1>6, <2>2 DEF HeightChanged
<1>8. /\ ht2[r.node] = IF changed THEN before + 1 ELSE before
      /\ changed => nb # 0
  <2> HIDE DEF changed, x, y
  <2> QED BY <1>2, <1>3, <1>4, <1>6, <1>7 DEF Higher, Magnitude
<1>9. before = IF b = -1 THEN HeightBefore(h, ht, n, -1, 0) ELSE HeightBefore(h, ht, n, 0, -1)
  <2>1. x + -1 = x - 1 /\ x + 0 = x /\ y + -1 = y - 1 /\ y + 0 = y
    BY <1>2
  <2> QED BY <2>1 DEF HeightBefore
<1>10. /\ RebalancedTo(h, ht, D, n, r, ht2)
       /\ ht2[r.node] = IF changed THEN before + 1 ELSE before
       /\ changed => r.tree.bf[r.node] # 0
  BY <1>1, <1>6, <1>8
<1> HIDE DEF changed, before, x, y
<1> QED BY <1>9, <1>10 DEF r, changed

\* The loop of avl_remove goes on at the parent if and only if the subtree is
\* lower than it was before the removal.
THEOREM RemovalStops ==
  ASSUME NEW h \in Trees, NEW ht \in HeightMaps, NEW D \in SUBSET Nodes,
         NEW n \in Nodes, NEW b \in {-1, 1}, Leans(h, ht, D, n, b), h.bf[n] \in -1 .. 1
  PROVE  LET r == BalanceTree(h, n, b)
             changed == HeightChanged("remove", h.bf[n], r.tree, r.node)
             before == IF b = -1 THEN HeightBefore(h, ht, n, 0, 1)
                       ELSE HeightBefore(h, ht, n, 1, 0)
         IN  \E ht2 \in HeightMaps :
               /\ RebalancedTo(h, ht, D, n, r, ht2)
               /\ ht2[r.node] = IF changed THEN before - 1 ELSE before
<1> DEFINE r == BalanceTree(h, n, b)
           x == ht[h.left[n]]
           y == ht[h.right[n]]
           changed == HeightChanged("remove", h.bf[n], r.tree, r.node)
           before == IF b = -1 THEN Higher(x, y + 1) + 1 ELSE Higher(x + 1, y) + 1
<1>1. PICK ht2 \in HeightMaps : RebalancedTo(h, ht, D, n, r, ht2)
  BY BalanceTreeRebalances DEF Rebalanced
<1> HIDE DEF r
<1>2. /\ x \in Nat /\ y \in Nat /\ ht[n] = Higher(x, y) + 1
      /\ Diff(h, ht, n) = y - x /\ y - x \in -2 .. 2 /\ h.bf[n] = (y - x) - b
  <2>1. h.left[n] \in OrNull /\ h.right[n] \in OrNull
    BY DEF Trees
  <2>2. x \in Nat /\ y \in Nat
    BY <2>1 DEF HeightMaps
  <2>3. n \in D /\ Tall(h, ht, n) /\ h.bf[n] \in Int
    BY DEF Leans, Measured, Trees
  <2> QED BY <2>2, <2>3 DEF Leans, Tall, Diff
<1> DEFINE nb == NewBalance(h, ht, n)
<1>3. /\ h.bf[n] \in -1 .. 1 /\ y - x = -2 => b = -1
      /\ h.bf[n] \in -1 .. 1 /\ y - x = 2 => b = 1
  BY <1>2
<1>4. /\ y - x = -2 => nb \in {0, 1}
      /\ y - x = 2 => nb \in {-1, 0}
      /\ y - x \in -1 .. 1 => nb = y - x
  BY <1>2 DEF NewBalance
<1>5. nb \in -1 .. 1
  BY <1>2, <1>4
<1>6. /\ r.tree.bf[r.node] = nb
      /\ ht2[r.node] = IF y - x \in -1 .. 1 \/ nb # 0 THEN ht[n] ELSE ht[n] - 1
  BY <1>1, <1>2 DEF RebalancedTo, NewHeight
<1>7. changed <=> ht2[r.node] = 1 \/ Magnitude((y - x) - b) > Magnitude(nb)
  <2>1. r.tree \in Trees /\ r.node \in Nodes /\ Tall(r.tree, ht2, r.node)
    BY <1>1 DEF RebalancedTo, IsAvl, Measured
  <2>2. r.tree.left[r.node] = Null /\ r.tree.right[r.node] = Null <=> ht2[r.node] = 1
    BY <2>1, LeafIsLow
  <2> HIDE DEF nb, x, y
  <2> QED BY <1>2, <1>6, <2>2 DEF HeightChanged
<1>8. ht2[r.node] = IF changed THEN before - 1 ELSE before
  <2> HIDE DEF changed, x, y, nb
  <2> QED BY <1>2, <1>3, <1>4, <1>5, <1>6, <1>7 DEF Higher, Magnitude
<1>9. before = IF b = -1 THEN HeightBefore(h, ht, n, 0, 1) ELSE HeightBefore(h, ht, n, 1, 0)
  <2>1. x + 0 = x /\ y + 0 = y
    BY <1>2
  <2> QED BY <2>1 DEF HeightBefore
<1>10. /\ RebalancedTo(h, ht, D, n, r, ht2)
       /\ ht2[r.node] = IF changed THEN before - 1 ELSE before
  BY <1>1, <1>6, <1>8
<1> HIDE DEF changed, before, x, y
<1> QED BY <1>9, <1>10 DEF r, changed

-----------------------------------------------------------------------------
(* The links of an AVL tree as those of a red-black tree without colours *)

Keyed == [n \in Nodes |-> n]

Rb == INSTANCE RbLinksProofs
        WITH Key <- Keyed, tree <- Null, pc <- Null, node <- Null, up <- Null, old <- Null

\* The nodes and their keys are what the lemmas of Rb assume.
LEMMA RbAssumed ==
  Null \notin Nodes /\ Rb!IsFiniteSet(Nodes) /\ Keyed \in [Nodes -> Nat \ {0}]
BY AvlNodesAssumption, AvlTreeAssumption DEF IsFiniteSet, Rb!IsFiniteSet, Keyed, Null

\* The links of h, with the colours reds.  A node that is in no tree is its own
\* parent there.
View(h, reds) ==
  [root |-> h.root,
   parent |-> [m \in Nodes |-> IF m = h.root \/ h.parent[m] # Null THEN h.parent[m] ELSE m],
   kid |-> [m \in Nodes |-> [s \in Rb!Side |-> IF s = "left" THEN h.left[m] ELSE h.right[m]]],
   red |-> reds]

\* The nodes in the tree h.
Held(h) == {n \in Nodes : n = h.root \/ h.parent[n] # Null}

\* b gives every node the set of the nodes below it, and the links of h agree.
Grown(h, b) ==
  h \in Trees /\ Rb!Grown(View(h, {}), b) /\ \A n \in Nodes : h.parent[n] # n

\* The two sides.
LEMMA Sides ==
  /\ "left" \in Rb!Side /\ "right" \in Rb!Side
  /\ \A s \in Rb!Side : s = "left" \/ s = "right"
  /\ Rb!Opp("left") = "right" /\ Rb!Opp("right") = "left"
BY DEF Rb!Side, Rb!Opp

\* Keys are the nodes, in the order of the numbers.
LEMMA KeysAre ==
  /\ OrNull = Rb!OrNull /\ Null \notin Nodes /\ Nodes \subseteq Nat
  /\ \A n \in Nodes : Keyed[n] = n
  /\ \A m, n \in Nodes : Rb!Beyond("left", Keyed[m], Keyed[n]) <=> m < n
  /\ \A m, n \in Nodes : Rb!Beyond("right", Keyed[m], Keyed[n]) <=> n < m
BY AvlNodesAssumption, NullIsNoNode DEF Keyed, Rb!Beyond, OrNull, Rb!OrNull

\* The fields of the view.
LEMMA ViewFields ==
  ASSUME NEW h \in Trees, NEW reds \in SUBSET Nodes
  PROVE  LET t == View(h, reds)
         IN  /\ t \in Rb!Trees /\ t.root = h.root /\ t.red = reds
             /\ \A m \in Nodes : /\ t.kid[m]["left"] = h.left[m]
                                 /\ t.kid[m]["right"] = h.right[m]
             /\ \A m \in Nodes : t.parent[m] = IF m \in Held(h) THEN h.parent[m] ELSE m
<1> DEFINE t == View(h, reds)
<1>1. /\ h.root \in OrNull /\ h.left \in [Nodes -> OrNull] /\ h.right \in [Nodes -> OrNull]
      /\ h.parent \in [Nodes -> OrNull] /\ Nodes \subseteq OrNull
  BY DEF Trees, OrNull
<1>2. /\ t.root = h.root /\ t.red = reds
      /\ t.parent = [m \in Nodes |-> IF m = h.root \/ h.parent[m] # Null THEN h.parent[m] ELSE m]
      /\ t.kid = [m \in Nodes |-> [s \in Rb!Side |-> IF s = "left" THEN h.left[m] ELSE h.right[m]]]
      /\ t = [root |-> t.root, parent |-> t.parent, kid |-> t.kid, red |-> t.red]
  BY DEF View
<1>3. \A m \in Nodes : t.kid[m]["left"] = h.left[m] /\ t.kid[m]["right"] = h.right[m]
  <2>1. \A m \in Nodes, s \in Rb!Side : t.kid[m][s] = IF s = "left" THEN h.left[m] ELSE h.right[m]
    BY DEF View
  <2> HIDE DEF t
  <2> QED BY <2>1, Sides
<1> HIDE DEF t
<1>4. \A m \in Nodes : t.parent[m] = IF m \in Held(h) THEN h.parent[m] ELSE m
  BY <1>2 DEF Held
<1>5. t.parent \in [Nodes -> OrNull] /\ t.kid \in [Nodes -> [Rb!Side -> OrNull]]
  BY <1>1, <1>2
<1>6. t \in Rb!Trees
  BY <1>1, <1>2, <1>5, KeysAre DEF Rb!Trees
<1> QED BY <1>2, <1>3, <1>4, <1>6 DEF t

\* The nodes that the view places in the tree; and the colours do not matter.
LEMMA ViewPlaces ==
  ASSUME NEW h \in Trees, NEW reds \in SUBSET Nodes, \A n \in Nodes : h.parent[n] # n
  PROVE  /\ Rb!Placed(View(h, reds)) = Held(h)
         /\ \A b : Rb!Grown(View(h, reds), b) <=> Grown(h, b)
<1> DEFINE t == View(h, reds)
           e == View(h, {})
<1>1. /\ t \in Rb!Trees /\ e \in Rb!Trees
      /\ \A m \in Nodes : t.parent[m] = IF m \in Held(h) THEN h.parent[m] ELSE m
  BY ViewFields
<1>2. t.root = e.root /\ t.parent = e.parent /\ t.kid = e.kid
  BY DEF View
<1> HIDE DEF t, e
<1>3. Rb!Placed(t) = Held(h)
  BY <1>1 DEF Rb!Placed, Held
<1>4. \A b : Rb!Grown(t, b) <=> Rb!Grown(e, b)
  BY <1>1, <1>2 DEF Rb!Grown, Rb!Joined, Rb!Spanned, Rb!Placed
<1> QED BY <1>3, <1>4 DEF t, e, Grown

\* Subtrees in the fields of the tree: a subtree is its top and two disjoint
\* ones, in search order, and contains the subtrees of its nodes.
LEMMA Subtrees ==
  ASSUME NEW h, NEW b, Grown(h, b)
  PROVE  /\ h \in Trees /\ b[Null] = {} /\ b \in [OrNull -> SUBSET Nodes]
         /\ h.root \in OrNull /\ b[h.root] = Held(h)
         /\ \A n \in Nodes :
              /\ h.left[n] \in OrNull /\ h.right[n] \in OrNull /\ h.parent[n] \in OrNull
              /\ b[n] = {n} \cup b[h.left[n]] \cup b[h.right[n]] /\ b[n] \subseteq Nodes
              /\ n \notin b[h.left[n]] /\ n \notin b[h.right[n]]
              /\ b[h.left[n]] \cap b[h.right[n]] = {}
              /\ \A m \in b[h.left[n]] : m < n
              /\ \A m \in b[h.right[n]] : n < m
              /\ \A m \in b[n] : b[m] \subseteq b[n]
<1> DEFINE t == View(h, {})
<1>1. /\ h \in Trees /\ Rb!Grown(t, b) /\ t \in Rb!Trees /\ t.root = h.root /\ Rb!Placed(t) = Held(h)
      /\ \A m \in Nodes : t.kid[m]["left"] = h.left[m] /\ t.kid[m]["right"] = h.right[m]
  BY ViewFields, ViewPlaces DEF Grown
<1> HIDE DEF t
<1>2. /\ h.root \in OrNull
      /\ \A n \in Nodes : h.left[n] \in OrNull /\ h.right[n] \in OrNull /\ h.parent[n] \in OrNull
  BY <1>1 DEF Trees
<1>3. /\ b \in [OrNull -> SUBSET Nodes] /\ b[Null] = {} /\ b[h.root] = Held(h)
      /\ \A n \in Nodes : \A m \in b[n] : b[m] \subseteq b[n]
  BY <1>1, KeysAre DEF Rb!Grown, Rb!Spanned
<1>4. ASSUME NEW n \in Nodes
      PROVE  /\ b[n] = {n} \cup b[h.left[n]] \cup b[h.right[n]] /\ b[n] \subseteq Nodes
             /\ n \notin b[h.left[n]] /\ n \notin b[h.right[n]]
             /\ b[h.left[n]] \cap b[h.right[n]] = {}
  <2>1. /\ b[n] = {n} \cup b[t.kid[n]["left"]] \cup b[t.kid[n]["right"]] /\ b[n] \subseteq Nodes
        /\ n \notin b[t.kid[n]["left"]] /\ b[t.kid[n]["left"]] \cap b[t.kid[n]["right"]] = {}
    BY <1>1, RbAssumed, Rb!GrownSides, Sides
  <2>2. n \notin b[t.kid[n]["right"]]
    BY <1>1, RbAssumed, Rb!GrownSides, Sides
  <2> QED BY <1>1, <2>1, <2>2
<1>5. ASSUME NEW n \in Nodes
      PROVE  /\ \A m \in b[h.left[n]] : m < n
             /\ \A m \in b[h.right[n]] : n < m
  <2>1. \A s \in Rb!Side : \A m \in b[t.kid[n][s]] : Rb!Beyond(s, Keyed[m], Keyed[n])
    BY <1>1 DEF Rb!Grown, Rb!Spanned
  <2>2. b[h.left[n]] \subseteq Nodes /\ b[h.right[n]] \subseteq Nodes
    BY <1>4
  <2> QED BY <1>1, <2>1, <2>2, Sides, KeysAre
<1> QED BY <1>1, <1>2, <1>3, <1>4, <1>5

\* Parents and children agree, in the fields of the tree.
LEMMA Kin ==
  ASSUME NEW h, NEW b, Grown(h, b)
  PROVE  /\ \A n \in Nodes : \A c \in {h.left[n], h.right[n]} :
              c # Null => /\ h.parent[c] = n /\ c \in Held(h) /\ n \in Held(h) /\ c # h.root
                          /\ c # n /\ n \notin b[c] /\ h.left[n] # h.right[n]
         /\ \A n \in Held(h) : /\ h.parent[n] = Null <=> n = h.root
                               /\ b[n] \subseteq Held(h)
                               /\ h.parent[n] # Null => /\ h.parent[n] \in Held(h)
                                                        /\ \/ h.left[h.parent[n]] = n
                                                           \/ h.right[h.parent[n]] = n
                               /\ \A m \in b[n] \ {n} : h.parent[m] \in b[n]
         /\ \A n \in Nodes \ Held(h) : h.left[n] = Null /\ h.right[n] = Null
<1> DEFINE t == View(h, {})
<1>1. /\ h \in Trees /\ Rb!Grown(t, b) /\ t \in Rb!Trees /\ t.root = h.root /\ Rb!Placed(t) = Held(h)
      /\ \A m \in Nodes : t.kid[m]["left"] = h.left[m] /\ t.kid[m]["right"] = h.right[m]
      /\ \A m \in Nodes : t.parent[m] = IF m \in Held(h) THEN h.parent[m] ELSE m
  BY ViewFields, ViewPlaces DEF Grown
<1> HIDE DEF t
<1>2. Held(h) \subseteq Nodes /\ Null \notin Nodes
  BY NullIsNoNode DEF Held
<1>3. ASSUME NEW n \in Nodes, NEW s \in Rb!Side, t.kid[n][s] # Null
      PROVE  LET c == t.kid[n][s]
             IN  /\ h.parent[c] = n /\ c \in Held(h) /\ n \in Held(h) /\ c # h.root
                 /\ c # n /\ n \notin b[c] /\ t.kid[n][Rb!Opp(s)] # c
  <2> DEFINE c == t.kid[n][s]
  <2>1. c \in Nodes
    BY <1>1, <1>3, KeysAre DEF Rb!Trees, OrNull
  <2> HIDE DEF c
  <2>2. t.kid[n][s] = c
    BY DEF c
  <2>3. /\ c \in Rb!Placed(t) /\ n \in Rb!Placed(t) /\ c # n /\ t.parent[c] = n
        /\ t.kid[n][Rb!Opp(s)] # c /\ n \notin b[c] /\ c # t.root
    BY <1>1, <2>1, <2>2, RbAssumed, Rb!GrownKid
  <2> QED BY <1>1, <2>1, <2>3 DEF c
<1>4. ASSUME NEW n \in Nodes, NEW c \in {h.left[n], h.right[n]}, c # Null
      PROVE  /\ h.parent[c] = n /\ c \in Held(h) /\ n \in Held(h) /\ c # h.root
             /\ c # n /\ n \notin b[c] /\ h.left[n] # h.right[n]
  <2>1. CASE c = h.left[n]
    BY <1>1, <1>3, <1>4, <2>1, Sides
  <2>2. CASE c = h.right[n]
    BY <1>1, <1>3, <1>4, <2>2, Sides
  <2> QED BY <2>1, <2>2
<1>5. ASSUME NEW n \in Held(h)
      PROVE  /\ h.parent[n] = Null <=> n = h.root
             /\ h.parent[n] # Null => /\ h.parent[n] \in Held(h)
                                      /\ h.left[h.parent[n]] = n \/ h.right[h.parent[n]] = n
  <2>1. n \in Nodes /\ n \in Rb!Placed(t) /\ t.parent[n] = h.parent[n]
    BY <1>1, <1>2
  <2>2. /\ t.parent[n] = Null <=> n = t.root
        /\ n # t.root => /\ t.parent[n] \in Rb!Placed(t)
                         /\ Rb!SideOf(t, n, t.parent[n]) \in Rb!Side
                         /\ t.kid[t.parent[n]][Rb!SideOf(t, n, t.parent[n])] = n
    BY <1>1, <2>1, RbAssumed, Rb!GrownParent
  <2> QED BY <1>1, <1>2, <2>1, <2>2, Sides
<1>6. ASSUME NEW n \in Held(h)
      PROVE  b[n] \subseteq Held(h) /\ \A m \in b[n] \ {n} : h.parent[m] \in b[n]
  <2>1. n \in Nodes /\ n \in Rb!Placed(t)
    BY <1>1, <1>2
  <2>2. b[n] \subseteq Rb!Placed(t)
    BY <1>1, <2>1, RbAssumed, Rb!GrownMembers
  <2>3. \A m \in b[n] \ {n} : t.parent[m] \in b[n]
    BY <1>1, <2>1 DEF Rb!Grown, Rb!Spanned
  <2> QED BY <1>1, <1>2, <2>2, <2>3
<1>7. \A n \in Nodes \ Held(h) : h.left[n] = Null /\ h.right[n] = Null
  BY <1>4
<1> QED BY <1>4, <1>5, <1>6, <1>7

\* A subtree is what the lemmas about balances call one.
LEMMA SubtreeLinks ==
  ASSUME NEW h, NEW b, Grown(h, b), NEW n \in Nodes
  PROVE  Links(h, b[n], n) /\ n \in b[n] /\ b[n] \in SUBSET Nodes
<1>1. n \in b[n] /\ b[n] \subseteq Nodes
  BY Subtrees
<1>2. ASSUME NEW m \in b[n], NEW c \in {h.left[m], h.right[m]}, c # Null
      PROVE  c \in b[n] \ {n} /\ h.parent[c] = m /\ h.left[m] # h.right[m]
  <2>1. m \in Nodes /\ b[m] \subseteq b[n] /\ c \in OrNull /\ b[c] \subseteq b[m]
    BY <1>1, <1>2, Subtrees
  <2>2. c \in Nodes
    BY <1>2, <2>1 DEF OrNull
  <2>3. c \in b[n]
    BY <2>1, <2>2, Subtrees
  <2>4. h.parent[c] = m /\ m \notin b[c] /\ h.left[m] # h.right[m]
    BY <1>2, <2>1, Kin
  <2> QED BY <1>2, <2>3, <2>4
<1>3. \A m \in b[n] : h.left[m] = h.right[m] => h.left[m] = Null
  BY <1>2
<1> QED BY <1>1, <1>2, <1>3 DEF Links

-----------------------------------------------------------------------------
(* Rotations, and the hanging of the node that has come up *)

\* The node c takes the place of n below p, or at the root.
Over(k, p, n, c) ==
  IF p = Null THEN [k EXCEPT !.root = c]
  ELSE IF k.right[p] = n THEN [k EXCEPT !.right[p] = c] ELSE [k EXCEPT !.left[p] = c]

\* That is one assignment.
LEMMA OverFields ==
  ASSUME NEW k \in Trees, NEW p \in OrNull, NEW n \in Nodes, NEW c \in Nodes, NEW g, Over(k, p, n, c) = g
  PROVE  /\ g \in Trees /\ g.root = (IF p = Null THEN c ELSE k.root)
         /\ g.parent = k.parent /\ g.prev = k.prev /\ g.next = k.next
         /\ g.bf = k.bf /\ g.checked = k.checked
         /\ \A m \in Nodes : m # p => g.left[m] = k.left[m] /\ g.right[m] = k.right[m]
         /\ p # Null => /\ g.right[p] = IF k.right[p] = n THEN c ELSE k.right[p]
                        /\ g.left[p] = IF k.right[p] = n THEN k.left[p] ELSE c
<1>1. CASE p = Null
  BY <1>1, NullIsNoNode DEF Over, Trees, OrNull
<1>2. CASE p # Null /\ k.right[p] = n
  BY <1>2 DEF Over, Trees, OrNull
<1>3. CASE p # Null /\ k.right[p] # n
  BY <1>3 DEF Over, Trees, OrNull
<1> QED BY <1>1, <1>2, <1>3

\* The child of n at the side s.
Kid(h, n, s) == IF s = "left" THEN h.left[n] ELSE h.right[n]

\* The links of k are those of h after a rotation of n to the side s, except that
\* the parent p of n does not know yet that c has come up.
Turns(h, n, s, c, low, inner, outer, p, k) ==
  /\ Rb!Turn(View(h, {}), n, s, c, low, inner, outer, p)
  /\ h.parent[n] = p /\ k.root = h.root
  /\ \A m \in Nodes : k.parent[m] = IF m = inner THEN n ELSE IF m = n THEN c
                                    ELSE IF m = c THEN p ELSE h.parent[m]
  /\ \A m \in Nodes : Kid(k, m, s) = IF m = c THEN n ELSE Kid(h, m, s)
  /\ \A m \in Nodes : Kid(k, m, Rb!Opp(s)) = IF m = n THEN inner ELSE Kid(h, m, Rb!Opp(s))

\* The links of g are those of h, except that c has come up to the place of n.
Reshaped(h, b, n, g, c) ==
  /\ Held(g) = Held(h)
  /\ \E d : /\ Grown(g, d) /\ d[c] = b[n]
            /\ \A m \in OrNull \ b[n] : d[m] = b[m]

\* Once p knows, parents and children agree and the keys are in order again.
LEMMA TurnedOver ==
  ASSUME NEW h, NEW b, Grown(h, b), NEW n \in Nodes, NEW c \in Nodes, NEW s \in Rb!Side,
         NEW low, NEW inner, NEW outer, NEW p, NEW k \in Trees,
         Turns(h, n, s, c, low, inner, outer, p, k)
  PROVE  Reshaped(h, b, n, Over(k, p, n, c), c)
<1> DEFINE t == View(h, {})
           g == Over(k, p, n, c)
           u == View(g, {})
           d == Rb!TurnedSpan(b, n, c, low, inner)
<1>0. /\ Rb!Turn(t, n, s, c, low, inner, outer, p)
      /\ h.parent[n] = p /\ k.root = h.root
      /\ \A m \in Nodes : k.parent[m] = IF m = inner THEN n ELSE IF m = n THEN c
                                        ELSE IF m = c THEN p ELSE h.parent[m]
      /\ \A m \in Nodes : Kid(k, m, s) = IF m = c THEN n ELSE Kid(h, m, s)
      /\ \A m \in Nodes : Kid(k, m, Rb!Opp(s)) = IF m = n THEN inner ELSE Kid(h, m, Rb!Opp(s))
  BY DEF Turns
<1>1. /\ h \in Trees /\ Rb!Grown(t, b) /\ t \in Rb!Trees /\ t.root = h.root /\ t.red = {}
      /\ \A m \in Nodes : t.kid[m]["left"] = h.left[m] /\ t.kid[m]["right"] = h.right[m]
      /\ \A m \in Nodes : t.parent[m] = IF m \in Held(h) THEN h.parent[m] ELSE m
      /\ \A m \in Nodes : h.parent[m] # m
      /\ Rb!Placed(t) = Held(h)
  BY ViewFields, ViewPlaces DEF Grown
<1> HIDE DEF t
<1>2. /\ c # n /\ n \in Held(h) /\ c \in Held(h)
      /\ t.parent[c] = n /\ c # h.root /\ c # p /\ n # p
      /\ p \in OrNull /\ low \in OrNull /\ inner \in OrNull /\ outer \in OrNull
      /\ inner # n /\ inner # c /\ outer # n /\ outer # c /\ low # n /\ low # c
      /\ b[n] = {n} \cup b[low] \cup b[c] /\ b[n] \subseteq Nodes
  BY <1>0, <1>1, KeysAre, RbAssumed, Rb!TurnFacts
<1>3. /\ g \in Trees /\ g.root = (IF p = Null THEN c ELSE k.root)
      /\ g.parent = k.parent
      /\ \A m \in Nodes : m # p => g.left[m] = k.left[m] /\ g.right[m] = k.right[m]
      /\ p # Null => /\ g.right[p] = IF k.right[p] = n THEN c ELSE k.right[p]
                     /\ g.left[p] = IF k.right[p] = n THEN k.left[p] ELSE c
  <2>1. p \in OrNull
    BY <1>2
  <2> QED BY <2>1, OverFields
<1> HIDE DEF g
<1>4. \A m \in Nodes : g.parent[m] = IF m = inner THEN n ELSE IF m = n THEN c
                                     ELSE IF m = c THEN p ELSE h.parent[m]
  BY <1>0, <1>3
<1>5. p = Null <=> n = h.root
  BY <1>0, <1>2, Kin
<1>6. inner \in Nodes => inner \in Held(h)
  <2>1. t.kid[c][s] = inner /\ (s = "left" \/ s = "right")
    BY <1>0, Sides DEF Rb!Turn
  <2>2. inner \in {h.left[c], h.right[c]}
    BY <1>1, <2>1
  <2> QED BY <2>2, NullIsNoNode, Kin
<1>7. Held(g) = Held(h)
  <2>1. Null \notin Nodes
    BY NullIsNoNode
  <2> QED BY <1>0, <1>2, <1>3, <1>4, <1>5, <1>6, <2>1 DEF Held
<1>8. ASSUME NEW m \in Nodes PROVE g.parent[m] # m
  <2>1. h.parent[m] # m /\ c # n /\ c # p /\ inner # n
    BY <1>1, <1>2
  <2> QED BY <1>4, <2>1
<1>9. /\ u \in Rb!Trees /\ u.root = g.root /\ u.red = {}
      /\ \A m \in Nodes : u.kid[m]["left"] = g.left[m] /\ u.kid[m]["right"] = g.right[m]
      /\ \A m \in Nodes : u.parent[m] = IF m \in Held(g) THEN g.parent[m] ELSE m
      /\ \A a : Rb!Grown(u, a) <=> Grown(g, a)
  BY <1>3, <1>8, ViewFields, ViewPlaces
<1>10. \A m \in Nodes : /\ Kid(k, m, "left") = k.left[m] /\ Kid(k, m, "right") = k.right[m]
                         /\ t.kid[m]["left"] = Kid(h, m, "left")
                         /\ t.kid[m]["right"] = Kid(h, m, "right")
  BY <1>1 DEF Kid
<1>a. \A m \in Nodes : /\ Kid(k, m, s) = IF m = c THEN n ELSE t.kid[m][s]
                       /\ Kid(k, m, Rb!Opp(s)) = IF m = n THEN inner ELSE t.kid[m][Rb!Opp(s)]
  <2>1. \A m \in Nodes, q \in Rb!Side : t.kid[m][q] = Kid(h, m, q)
    BY <1>10, Sides
  <2>2. Rb!Opp(s) \in Rb!Side
    BY Sides
  <2> QED BY <1>0, <2>1, <2>2
<1> HIDE DEF u
<1>11. \A m \in Nodes : u.parent[m] = IF m = n THEN c ELSE IF m = c THEN p
                                      ELSE IF m = inner THEN n ELSE t.parent[m]
  <2> SUFFICES ASSUME NEW m \in Nodes
               PROVE  u.parent[m] = IF m = n THEN c ELSE IF m = c THEN p
                                    ELSE IF m = inner THEN n ELSE t.parent[m]
    OBVIOUS
  <2>1. /\ u.parent[m] = IF m \in Held(h) THEN g.parent[m] ELSE m
        /\ t.parent[m] = IF m \in Held(h) THEN h.parent[m] ELSE m
    BY <1>1, <1>7, <1>9
  <2>2. /\ m = inner => m \in Held(h)
        /\ n \in Held(h) /\ c \in Held(h) /\ c # n /\ inner # n /\ inner # c
    BY <1>2, <1>6
  <2> QED BY <1>4, <2>1, <2>2
<1>12. \A m \in Nodes, r \in Rb!Side : t.kid[m][r] = n => m = p
  <2>1. \A m \in Nodes, r \in Rb!Side : t.kid[m][r] = n => h.left[m] = n \/ h.right[m] = n
    BY <1>1, Sides
  <2> QED BY <1>0, <2>1, NullIsNoNode, Kin
<1>13. ASSUME NEW m \in Nodes \ {n, c}, NEW r \in Rb!Side
       PROVE  u.kid[m][r] = IF t.kid[m][r] = n THEN c ELSE t.kid[m][r]
  <2>2. k.left[m] = h.left[m] /\ k.right[m] = h.right[m]
    BY <1>1, <1>10, <1>a, Sides
  <2>3. CASE m # p
    <3>1. u.kid[m]["left"] = h.left[m] /\ u.kid[m]["right"] = h.right[m]
      BY <1>3, <1>9, <2>2, <2>3
    <3> QED BY <1>1, <1>12, <2>3, <3>1, Sides
  <2>4. CASE m = p
    <3>1. /\ g.right[m] = IF k.right[m] = n THEN c ELSE k.right[m]
          /\ g.left[m] = IF k.right[m] = n THEN k.left[m] ELSE c
      BY <1>3, <2>4, NullIsNoNode
    <3>2. h.left[m] = n \/ h.right[m] = n
      BY <1>0, <1>2, <2>4, Kin, NullIsNoNode
    <3>3. h.left[m] = n => h.right[m] # n
      BY Kin, NullIsNoNode
    <3> QED BY <1>1, <1>9, <2>2, <3>1, <3>2, <3>3, Sides
  <2> QED BY <2>3, <2>4
<1>14. /\ t.kid[n][Rb!Opp(s)] = c /\ t.kid[n][s] = low
       /\ t.kid[c][s] = inner /\ t.kid[c][Rb!Opp(s)] = outer
  BY <1>0 DEF Rb!Turn
<1>15. /\ u.kid[n]["left"] = Kid(k, n, "left") /\ u.kid[n]["right"] = Kid(k, n, "right")
       /\ u.kid[c]["left"] = Kid(k, c, "left") /\ u.kid[c]["right"] = Kid(k, c, "right")
  BY <1>2, <1>3, <1>9, <1>10
<1>16. /\ u.kid[n][s] = low /\ u.kid[n][Rb!Opp(s)] = inner
       /\ u.kid[c][s] = n /\ u.kid[c][Rb!Opp(s)] = outer
  <2>1. \A q \in Rb!Side : u.kid[n][q] = Kid(k, n, q) /\ u.kid[c][q] = Kid(k, c, q)
    BY <1>15, Sides
  <2>2. Rb!Opp(s) \in Rb!Side
    BY Sides
  <2> QED BY <1>2, <1>a, <1>14, <2>1, <2>2
<1>17. Rb!Turned(t, u, n, s, c, low, inner, outer, p)
  BY <1>0, <1>1, <1>3, <1>9, <1>11, <1>13, <1>16 DEF Rb!Turned
<1>18. Grown(g, d)
  BY <1>0, <1>1, <1>9, <1>17, RbAssumed, Rb!TurnedGrown
<1>19. d[c] = b[n] /\ \A m \in OrNull \ b[n] : d[m] = b[m]
  <2>1. b \in [OrNull -> SUBSET Nodes] /\ n \in b[n] /\ c \in b[n] /\ n \in OrNull /\ c \in OrNull
    <3>1. c \in b[c]
      BY Subtrees
    <3> QED BY <1>2, <3>1, Subtrees DEF OrNull
  <2> QED BY <1>2, <2>1 DEF Rb!TurnedSpan
<1> QED BY <1>7, <1>18, <1>19 DEF g, Reshaped

\* The links that a rotation to the right writes, and the hanging of the child.
LEMMA RightOver ==
  ASSUME NEW h, NEW b, Grown(h, b), NEW n \in Nodes, NEW c \in Nodes, h.left[n] = c,
         NEW k \in Trees, k.root = h.root, RotatedRight(h, n, c, k)
  PROVE  Reshaped(h, b, n, Over(k, h.parent[n], n, c), c)
<1> DEFINE t == View(h, {})
           low == h.right[n]
           inner == h.right[c]
           outer == h.left[c]
           p == h.parent[n]
<1>1. h \in Trees /\ \A m \in Nodes : t.kid[m]["left"] = h.left[m] /\ t.kid[m]["right"] = h.right[m]
  BY ViewFields DEF Grown
<1>2. t.parent[n] = p
  <2>1. n \in Held(h)
    BY NullIsNoNode, Kin
  <2> QED BY <1>1, <2>1, ViewFields
<1>3. Rb!Turn(t, n, "right", c, low, inner, outer, p)
  <2> HIDE DEF t
  <2> QED BY <1>1, <1>2, Sides DEF Rb!Turn
<1>4. /\ \A m \in Nodes : k.left[m] = IF m = n THEN inner ELSE h.left[m]
      /\ \A m \in Nodes : k.right[m] = IF m = c THEN n ELSE h.right[m]
      /\ \A m \in Nodes : k.parent[m] = IF m = inner THEN n ELSE IF m = n THEN c
                                        ELSE IF m = c THEN p ELSE h.parent[m]
  BY <1>1 DEF RotatedRight, Turned, Trees
<1>5. /\ \A m \in Nodes : Kid(k, m, "right") = IF m = c THEN n ELSE Kid(h, m, "right")
      /\ \A m \in Nodes : Kid(k, m, Rb!Opp("right")) = IF m = n THEN inner ELSE Kid(h, m, Rb!Opp("right"))
  BY <1>4, Sides DEF Kid
<1> HIDE DEF t, low, inner, outer
<1>6. Turns(h, n, "right", c, low, inner, outer, p, k)
  BY <1>3, <1>4, <1>5 DEF Turns, t
<1> QED BY <1>6, Sides, TurnedOver

\* The same to the left.
LEMMA LeftOver ==
  ASSUME NEW h, NEW b, Grown(h, b), NEW n \in Nodes, NEW c \in Nodes, h.right[n] = c,
         NEW k \in Trees, k.root = h.root, RotatedLeft(h, n, c, k)
  PROVE  Reshaped(h, b, n, Over(k, h.parent[n], n, c), c)
<1> DEFINE t == View(h, {})
           low == h.left[n]
           inner == h.left[c]
           outer == h.right[c]
           p == h.parent[n]
<1>1. h \in Trees /\ \A m \in Nodes : t.kid[m]["left"] = h.left[m] /\ t.kid[m]["right"] = h.right[m]
  BY ViewFields DEF Grown
<1>2. t.parent[n] = p
  <2>1. n \in Held(h)
    BY NullIsNoNode, Kin
  <2> QED BY <1>1, <2>1, ViewFields
<1>3. Rb!Turn(t, n, "left", c, low, inner, outer, p)
  <2> HIDE DEF t
  <2> QED BY <1>1, <1>2, Sides DEF Rb!Turn
<1>4. /\ \A m \in Nodes : k.right[m] = IF m = n THEN inner ELSE h.right[m]
      /\ \A m \in Nodes : k.left[m] = IF m = c THEN n ELSE h.left[m]
      /\ \A m \in Nodes : k.parent[m] = IF m = inner THEN n ELSE IF m = n THEN c
                                        ELSE IF m = c THEN p ELSE h.parent[m]
  BY <1>1 DEF RotatedLeft, Turned, Trees
<1>5. /\ \A m \in Nodes : Kid(k, m, "left") = IF m = c THEN n ELSE Kid(h, m, "left")
      /\ \A m \in Nodes : Kid(k, m, Rb!Opp("left")) = IF m = n THEN inner ELSE Kid(h, m, Rb!Opp("left"))
  BY <1>4, Sides DEF Kid
<1> HIDE DEF t, low, inner, outer
<1>6. Turns(h, n, "left", c, low, inner, outer, p, k)
  BY <1>3, <1>4, <1>5 DEF Turns, t
<1> QED BY <1>6, Sides, TurnedOver

-----------------------------------------------------------------------------
(* The balancing of a node *)

\* The root and the threads are the same.
SameRest(h, g) == g.root = h.root /\ g.prev = h.prev /\ g.next = h.next

\* A rotation leaves the root and the threads alone.
LEMMA TurnRightRest ==
  ASSUME NEW h \in Trees, NEW p, NEW c, NEW b
  PROVE  LET g == TurnRight(h, p, c, b).tree
         IN  g.root = h.root /\ g.prev = h.prev /\ g.next = h.next
BY DEF TurnRight, SetBf, SetParent, Trees

\* The same to the left.
LEMMA TurnLeftRest ==
  ASSUME NEW h \in Trees, NEW p, NEW c, NEW b
  PROVE  LET g == TurnLeft(h, p, c, b).tree
         IN  g.root = h.root /\ g.prev = h.prev /\ g.next = h.next
BY DEF TurnLeft, SetBf, SetParent, Trees

\* k is h after a rotation of n over c, and r says so.
TurnedTo(h, n, c, r) ==
  /\ r.tree \in Trees /\ r.node = c /\ r.bf \in Int /\ r.delta \in Int
  /\ r.tree.root = h.root /\ r.tree.prev = h.prev /\ r.tree.next = h.next

\* What _rotate_LL does to the links.
LEMMA RotateLLTurns ==
  ASSUME NEW h \in Trees, NEW n \in Nodes, NEW c \in Nodes, h.left[n] = c, c # n,
         NEW i \in Int, NEW j \in Int
  PROVE  LET r == RotateLL(h, n, i, j)
         IN  TurnedTo(h, n, c, r) /\ RotatedRight(h, n, c, r.tree)
<1> DEFINE b == LLBalance(i, j, h.left[c] # Null, h.right[c] # Null)
           r == TurnRight(h, n, c, b)
<1>1. b \in Balances
  BY LLBalanceIsInt
<1>2. RotateLL(h, n, i, j) = r
  BY DEF RotateLL
<1>a. SameRest(h, r.tree)
  BY TurnRightRest DEF SameRest
<1>b. TurnRight(h, n, c, b) = r
  OBVIOUS
<1> HIDE DEF b, r
<1>3. /\ r.tree \in Trees /\ r.node = c /\ r.bf = b.child /\ r.delta = b.delta
      /\ r.tree.left = [h.left EXCEPT ![n] = h.right[c]]
      /\ r.tree.right = [h.right EXCEPT ![c] = n]
      /\ r.tree.parent = Turned(h, n, c, h.right[c])
      /\ r.tree.bf = [h.bf EXCEPT ![n] = b.parent]
      /\ r.tree.checked = (h.checked /\ b.parent \in -1 .. 1)
  BY <1>1, <1>b, TurnRightFields
<1>4. r.tree.root = h.root /\ r.tree.prev = h.prev /\ r.tree.next = h.next
  BY <1>a DEF SameRest
<1>5. b.child \in Int /\ b.delta \in Int
  BY <1>1 DEF Balances
<1>6. TurnedTo(h, n, c, r) /\ RotatedRight(h, n, c, r.tree)
  BY <1>3, <1>4, <1>5 DEF TurnedTo, RotatedRight
<1> QED BY <1>2, <1>6

\* What _rotate_RR does to the links.
LEMMA RotateRRTurns ==
  ASSUME NEW h \in Trees, NEW n \in Nodes, NEW c \in Nodes, h.right[n] = c, c # n,
         NEW i \in Int, NEW j \in Int
  PROVE  LET r == RotateRR(h, n, i, j)
         IN  TurnedTo(h, n, c, r) /\ RotatedLeft(h, n, c, r.tree)
<1> DEFINE b == RRBalance(i, j, h.left[c] # Null, h.right[c] # Null)
           r == TurnLeft(h, n, c, b)
<1>1. b \in Balances
  BY RRBalanceIsInt
<1>2. RotateRR(h, n, i, j) = r
  BY DEF RotateRR
<1>a. SameRest(h, r.tree)
  BY TurnLeftRest DEF SameRest
<1>b. TurnLeft(h, n, c, b) = r
  OBVIOUS
<1> HIDE DEF b, r
<1>3. /\ r.tree \in Trees /\ r.node = c /\ r.bf = b.child /\ r.delta = b.delta
      /\ r.tree.right = [h.right EXCEPT ![n] = h.left[c]]
      /\ r.tree.left = [h.left EXCEPT ![c] = n]
      /\ r.tree.parent = Turned(h, n, c, h.left[c])
      /\ r.tree.bf = [h.bf EXCEPT ![n] = b.parent]
      /\ r.tree.checked = (h.checked /\ b.parent \in -1 .. 1)
  BY <1>1, <1>b, TurnLeftFields
<1>4. r.tree.root = h.root /\ r.tree.prev = h.prev /\ r.tree.next = h.next
  BY <1>a DEF SameRest
<1>5. b.child \in Int /\ b.delta \in Int
  BY <1>1 DEF Balances
<1>6. TurnedTo(h, n, c, r) /\ RotatedLeft(h, n, c, r.tree)
  BY <1>3, <1>4, <1>5 DEF TurnedTo, RotatedLeft
<1> QED BY <1>2, <1>6

\* r is a tree and the node that has come up to the place of n, whose parent is
\* still to be told.
Comes(h, b, n, r) ==
  /\ r.tree \in Trees /\ r.node \in Nodes
  /\ r.tree.root = h.root /\ r.tree.prev = h.prev /\ r.tree.next = h.next
  /\ Reshaped(h, b, n, Over(r.tree, h.parent[n], n, r.node), r.node)

\* It makes no difference what balance factors are stored.
LEMMA StoredComes ==
  ASSUME NEW h, NEW b, Grown(h, b), NEW n \in Nodes, NEW c \in Nodes, NEW r, TurnedTo(h, n, c, r),
         \/ h.left[n] = c /\ RotatedRight(h, n, c, r.tree)
         \/ h.right[n] = c /\ RotatedLeft(h, n, c, r.tree)
  PROVE  Comes(h, b, n, Stored(r))
<1> DEFINE k == SetBf(r.tree, c, r.bf)
<1>1. /\ k \in Trees /\ k.root = h.root /\ k.left = r.tree.left /\ k.right = r.tree.right
      /\ k.parent = r.tree.parent /\ k.prev = h.prev /\ k.next = h.next
  <2>1. r.tree \in Trees /\ r.bf \in Int /\ r.tree.root = h.root
        /\ r.tree.prev = h.prev /\ r.tree.next = h.next
    BY DEF TurnedTo
  <2>2. k.prev = r.tree.prev /\ k.next = r.tree.next
    BY <2>1 DEF SetBf, Trees
  <2> QED BY <2>1, <2>2, SetBfFields
<1>2. Stored(r).tree = k /\ Stored(r).node = c
  BY DEF Stored, TurnedTo
<1> HIDE DEF k
<1>3. CASE h.left[n] = c /\ RotatedRight(h, n, c, r.tree)
  <2>1. RotatedRight(h, n, c, k)
    BY <1>1, <1>3 DEF RotatedRight
  <2>2. Reshaped(h, b, n, Over(k, h.parent[n], n, c), c)
    BY <1>1, <1>3, <2>1, RightOver
  <2> QED BY <1>1, <1>2, <2>2 DEF Comes
<1>4. CASE h.right[n] = c /\ RotatedLeft(h, n, c, r.tree)
  <2>1. RotatedLeft(h, n, c, k)
    BY <1>1, <1>4 DEF RotatedLeft
  <2>2. Reshaped(h, b, n, Over(k, h.parent[n], n, c), c)
    BY <1>1, <1>4, <2>1, LeftOver
  <2> QED BY <1>1, <1>2, <2>2 DEF Comes
<1> QED BY <1>3, <1>4

\* A single rotation.
LEMMA SingleComes ==
  ASSUME NEW h, NEW b, Grown(h, b), NEW n \in Nodes, NEW i \in Int
  PROVE  /\ h.left[n] # Null => Comes(h, b, n, SingleLL(h, n, i))
         /\ h.right[n] # Null => Comes(h, b, n, SingleRR(h, n, i))
<1>1. h \in Trees /\ h.left[n] \in OrNull /\ h.right[n] \in OrNull
  BY DEF Grown, Trees
<1>2. ASSUME h.left[n] # Null PROVE Comes(h, b, n, SingleLL(h, n, i))
  <2> DEFINE c == h.left[n]
  <2>1. c \in Nodes /\ c # n /\ h.bf[c] \in Int
    BY <1>1, <1>2, Kin DEF OrNull, Trees
  <2>2. LET r == RotateLL(h, n, i, h.bf[c])
        IN  TurnedTo(h, n, c, r) /\ RotatedRight(h, n, c, r.tree)
    BY <1>1, <2>1, RotateLLTurns
  <2>3. Comes(h, b, n, Stored(RotateLL(h, n, i, h.bf[c])))
    BY <2>1, <2>2, StoredComes
  <2> QED BY <2>3 DEF SingleLL
<1>3. ASSUME h.right[n] # Null PROVE Comes(h, b, n, SingleRR(h, n, i))
  <2> DEFINE c == h.right[n]
  <2>1. c \in Nodes /\ c # n /\ h.bf[c] \in Int
    BY <1>1, <1>3, Kin DEF OrNull, Trees
  <2>2. LET r == RotateRR(h, n, i, h.bf[c])
        IN  TurnedTo(h, n, c, r) /\ RotatedLeft(h, n, c, r.tree)
    BY <1>1, <2>1, RotateRRTurns
  <2>3. Comes(h, b, n, Stored(RotateRR(h, n, i, h.bf[c])))
    BY <2>1, <2>2, StoredComes
  <2> QED BY <2>3 DEF SingleRR
<1> QED BY <1>2, <1>3

\* A rotation after another one within the same subtree.
LEMMA ComesAfter ==
  ASSUME NEW h, NEW b, NEW n \in Nodes, NEW k, NEW d, NEW q, Comes(k, d, n, q),
         Held(k) = Held(h), k.parent[n] = h.parent[n], SameRest(h, k),
         d[n] = b[n], \A m \in OrNull \ b[n] : d[m] = b[m]
  PROVE  Comes(h, b, n, q)
<1> DEFINE g == Over(q.tree, h.parent[n], n, q.node)
<1>1. Reshaped(k, d, n, g, q.node)
  BY DEF Comes
<1> HIDE DEF g
<1>2. Reshaped(h, b, n, g, q.node)
  <2>1. PICK e : Grown(g, e) /\ e[q.node] = d[n] /\ \A m \in OrNull \ d[n] : e[m] = d[m]
    BY <1>1 DEF Reshaped
  <2>2. e[q.node] = b[n] /\ \A m \in OrNull \ b[n] : e[m] = b[m]
    BY <2>1
  <2> QED BY <1>1, <2>1, <2>2 DEF Reshaped
<1> QED BY <1>2 DEF Comes, SameRest, g

\* _rotate_LR, with or without a grandchild to bring up.
LEMMA DoubleLRComes ==
  ASSUME NEW h, NEW b, Grown(h, b), NEW n \in Nodes, NEW i \in Int, h.left[n] # Null
  PROVE  Comes(h, b, n, RotateLR(h, n, i))
<1> DEFINE c == h.left[n]
           o == h.right[c]
<1>1. h \in Trees /\ c \in Nodes /\ c # n /\ h.bf[c] \in Int /\ o \in OrNull
  <2>1. h \in Trees
    BY DEF Grown
  <2>2. c \in Nodes /\ c # n
    BY <2>1, Kin DEF OrNull, Trees
  <2> QED BY <2>1, <2>2 DEF Trees
<1>2. h.left[n] = c /\ h.right[c] = o
  OBVIOUS
<1> HIDE DEF c, o
<1>3. CASE o = Null
  <2>1. [h EXCEPT !.left[n] = c] = h
    BY <1>1, <1>2 DEF Trees
  <2>2. i - 0 = i
    OBVIOUS
  <2>3. RotateLR(h, n, i) = Stored(RotateLL(h, n, i, h.bf[c]))
    BY <1>2, <1>3, <2>1, <2>2 DEF RotateLR, LLOver, Unrotated
  <2> DEFINE r == RotateLL(h, n, i, h.bf[c])
  <2>4. TurnedTo(h, n, c, r) /\ RotatedRight(h, n, c, r.tree)
    BY <1>1, <1>2, RotateLLTurns
  <2> HIDE DEF r
  <2>5. Comes(h, b, n, Stored(r))
    BY <1>1, <1>2, <2>4, StoredComes
  <2> QED BY <2>3, <2>5 DEF r
<1>4. CASE o # Null
  <2> DEFINE r == RotateRR(h, c, h.bf[c], h.bf[o])
             k == [r.tree EXCEPT !.left[n] = o]
             q == RotateLL(k, n, i - r.delta, r.bf)
  <2>1. o \in Nodes /\ h.bf[o] \in Int
    BY <1>1, <1>4 DEF OrNull, Trees
  <2>2. o # c /\ h.parent[c] = n /\ h.right[n] # c /\ n \notin b[c] /\ o \in b[c] /\ o # n
    <3>1. o # c /\ h.parent[c] = n /\ h.right[n] # c /\ n \notin b[c]
      BY <1>1, <1>2, <1>4, NullIsNoNode, Kin
    <3>2. o \in b[c]
      BY <1>1, <1>2, <2>1, Subtrees
    <3> QED BY <3>1, <3>2
  <2>3. TurnedTo(h, c, o, r) /\ RotatedLeft(h, c, o, r.tree)
    BY <1>1, <1>2, <2>1, <2>2, RotateRRTurns
  <2> HIDE DEF r
  <2>4. /\ r.tree \in Trees /\ r.node = o /\ r.bf \in Int /\ r.delta \in Int
        /\ r.tree.root = h.root /\ r.tree.prev = h.prev /\ r.tree.next = h.next
    BY <2>3 DEF TurnedTo
  <2>5. RotateLR(h, n, i) = Stored(q)
    BY <1>2, <1>4, <2>4 DEF RotateLR, LLOver, r
  <2>6. r.tree.right[n] = h.right[n]
    BY <1>1, <2>3 DEF RotatedLeft, Trees
  <2>7. r.tree.parent[n] = h.parent[n]
    <3>1. h.left[o] # n
      <4>1. h.left[o] = n => n \in b[o]
        BY <2>1, Subtrees
      <4>2. b[o] \subseteq b[c]
        BY <1>1, <2>2, Subtrees
      <4> QED BY <2>2, <4>1, <4>2
    <3> QED BY <1>1, <2>2, <2>3, <3>1 DEF RotatedLeft, Turned
  <2>8. k = Over(r.tree, n, c, o) /\ k.parent = r.tree.parent /\ k.left[n] = o /\ SameRest(h, k)
    <3>1. n # Null /\ r.tree.right[n] # c
      BY <2>2, <2>6, NullIsNoNode
    <3> QED BY <2>4, <3>1 DEF Over, SameRest, Trees
  <2>9. Reshaped(h, b, c, k, o)
    <3>1. Reshaped(h, b, c, Over(r.tree, h.parent[c], c, o), o)
      BY <1>1, <1>2, <2>1, <2>3, <2>4, LeftOver
    <3> QED BY <2>2, <2>8, <3>1
  <2> HIDE DEF k
  <2>10. PICK d : Grown(k, d) /\ d[o] = b[c] /\ \A m \in OrNull \ b[c] : d[m] = b[m]
    BY <2>9 DEF Reshaped
  <2>11. TurnedTo(k, n, o, q) /\ RotatedRight(k, n, o, q.tree)
    <3>1. k \in Trees /\ i - r.delta \in Int
      BY <2>4, <2>10 DEF Grown
    <3> QED BY <2>1, <2>2, <2>4, <2>8, <3>1, RotateLLTurns
  <2> HIDE DEF q
  <2>12. Comes(k, d, n, Stored(q))
    BY <2>1, <2>8, <2>10, <2>11, StoredComes
  <2>13. d[n] = b[n] /\ \A m \in OrNull \ b[n] : d[m] = b[m]
    <3>1. b[c] \subseteq b[n]
      BY <1>1, <1>2, Subtrees
    <3> QED BY <2>2, <2>10, <3>1 DEF OrNull
  <2>14. Comes(h, b, n, Stored(q))
    BY <2>7, <2>8, <2>9, <2>12, <2>13, ComesAfter DEF Reshaped
  <2> QED BY <2>5, <2>14
<1> QED BY <1>3, <1>4

\* _rotate_RL, with or without a grandchild to bring up.
LEMMA DoubleRLComes ==
  ASSUME NEW h, NEW b, Grown(h, b), NEW n \in Nodes, NEW i \in Int, h.right[n] # Null
  PROVE  Comes(h, b, n, RotateRL(h, n, i))
<1> DEFINE c == h.right[n]
           o == h.left[c]
<1>1. h \in Trees /\ c \in Nodes /\ c # n /\ h.bf[c] \in Int /\ o \in OrNull
  <2>1. h \in Trees
    BY DEF Grown
  <2>2. c \in Nodes /\ c # n
    BY <2>1, Kin DEF OrNull, Trees
  <2> QED BY <2>1, <2>2 DEF Trees
<1>2. h.right[n] = c /\ h.left[c] = o
  OBVIOUS
<1> HIDE DEF c, o
<1>3. CASE o = Null
  <2>1. [h EXCEPT !.right[n] = c] = h
    BY <1>1, <1>2 DEF Trees
  <2>2. i + 0 = i
    OBVIOUS
  <2>3. RotateRL(h, n, i) = Stored(RotateRR(h, n, i, h.bf[c]))
    BY <1>2, <1>3, <2>1, <2>2 DEF RotateRL, RROver, Unrotated
  <2> DEFINE r == RotateRR(h, n, i, h.bf[c])
  <2>4. TurnedTo(h, n, c, r) /\ RotatedLeft(h, n, c, r.tree)
    BY <1>1, <1>2, RotateRRTurns
  <2> HIDE DEF r
  <2>5. Comes(h, b, n, Stored(r))
    BY <1>1, <1>2, <2>4, StoredComes
  <2> QED BY <2>3, <2>5 DEF r
<1>4. CASE o # Null
  <2> DEFINE r == RotateLL(h, c, h.bf[c], h.bf[o])
             k == [r.tree EXCEPT !.right[n] = o]
             q == RotateRR(k, n, i + r.delta, r.bf)
  <2>1. o \in Nodes /\ h.bf[o] \in Int
    BY <1>1, <1>4 DEF OrNull, Trees
  <2>2. o # c /\ h.parent[c] = n /\ h.left[n] # c /\ n \notin b[c] /\ o \in b[c] /\ o # n
    <3>1. o # c /\ h.parent[c] = n /\ h.left[n] # c /\ n \notin b[c]
      BY <1>1, <1>2, <1>4, NullIsNoNode, Kin
    <3>2. o \in b[c]
      BY <1>1, <1>2, <2>1, Subtrees
    <3> QED BY <3>1, <3>2
  <2>3. TurnedTo(h, c, o, r) /\ RotatedRight(h, c, o, r.tree)
    BY <1>1, <1>2, <2>1, <2>2, RotateLLTurns
  <2> HIDE DEF r
  <2>4. /\ r.tree \in Trees /\ r.node = o /\ r.bf \in Int /\ r.delta \in Int
        /\ r.tree.root = h.root /\ r.tree.prev = h.prev /\ r.tree.next = h.next
    BY <2>3 DEF TurnedTo
  <2>5. RotateRL(h, n, i) = Stored(q)
    BY <1>2, <1>4, <2>4 DEF RotateRL, RROver, r
  <2>6. r.tree.right[n] = c
    BY <1>1, <1>2, <2>2, <2>3 DEF RotatedRight, Trees
  <2>7. r.tree.parent[n] = h.parent[n]
    <3>1. h.right[o] # n
      <4>1. h.right[o] = n => n \in b[o]
        BY <2>1, Subtrees
      <4>2. b[o] \subseteq b[c]
        BY <1>1, <2>2, Subtrees
      <4> QED BY <2>2, <4>1, <4>2
    <3> QED BY <1>1, <2>2, <2>3, <3>1 DEF RotatedRight, Turned
  <2>8. k = Over(r.tree, n, c, o) /\ k.parent = r.tree.parent /\ k.right[n] = o /\ SameRest(h, k)
    <3>1. n # Null /\ r.tree.right[n] = c
      BY <2>2, <2>6, NullIsNoNode
    <3> QED BY <2>4, <3>1 DEF Over, SameRest, Trees
  <2>9. Reshaped(h, b, c, k, o)
    <3>1. Reshaped(h, b, c, Over(r.tree, h.parent[c], c, o), o)
      BY <1>1, <1>2, <2>1, <2>3, <2>4, RightOver
    <3> QED BY <2>2, <2>8, <3>1
  <2> HIDE DEF k
  <2>10. PICK d : Grown(k, d) /\ d[o] = b[c] /\ \A m \in OrNull \ b[c] : d[m] = b[m]
    BY <2>9 DEF Reshaped
  <2>11. TurnedTo(k, n, o, q) /\ RotatedLeft(k, n, o, q.tree)
    <3>1. k \in Trees /\ i + r.delta \in Int
      BY <2>4, <2>10 DEF Grown
    <3> QED BY <2>1, <2>2, <2>4, <2>8, <3>1, RotateRRTurns
  <2> HIDE DEF q
  <2>12. Comes(k, d, n, Stored(q))
    BY <2>1, <2>8, <2>10, <2>11, StoredComes
  <2>13. d[n] = b[n] /\ \A m \in OrNull \ b[n] : d[m] = b[m]
    <3>1. b[c] \subseteq b[n]
      BY <1>1, <1>2, Subtrees
    <3> QED BY <2>2, <2>10, <3>1 DEF OrNull
  <2>14. Comes(h, b, n, Stored(q))
    BY <2>7, <2>8, <2>9, <2>12, <2>13, ComesAfter DEF Reshaped
  <2> QED BY <2>5, <2>14
<1> QED BY <1>3, <1>4

\* Nothing is rotated.
LEMMA StaysComes ==
  ASSUME NEW h, NEW b, Grown(h, b), NEW n \in Held(h), NEW i \in Int
  PROVE  Comes(h, b, n, [tree |-> SetBf(h, n, i), node |-> n])
<1> DEFINE k == SetBf(h, n, i)
           p == h.parent[n]
           g == Over(k, p, n, n)
<1>1. h \in Trees /\ n \in Nodes /\ p \in OrNull
  BY DEF Grown, Held, Trees
<1>2. /\ k \in Trees /\ k.root = h.root /\ k.left = h.left /\ k.right = h.right
      /\ k.parent = h.parent /\ k.prev = h.prev /\ k.next = h.next
  <2>1. k.prev = h.prev /\ k.next = h.next
    BY <1>1 DEF SetBf, Trees
  <2> QED BY <1>1, <2>1, SetBfFields
<1> HIDE DEF k
<1>3. /\ p = Null => n = h.root
      /\ p # Null => h.left[p] = n \/ h.right[p] = n
  BY Kin
<1>4. g.root = h.root /\ g.left = h.left /\ g.right = h.right /\ g.parent = h.parent
  <2>1. CASE p = Null
    BY <1>2, <1>3, <2>1 DEF Over, Trees
  <2>2. CASE p # Null /\ k.right[p] = n
    BY <1>2, <2>2 DEF Over, Trees
  <2>3. CASE p # Null /\ k.right[p] # n
    BY <1>2, <1>3, <2>3 DEF Over, Trees
  <2> QED BY <2>1, <2>2, <2>3
<1>5. g \in Trees
  BY <1>1, <1>2, OverFields
<1> HIDE DEF g
<1>6. View(g, {}) = View(h, {}) /\ Held(g) = Held(h)
  BY <1>4 DEF View, Held
<1>7. Grown(g, b)
  BY <1>4, <1>5, <1>6 DEF Grown
<1>8. Reshaped(h, b, n, g, n)
  BY <1>6, <1>7 DEF Reshaped
<1> QED BY <1>1, <1>2, <1>8 DEF Comes, g, k

\* What _balance_tree does to the links, whatever the node leans by.
LEMMA BalanceComes ==
  ASSUME NEW h, NEW b, Grown(h, b), NEW n \in Held(h), NEW i \in Int
  PROVE  Comes(h, b, n, BalanceTree(h, n, i))
<1> DEFINE d == h.bf[n] + i
<1>1. n \in Nodes /\ d \in Int
  BY DEF Grown, Held, Trees
<1>2. BalanceTree(h, n, i) =
        IF d < -1 /\ h.left[n] # Null
        THEN IF Balance(h, h.left[n]) <= 0 THEN SingleLL(h, n, d) ELSE RotateLR(h, n, d)
        ELSE IF d > 1 /\ h.right[n] # Null
        THEN IF Balance(h, h.right[n]) >= 0 THEN SingleRR(h, n, d) ELSE RotateRL(h, n, d)
        ELSE [tree |-> SetBf(h, n, d), node |-> n]
  BY DEF BalanceTree
<1> HIDE DEF d
<1>3. Comes(h, b, n, [tree |-> SetBf(h, n, d), node |-> n])
  BY <1>1, StaysComes
<1>4. h.left[n] # Null => Comes(h, b, n, SingleLL(h, n, d)) /\ Comes(h, b, n, RotateLR(h, n, d))
  BY <1>1, SingleComes, DoubleLRComes
<1>5. h.right[n] # Null => Comes(h, b, n, SingleRR(h, n, d)) /\ Comes(h, b, n, RotateRL(h, n, d))
  BY <1>1, SingleComes, DoubleRLComes
<1> QED BY <1>2, <1>3, <1>4, <1>5

\* What a pass of the loop does to the links: the same nodes are in the tree, in
\* search order, and one of the subtree has come up to the place of n.
LEMMA SettledShape ==
  ASSUME NEW h, NEW b, Grown(h, b), NEW n \in Held(h), NEW i \in Int
  PROVE  LET r == BalanceTree(h, n, i)
             g == Settled(h, n, r)
         IN  /\ r.tree \in Trees /\ r.node \in b[n] /\ Reshaped(h, b, n, g, r.node)
             /\ g = Over(r.tree, h.parent[n], n, r.node)
             /\ g.prev = h.prev /\ g.next = h.next /\ g.bf = r.tree.bf /\ g.checked = r.tree.checked
<1> DEFINE r == BalanceTree(h, n, i)
           p == h.parent[n]
           g == Over(r.tree, p, n, r.node)
<1>1. Comes(h, b, n, r)
  BY BalanceComes
<1> HIDE DEF r
<1>2. p = Null <=> n = h.root
  BY Kin
<1>3. Settled(h, n, r) = g
  BY <1>2 DEF Settled, Hung, Over
<1>4. n \in Nodes /\ p \in OrNull
  BY DEF Grown, Held, Trees
<1>5. r.tree \in Trees /\ r.node \in Nodes /\ r.tree.prev = h.prev /\ r.tree.next = h.next
  BY <1>1 DEF Comes
<1>6. g.prev = h.prev /\ g.next = h.next /\ g.bf = r.tree.bf /\ g.checked = r.tree.checked
  BY <1>4, <1>5, OverFields
<1>7. Reshaped(h, b, n, g, r.node)
  BY <1>1 DEF Comes
<1>8. r.node \in b[n]
  <2>1. PICK d : Grown(g, d) /\ d[r.node] = b[n]
    BY <1>7 DEF Reshaped
  <2> HIDE DEF g
  <2> QED BY <1>5, <2>1, Subtrees
<1> QED BY <1>3, <1>5, <1>6, <1>7, <1>8 DEF r

-----------------------------------------------------------------------------
(* The descent *)

\* Where the descent for k goes from n.
Way(h, k, n) == IF Cmp(n, k) > 0 THEN h.left[n] ELSE IF Cmp(n, k) < 0 THEN h.right[n] ELSE Null

\* The descent for k from n ends at x: it went the way to x from every node
\* above x.
Ends(h, b, k, n, x) ==
  /\ x \in b[n] /\ Way(h, k, x) = Null
  /\ \A z \in b[n] : x \in b[z] /\ x # z => x \in b[Way(h, k, z)]

\* A node below another one is on the way to no node above that.
LEMMA WayFacts ==
  ASSUME NEW h, NEW b, Grown(h, b), NEW k \in Nodes, NEW n \in Nodes, NEW c, Way(h, k, n) = c
  PROVE  /\ c \in OrNull /\ n \in b[n] /\ b[n] \subseteq Nodes
         /\ c = Null => Ends(h, b, k, n, n)
         /\ c # Null => c \in Nodes /\ \A x : Ends(h, b, k, n, x) <=> Ends(h, b, k, c, x)
<1>1. /\ h.left[n] \in OrNull /\ h.right[n] \in OrNull /\ b[Null] = {}
      /\ b[n] = {n} \cup b[h.left[n]] \cup b[h.right[n]] /\ b[n] \subseteq Nodes
      /\ n \notin b[h.left[n]] /\ n \notin b[h.right[n]] /\ b[h.left[n]] \cap b[h.right[n]] = {}
      /\ \A m \in b[n] : b[m] \subseteq b[n]
  BY Subtrees
<1>2. Null \in OrNull
  BY DEF OrNull
<1>3. c \in OrNull /\ (c = h.left[n] \/ c = h.right[n] \/ c = Null)
  BY <1>1, <1>2 DEF Way
<1>4. ASSUME NEW z \in b[n], z # n PROVE n \notin b[z] /\ b[z] \subseteq b[h.left[n]] \cup b[h.right[n]]
  <2>1. z \in b[h.left[n]] \/ z \in b[h.right[n]]
    BY <1>1, <1>4
  <2>2. ASSUME NEW y \in {h.left[n], h.right[n]}, z \in b[y] PROVE b[z] \subseteq b[y]
    <3>1. y \in Nodes
      BY <1>1, <2>2 DEF OrNull
    <3> QED BY <2>2, <3>1, Subtrees
  <2> QED BY <1>1, <2>1, <2>2
<1>5. c = Null => Ends(h, b, k, n, n)
  BY <1>1, <1>4 DEF Ends
<1>6. ASSUME c # Null, NEW x
      PROVE  c \in Nodes /\ (Ends(h, b, k, n, x) <=> Ends(h, b, k, c, x))
  <2>1. c \in Nodes /\ c \in b[c] /\ b[c] \subseteq b[n] /\ n \notin b[c]
    <3>1. c \in Nodes
      BY <1>3, <1>6 DEF OrNull
    <3>2. c \in b[c]
      BY <3>1, Subtrees
    <3> QED BY <1>1, <1>3, <1>6, <3>1, <3>2
  <2>2. ASSUME Ends(h, b, k, n, x) PROVE Ends(h, b, k, c, x)
    <3>1. x # n
      BY <1>6, <2>2 DEF Ends
    <3>2. x \in b[c]
      BY <1>1, <2>2, <3>1 DEF Ends
    <3> QED BY <2>1, <2>2, <3>2 DEF Ends
  <2>3. ASSUME Ends(h, b, k, c, x) PROVE Ends(h, b, k, n, x)
    <3>1. x \in b[c] /\ x \in b[n] /\ Way(h, k, x) = Null
      BY <2>1, <2>3 DEF Ends
    <3>2. ASSUME NEW z \in b[n], x \in b[z], x # z PROVE x \in b[Way(h, k, z)]
      <4>1. CASE z = n
        BY <3>1, <4>1
      <4>2. CASE z \in b[c]
        BY <2>3, <3>2, <4>2 DEF Ends
      <4>3. CASE z # n /\ z \notin b[c]
        <5>1. PICK y \in {h.left[n], h.right[n]} : z \in b[y]
          BY <1>1, <4>3
        <5>2. y # c /\ y \in Nodes
          BY <1>1, <4>3, <5>1 DEF OrNull
        <5>3. b[z] \subseteq b[y]
          BY <5>1, <5>2, Subtrees
        <5>4. b[y] \cap b[c] = {}
          BY <1>1, <1>3, <1>6, <5>1, <5>2
        <5> QED BY <3>1, <3>2, <5>3, <5>4
      <4> QED BY <4>1, <4>2, <4>3
    <3> QED BY <3>1, <3>2 DEF Ends
  <2> QED BY <2>1, <2>2, <2>3
<1> QED BY <1>1, <1>3, <1>5, <1>6

\* The descent from the root ends.
LEMMA LastSeenEnds ==
  ASSUME NEW h, NEW b, Grown(h, b), NEW k \in Nodes, h.root # Null
  PROVE  Ends(h, b, k, h.root, LastSeen(h, k))
<1> DEFINE F(f) == f = [n \in Nodes |-> LET next == IF Cmp(n, k) > 0 THEN h.left[n]
                                                     ELSE IF Cmp(n, k) < 0 THEN h.right[n] ELSE Null
                                         IN  IF next = Null THEN n ELSE f[next]]
           end(n) == CHOOSE x : Ends(h, b, k, n, x)
           w == CHOOSE f : F(f)
<1>1. \A f : F(f) <=> f = [n \in Nodes |-> IF Way(h, k, n) = Null THEN n ELSE f[Way(h, k, n)]]
  BY DEF Way
<1>2. ASSUME NEW n \in Nodes, NEW D, D = {m \in Nodes : \A x : ~Ends(h, b, k, m, x)}
      PROVE  n \notin D
  <2> SUFFICES ASSUME D # {} PROVE FALSE
    OBVIOUS
  <2>1. PICK m \in D : \A s \in Rb!Side : View(h, {}).kid[m][s] \notin D
    <3>1. D \subseteq Nodes /\ Rb!Grown(View(h, {}), b)
      BY <1>2 DEF Grown
    <3> QED BY <3>1, RbAssumed, Rb!TreeMin
  <2>2. m \in Nodes /\ \A x : ~Ends(h, b, k, m, x)
    BY <1>2
  <2>3. h.left[m] \notin D /\ h.right[m] \notin D
    BY <2>1, <2>2, Sides, ViewFields DEF Grown
  <2>4. Way(h, k, m) # Null
    BY <2>2, WayFacts
  <2>5. Way(h, k, m) \in Nodes /\ \A x : ~Ends(h, b, k, Way(h, k, m), x)
    BY <2>2, <2>4, WayFacts
  <2>6. Way(h, k, m) \in D
    BY <1>2, <2>5
  <2> QED BY <2>3, <2>4, <2>6 DEF Way
<1>3. \A n \in Nodes : Ends(h, b, k, n, end(n))
  BY <1>2
<1>4. \A n \in Nodes : Way(h, k, n) # Null => end(n) = end(Way(h, k, n)) /\ Way(h, k, n) \in Nodes
  <2> SUFFICES ASSUME NEW n \in Nodes, Way(h, k, n) # Null
               PROVE  end(n) = end(Way(h, k, n)) /\ Way(h, k, n) \in Nodes
    OBVIOUS
  <2>1. \A x : Ends(h, b, k, n, x) <=> Ends(h, b, k, Way(h, k, n), x)
    BY WayFacts
  <2>2. Way(h, k, n) \in Nodes
    BY WayFacts
  <2> QED BY <2>1, <2>2
<1> HIDE DEF F
<1>5. \A n \in Nodes : Way(h, k, n) = Null => end(n) = n
  <2> SUFFICES ASSUME NEW n \in Nodes, Way(h, k, n) = Null PROVE end(n) = n
    OBVIOUS
  <2> DEFINE x == end(n)
  <2>1. Ends(h, b, k, n, x)
    BY <1>3
  <2> HIDE DEF x
  <2>2. n \in b[n] /\ b[Null] = {}
    BY Subtrees
  <2> QED BY <2>1, <2>2 DEF Ends, x
<1> HIDE DEF end
<1>6. F([n \in Nodes |-> end(n)])
  <2>1. [n \in Nodes |-> end(n)]
          = [n \in Nodes |-> IF Way(h, k, n) = Null THEN n ELSE [m \in Nodes |-> end(m)][Way(h, k, n)]]
    BY <1>4, <1>5
  <2> QED BY <1>1, <2>1
<1>7. F(w)
  BY <1>6
<1> HIDE DEF w
<1>8. /\ w = [n \in Nodes |-> w[n]]
      /\ \A n \in Nodes : w[n] = IF Way(h, k, n) = Null THEN n ELSE w[Way(h, k, n)]
  BY <1>1, <1>7
<1>9. ASSUME NEW D, D = {m \in Nodes : w[m] # end(m)} PROVE D = {}
  <2> SUFFICES ASSUME D # {} PROVE FALSE
    OBVIOUS
  <2>1. PICK m \in D : \A s \in Rb!Side : View(h, {}).kid[m][s] \notin D
    <3>1. D \subseteq Nodes /\ Rb!Grown(View(h, {}), b)
      BY <1>9 DEF Grown
    <3> QED BY <3>1, RbAssumed, Rb!TreeMin
  <2>2. m \in Nodes /\ w[m] # end(m)
    BY <1>9
  <2>3. h.left[m] \notin D /\ h.right[m] \notin D
    BY <2>1, <2>2, Sides, ViewFields DEF Grown
  <2>4. Way(h, k, m) # Null
    BY <1>5, <1>8, <2>2
  <2>5. Way(h, k, m) \in Nodes /\ w[Way(h, k, m)] # end(Way(h, k, m))
    BY <1>4, <1>8, <2>2, <2>4
  <2> QED BY <1>9, <2>3, <2>4, <2>5 DEF Way
<1>10. h.root \in Nodes /\ w[h.root] = end(h.root)
  <2>1. h.root \in Nodes
    BY Subtrees DEF OrNull
  <2> QED BY <1>9, <2>1
<1>11. LastSeen(h, k) = w[h.root]
  BY DEF LastSeen, w, F
<1> QED BY <1>3, <1>10, <1>11

\* What the descent has found: the node k if it is in the tree, and else the node
\* below which k belongs.
LEMMA LastSeenFound ==
  ASSUME NEW h, NEW b, Grown(h, b), NEW k \in Nodes, NEW p, LastSeen(h, k) = p
  PROVE  /\ h.root = Null <=> p = Null
         /\ p # Null => p \in Held(h) /\ p \in Nodes
         /\ k \in Held(h) <=> p = k
         /\ p # Null => Way(h, k, p) = Null
         /\ \A m \in Nodes : /\ p \in b[h.left[m]] => k < m
                             /\ p \in b[h.right[m]] => m < k
<1>1. /\ b[Null] = {} /\ b[h.root] = Held(h) /\ h.root \in OrNull /\ Null \notin Nodes
      /\ Held(h) \subseteq Nodes
  BY Subtrees, NullIsNoNode DEF Held
<1>2. CASE h.root = Null
  <2>1. p = Null
    BY <1>2 DEF LastSeen
  <2>2. \A m \in Nodes : p \notin b[h.left[m]] /\ p \notin b[h.right[m]]
    <3> SUFFICES ASSUME NEW m \in Nodes PROVE p \notin b[h.left[m]] /\ p \notin b[h.right[m]]
      OBVIOUS
    <3>1. b[h.left[m]] \subseteq Nodes /\ b[h.right[m]] \subseteq Nodes
      BY Subtrees
    <3> QED BY <1>1, <2>1, <3>1
  <2> QED BY <1>1, <1>2, <2>1, <2>2
<1>3. CASE h.root # Null
  <2>1. Ends(h, b, k, h.root, p)
    BY <1>3, LastSeenEnds
  <2>2. /\ p \in Held(h) /\ p \in Nodes /\ p # Null /\ Way(h, k, p) = Null
        /\ \A z \in Held(h) : p \in b[z] /\ p # z => p \in b[Way(h, k, z)]
    BY <1>1, <2>1 DEF Ends
  <2>3. ASSUME NEW m \in Nodes
        PROVE  /\ p \in b[h.left[m]] => k < m
               /\ p \in b[h.right[m]] => m < k
    <3>1. /\ b[m] = {m} \cup b[h.left[m]] \cup b[h.right[m]]
          /\ m \notin b[h.left[m]] /\ m \notin b[h.right[m]] /\ b[h.left[m]] \cap b[h.right[m]] = {}
      BY Subtrees
    <3>2. ASSUME p \in b[h.left[m]] \/ p \in b[h.right[m]]
          PROVE  p # m /\ p \in b[Way(h, k, m)]
      <4>1. m \in Held(h)
        <5>1. h.left[m] # Null \/ h.right[m] # Null
          BY <1>1, <3>2
        <5> QED BY <5>1, Kin
      <4> QED BY <2>2, <3>1, <3>2, <4>1
    <3>3. k \in Int /\ m \in Int
      BY KeysAre
    <3> QED BY <1>1, <3>1, <3>2, <3>3 DEF Way, Cmp
  <2>4. ASSUME k \in Held(h) PROVE p = k
    <3> DEFINE D == {m \in Held(h) : k \in b[m] /\ p \in b[m]}
               t == View(h, {})
    <3>1. h.root \in D /\ D \subseteq Nodes
      <4>1. h.root \in b[h.root]
        BY <1>1, <1>3, Subtrees DEF OrNull
      <4> QED BY <1>1, <2>2, <2>4, <4>1
    <3>2. PICK m \in D : \A s \in Rb!Side : t.kid[m][s] \notin D
      <4>1. Rb!Grown(t, b)
        BY DEF Grown
      <4> HIDE DEF D, t
      <4> QED BY <3>1, <4>1, RbAssumed, Rb!TreeMin
    <3>3. m \in Nodes /\ h.left[m] \notin D /\ h.right[m] \notin D /\ m \in Held(h)
          /\ k \in b[m] /\ p \in b[m]
      BY <1>1, <3>2, Sides, ViewFields DEF Grown
    <3>4. ASSUME NEW y \in {h.left[m], h.right[m]} PROVE ~(k \in b[y] /\ p \in b[y])
      <4>1. y # Null => y \in Held(h)
        BY <3>3, Kin
      <4> QED BY <1>1, <3>3, <3>4, <4>1
    <3> HIDE DEF D, t
    <3>5. /\ b[m] = {m} \cup b[h.left[m]] \cup b[h.right[m]]
          /\ \A x \in b[h.left[m]] : x < m
          /\ \A x \in b[h.right[m]] : m < x
      BY <3>3, Subtrees
    <3>6. k \in Int /\ m \in Int
      BY <3>3, KeysAre
    <3>7. CASE k = m
      <4>1. Way(h, k, m) = Null
        BY <3>6, <3>7 DEF Way, Cmp
      <4> QED BY <1>1, <2>2, <3>3, <3>7, <4>1
    <3>8. CASE k # m
      <4>1. PICK y \in {h.left[m], h.right[m]} : k \in b[y]
        BY <3>3, <3>5, <3>8
      <4>2. Way(h, k, m) = y
        BY <3>4, <3>5, <3>6, <4>1 DEF Way, Cmp
      <4>3. p = m
        BY <2>2, <3>3, <3>4, <4>1, <4>2
      <4>4. y = Null
        BY <2>2, <4>2, <4>3
      <4> QED BY <1>1, <4>1, <4>4
    <3> QED BY <3>7, <3>8
  <2> QED BY <1>3, <2>2, <2>3, <2>4
<1> QED BY <1>2, <1>3

-----------------------------------------------------------------------------
(* The linking of a new leaf *)

\* The threads of g are those of h with k between q and r.
Between(h, g, k, q, r) ==
  /\ \A m \in Nodes : g.next[m] = IF m = k THEN r ELSE IF m = q THEN k ELSE h.next[m]
  /\ \A m \in Nodes : g.prev[m] = IF m = k THEN q ELSE IF m = r THEN k ELSE h.prev[m]

\* An assignment to a field keeps the types.
LEMMA AssignedStays ==
  ASSUME NEW h \in Trees, NEW k \in Nodes, NEW v \in OrNull, NEW i \in Int
  PROVE  /\ [h EXCEPT !.left[k] = v] \in Trees /\ [h EXCEPT !.right[k] = v] \in Trees
         /\ [h EXCEPT !.parent[k] = v] \in Trees /\ [h EXCEPT !.prev[k] = v] \in Trees
         /\ [h EXCEPT !.next[k] = v] \in Trees /\ [h EXCEPT !.bf[k] = i] \in Trees
BY DEF Trees

\* What avl_insert writes when it links k below p.
LEMMA LinkWrites ==
  ASSUME NEW h \in Trees, NEW k \in Nodes, NEW p \in OrNull, p # k,
         p # Null => h.prev[p] # k /\ h.next[p] # k /\ h.prev[p] # p /\ h.next[p] # p
  PROVE  LET g == Link(h, k, p)
         IN  /\ g \in Trees /\ g.root = IF p = Null THEN k ELSE h.root
             /\ \A m \in Nodes : g.parent[m] = IF m = k THEN p ELSE h.parent[m]
             /\ \A m \in Nodes : g.left[m] = IF m = k THEN Null ELSE IF m = p /\ k < p THEN k ELSE h.left[m]
             /\ \A m \in Nodes : g.right[m] = IF m = k THEN Null ELSE IF m = p /\ ~(k < p) THEN k ELSE h.right[m]
             /\ \A m \in Nodes : g.bf[m] = IF m = k THEN 0 ELSE h.bf[m]
             /\ g.checked = h.checked
             /\ Between(h, g, k, IF p = Null THEN Null ELSE IF k < p THEN h.prev[p] ELSE p,
                                 IF p = Null THEN Null ELSE IF k < p THEN p ELSE h.next[p])
<1> DEFINE e == Cleared(h, k, p)
           g == Link(h, k, p)
<1>1. Null \notin Nodes /\ Null \in OrNull /\ Nodes \subseteq OrNull /\ k \in Int /\ k # Null
  BY KeysAre, NullIsNoNode DEF OrNull
<1>2. /\ e \in Trees /\ e.root = h.root /\ e.checked = h.checked
      /\ e.parent = [h.parent EXCEPT ![k] = p] /\ e.left = [h.left EXCEPT ![k] = Null]
      /\ e.right = [h.right EXCEPT ![k] = Null] /\ e.bf = [h.bf EXCEPT ![k] = 0]
      /\ e.next = [h.next EXCEPT ![k] = Null] /\ e.prev = [h.prev EXCEPT ![k] = Null]
  <2> DEFINE f == [h EXCEPT !.parent[k] = p, !.bf[k] = 0, !.left[k] = Null]
  <2>1. e = [f EXCEPT !.right[k] = Null, !.prev[k] = Null, !.next[k] = Null]
    BY DEF Cleared
  <2>2. /\ f \in Trees /\ f.root = h.root /\ f.checked = h.checked
        /\ f.parent = [h.parent EXCEPT ![k] = p] /\ f.left = [h.left EXCEPT ![k] = Null]
        /\ f.bf = [h.bf EXCEPT ![k] = 0] /\ f.right = h.right
        /\ f.next = h.next /\ f.prev = h.prev
    <3>1. /\ f.root = h.root /\ f.checked = h.checked
          /\ f.parent = [h.parent EXCEPT ![k] = p] /\ f.left = [h.left EXCEPT ![k] = Null]
          /\ f.bf = [h.bf EXCEPT ![k] = 0] /\ f.right = h.right
          /\ f.next = h.next /\ f.prev = h.prev
      BY DEF Trees
    <3>2. f \in Trees
      <4> DEFINE f1 == [h EXCEPT !.parent[k] = p]
                 f2 == [f1 EXCEPT !.bf[k] = 0]
      <4>0. 0 \in Int
        OBVIOUS
      <4>1. f = [f2 EXCEPT !.left[k] = Null]
        OBVIOUS
      <4> HIDE DEF f
      <4>2. f1 \in Trees
        BY <4>0, AssignedStays
      <4> HIDE DEF f1
      <4>3. f2 \in Trees
        BY <1>1, <4>0, <4>2, AssignedStays
      <4> HIDE DEF f2
      <4> QED BY <1>1, <4>1, <4>3, AssignedStays
    <3> QED BY <3>1, <3>2
  <2> HIDE DEF e, f
  <2>3. /\ e.root = f.root /\ e.checked = f.checked
        /\ e.right = [f.right EXCEPT ![k] = Null] /\ e.prev = [f.prev EXCEPT ![k] = Null]
        /\ e.next = [f.next EXCEPT ![k] = Null] /\ e.left = f.left
        /\ e.parent = f.parent /\ e.bf = f.bf
    BY <2>1, <2>2 DEF Trees
  <2>4. e \in Trees
    <3> DEFINE f1 == [f EXCEPT !.right[k] = Null]
               f2 == [f1 EXCEPT !.prev[k] = Null]
    <3>1. e = [f2 EXCEPT !.next[k] = Null]
      BY <2>1
    <3>2. f1 \in Trees
      BY <1>1, <2>2, AssignedStays
    <3> HIDE DEF f1
    <3>3. f2 \in Trees
      BY <1>1, <3>2, AssignedStays
    <3> HIDE DEF f2
    <3> QED BY <1>1, <3>1, <3>3, AssignedStays
  <2> QED BY <2>2, <2>3, <2>4
<1> HIDE DEF e
<1>3. CASE p = Null
  <2>1. g = [e EXCEPT !.root = k]
    BY <1>3 DEF Link, e
  <2> HIDE DEF g
  <2>2. /\ g \in Trees /\ g.root = k /\ g.checked = e.checked /\ g.parent = e.parent /\ g.left = e.left
        /\ g.right = e.right /\ g.bf = e.bf /\ g.next = e.next /\ g.prev = e.prev
    BY <1>1, <1>2, <2>1 DEF Trees
  <2>3. Between(h, g, k, Null, Null)
    BY <1>1, <1>2, <2>2 DEF Trees, Between
  <2> QED BY <1>1, <1>2, <1>3, <2>2, <2>3 DEF Trees, g
<1>4. CASE p # Null /\ k < p
  <2> DEFINE q == h.prev[p]
             f == [e EXCEPT !.left[p] = k, !.next[k] = p, !.prev[k] = q, !.prev[p] = k]
  <2>0. p \in Nodes /\ p \in Int /\ p # k /\ q \in OrNull /\ q # k /\ q # p
    BY <1>1, <1>4, KeysAre DEF Trees, OrNull
  <2>1. e.prev[p] = q
    BY <1>2, <2>0 DEF Trees
  <2>2. g = IF q = Null THEN f ELSE [f EXCEPT !.next[q] = k]
    BY <1>1, <1>4, <2>0, <2>1 DEF Link, LinkBefore, Cmp, e
  <2> HIDE DEF g, q
  <2>3. /\ f \in Trees /\ f.root = h.root /\ f.checked = h.checked /\ f.parent = e.parent
        /\ f.left = [e.left EXCEPT ![p] = k] /\ f.right = e.right /\ f.bf = e.bf
        /\ f.next = [e.next EXCEPT ![k] = p] /\ f.prev = [e.prev EXCEPT ![k] = q, ![p] = k]
    BY SMTT(30), <1>1, <1>2, <2>0 DEF Trees
  <2> HIDE DEF f
  <2>4. /\ g \in Trees /\ g.root = h.root /\ g.checked = h.checked /\ g.parent = e.parent
        /\ g.left = f.left /\ g.right = e.right /\ g.bf = e.bf /\ g.prev = f.prev
        /\ \A m \in Nodes : g.next[m] = IF m = q THEN k ELSE f.next[m]
    <3>1. CASE q = Null
      BY <1>1, <2>2, <2>3, <3>1
    <3>2. CASE q # Null
      <4>1. q \in Nodes /\ g = [f EXCEPT !.next[q] = k]
        BY <2>0, <2>2, <3>2 DEF OrNull
      <4> QED BY SMTT(30), <1>1, <2>3, <4>1 DEF Trees
    <3> QED BY <3>1, <3>2
  <2>5. Between(h, g, k, q, p)
    <3>1. \A m \in Nodes : f.next[m] = IF m = k THEN p ELSE h.next[m]
      BY <1>2, <2>3 DEF Trees
    <3>2. \A m \in Nodes : f.prev[m] = IF m = k THEN q ELSE IF m = p THEN k ELSE h.prev[m]
      BY <1>2, <2>0, <2>3 DEF Trees
    <3> QED BY <2>0, <2>4, <3>1, <3>2 DEF Between
  <2>6. /\ \A m \in Nodes : g.parent[m] = IF m = k THEN p ELSE h.parent[m]
        /\ \A m \in Nodes : g.left[m] = IF m = k THEN Null ELSE IF m = p /\ k < p THEN k ELSE h.left[m]
        /\ \A m \in Nodes : g.right[m] = IF m = k THEN Null ELSE h.right[m]
        /\ \A m \in Nodes : g.bf[m] = IF m = k THEN 0 ELSE h.bf[m]
    BY <1>2, <1>4, <2>0, <2>3, <2>4 DEF Trees
  <2> QED BY <1>4, <2>4, <2>5, <2>6 DEF g, q
<1>5. CASE p # Null /\ ~(k < p)
  <2> DEFINE q == h.next[p]
             f == [e EXCEPT !.right[p] = k, !.prev[k] = p, !.next[k] = q, !.next[p] = k]
  <2>0. p \in Nodes /\ p \in Int /\ p # k /\ q \in OrNull /\ q # k /\ q # p
    BY <1>1, <1>5, KeysAre DEF Trees, OrNull
  <2>1. e.next[p] = q
    BY <1>2, <2>0 DEF Trees
  <2>2. g = IF q = Null THEN f ELSE [f EXCEPT !.prev[q] = k]
    BY <1>1, <1>5, <2>0, <2>1 DEF Link, LinkAfter, Cmp, e
  <2> HIDE DEF g, q
  <2>3. /\ f \in Trees /\ f.root = h.root /\ f.checked = h.checked /\ f.parent = e.parent
        /\ f.right = [e.right EXCEPT ![p] = k] /\ f.left = e.left /\ f.bf = e.bf
        /\ f.prev = [e.prev EXCEPT ![k] = p] /\ f.next = [e.next EXCEPT ![k] = q, ![p] = k]
    BY SMTT(30), <1>1, <1>2, <2>0 DEF Trees
  <2> HIDE DEF f
  <2>4. /\ g \in Trees /\ g.root = h.root /\ g.checked = h.checked /\ g.parent = e.parent
        /\ g.right = f.right /\ g.left = e.left /\ g.bf = e.bf /\ g.next = f.next
        /\ \A m \in Nodes : g.prev[m] = IF m = q THEN k ELSE f.prev[m]
    <3>1. CASE q = Null
      BY <1>1, <2>2, <2>3, <3>1
    <3>2. CASE q # Null
      <4>1. q \in Nodes /\ g = [f EXCEPT !.prev[q] = k]
        BY <2>0, <2>2, <3>2 DEF OrNull
      <4> QED BY SMTT(30), <1>1, <2>3, <4>1 DEF Trees
    <3> QED BY <3>1, <3>2
  <2>5. Between(h, g, k, p, q)
    <3>1. \A m \in Nodes : f.prev[m] = IF m = k THEN p ELSE h.prev[m]
      BY <1>2, <2>3 DEF Trees
    <3>2. \A m \in Nodes : f.next[m] = IF m = k THEN q ELSE IF m = p THEN k ELSE h.next[m]
      BY <1>2, <2>0, <2>3 DEF Trees
    <3> QED BY <2>0, <2>4, <3>1, <3>2 DEF Between
  <2>6. /\ \A m \in Nodes : g.parent[m] = IF m = k THEN p ELSE h.parent[m]
        /\ \A m \in Nodes : g.left[m] = IF m = k THEN Null ELSE h.left[m]
        /\ \A m \in Nodes : g.right[m] = IF m = k THEN Null ELSE IF m = p /\ ~(k < p) THEN k ELSE h.right[m]
        /\ \A m \in Nodes : g.bf[m] = IF m = k THEN 0 ELSE h.bf[m]
    BY <1>2, <1>5, <2>0, <2>3, <2>4 DEF Trees
  <2> QED BY <1>5, <2>4, <2>5, <2>6 DEF g, q
<1> QED BY <1>3, <1>4, <1>5

\* The links of g are those of h with the leaf k below p.
Linked(h, g, k, p) ==
  /\ g \in Trees /\ g.root = IF p = Null THEN k ELSE h.root
  /\ \A m \in Nodes : g.parent[m] = IF m = k THEN p ELSE h.parent[m]
  /\ \A m \in Nodes : g.left[m] = IF m = k THEN Null ELSE IF m = p /\ k < p THEN k ELSE h.left[m]
  /\ \A m \in Nodes : g.right[m] = IF m = k THEN Null ELSE IF m = p /\ ~(k < p) THEN k ELSE h.right[m]

\* With a leaf where the descent has ended a search tree is one again.
LEMMA LinkedGrown ==
  ASSUME NEW h, NEW b, Grown(h, b), NEW k \in Nodes, k \notin Held(h),
         NEW p, LastSeen(h, k) = p, NEW g, Linked(h, g, k, p)
  PROVE  Held(g) = Held(h) \cup {k} /\ \E d : Grown(g, d)
<1> DEFINE reds == IF p = Null THEN {} ELSE {k}
           t == View(h, {})
           u == View(g, reds)
<1>1. /\ p # k /\ (h.root = Null <=> p = Null)
      /\ p # Null => p \in Held(h) /\ p \in Nodes /\ Way(h, k, p) = Null
      /\ \A m \in Nodes : /\ p \in b[h.left[m]] => k < m
                          /\ p \in b[h.right[m]] => m < k
      /\ Null \notin Nodes
  BY LastSeenFound, NullIsNoNode
<1>2. /\ h \in Trees /\ Rb!Grown(t, b) /\ t.root = h.root /\ t.red = {}
      /\ \A m \in Nodes : t.kid[m]["left"] = h.left[m] /\ t.kid[m]["right"] = h.right[m]
      /\ \A m \in Nodes : t.parent[m] = IF m \in Held(h) THEN h.parent[m] ELSE m
      /\ \A m \in Nodes : h.parent[m] # m
      /\ Rb!Placed(t) = Held(h)
  BY ViewFields, ViewPlaces DEF Grown
<1>3. /\ g \in Trees /\ g.root = (IF p = Null THEN k ELSE h.root)
      /\ \A m \in Nodes : g.parent[m] = IF m = k THEN p ELSE h.parent[m]
      /\ \A m \in Nodes : g.left[m] = IF m = k THEN Null ELSE IF m = p /\ k < p THEN k ELSE h.left[m]
      /\ \A m \in Nodes : g.right[m] = IF m = k THEN Null ELSE IF m = p /\ ~(k < p) THEN k ELSE h.right[m]
  BY DEF Linked
<1>4. \A m \in Nodes : g.parent[m] # m
  <2>1. p # k /\ \A m \in Nodes : h.parent[m] # m
    BY <1>1, <1>2
  <2> QED BY <1>3, <2>1
<1>5. Held(g) = Held(h) \cup {k}
  <2>1. h.root = Null => Held(h) = {}
    BY Subtrees
  <2>2. \A m \in Nodes : m \in Held(h) <=> m = h.root \/ h.parent[m] # Null
    BY DEF Held
  <2>3. \A m \in Nodes : m \in Held(g) <=> m = g.root \/ g.parent[m] # Null
    BY DEF Held
  <2>4. Held(h) \subseteq Nodes /\ Held(g) \subseteq Nodes
    BY DEF Held
  <2>5. \A m \in Nodes : m \in Held(g) <=> m \in Held(h) \/ m = k
    BY <1>1, <1>3, <2>1, <2>2, <2>3
  <2> QED BY <2>4, <2>5
<1> HIDE DEF t
<1>6. /\ u \in Rb!Trees /\ u.root = g.root /\ u.red = reds
      /\ \A m \in Nodes : u.kid[m]["left"] = g.left[m] /\ u.kid[m]["right"] = g.right[m]
      /\ \A m \in Nodes : u.parent[m] = IF m \in Held(g) THEN g.parent[m] ELSE m
      /\ \A a : Rb!Grown(u, a) <=> Grown(g, a)
  <2>1. reds \in SUBSET Nodes
    OBVIOUS
  <2> HIDE DEF reds
  <2> QED BY <1>3, <1>4, <2>1, ViewFields, ViewPlaces
<1>7. reds = IF p = Null THEN t.red \ {k} ELSE t.red \cup {k}
  BY <1>2
<1> HIDE DEF u, reds
<1>8. Rb!Descended(t, b, k, p)
  <2>1. k \in Nodes \ Rb!Placed(t) /\ p \in Rb!Placed(t) \cup {Null}
    BY <1>1, <1>2
  <2>2. ASSUME NEW m \in Nodes, NEW r \in Rb!Side, p \in b[t.kid[m][r]]
        PROVE  Rb!Beyond(r, Keyed[k], Keyed[m])
    <3>1. CASE r = "left"
      BY <1>1, <1>2, <2>2, <3>1, KeysAre
    <3>2. CASE r = "right"
      BY <1>1, <1>2, <2>2, <3>2, KeysAre
    <3> QED BY <3>1, <3>2, Sides
  <2>3. \A m \in Rb!Placed(t) : Keyed[m] # Keyed[k]
    <3>1. \A m \in Nodes : Keyed[m] = m
      BY KeysAre
    <3>2. Held(h) \subseteq Nodes
      BY DEF Held
    <3> QED BY <1>2, <3>1, <3>2
  <2> QED BY <2>1, <2>2, <2>3 DEF Rb!Descended
<1>9. Rb!Link(t, k, p) = Null
  <2>1. CASE p = Null
    BY <1>1, <1>2, <2>1 DEF Rb!Link
  <2>2. CASE p # Null
    <3>1. p \in Nodes /\ Keyed[k] = k /\ Keyed[p] = p /\ k \in Int /\ p \in Int /\ p # k
      <4>1. p \in Nodes /\ p # k
        BY <1>1, <2>2
      <4> QED BY <4>1, KeysAre
    <3> QED BY <1>1, <1>2, <2>2, <3>1 DEF Rb!Link, Way, Cmp
  <2> QED BY <2>1, <2>2
<1>10. Rb!Leafed(t, u, k, p)
  <2>1. ASSUME NEW m \in Nodes
        PROVE  u.parent[m] = IF m = k THEN p ELSE t.parent[m]
    <3>1. /\ u.parent[m] = IF m \in Held(g) THEN g.parent[m] ELSE m
          /\ t.parent[m] = IF m \in Held(h) THEN h.parent[m] ELSE m
      BY <1>2, <1>6
    <3>2. g.parent[m] = IF m = k THEN p ELSE h.parent[m]
      BY <1>3
    <3> QED BY <1>5, <3>1, <3>2
  <2>2. p # Null => Rb!KeySide(k, p) = IF k < p THEN "left" ELSE "right"
    BY <1>1, KeysAre DEF Rb!KeySide
  <2>3. ASSUME NEW m \in Nodes, NEW r \in Rb!Side
        PROVE  u.kid[m][r] = IF m = k THEN Null
                             ELSE IF m = p /\ r = Rb!KeySide(k, p) THEN k ELSE t.kid[m][r]
    <3>1. CASE r = "left"
      BY <1>1, <1>2, <1>3, <1>6, <2>2, <3>1
    <3>2. CASE r = "right"
      BY <1>1, <1>2, <1>3, <1>6, <2>2, <3>2
    <3> QED BY <3>1, <3>2, Sides
  <2> QED BY <1>2, <1>3, <1>6, <1>7, <2>1, <2>3 DEF Rb!Leafed
<1>11. \E d : Rb!Placed(u) = Rb!Placed(t) \cup {k} /\ Rb!Grown(u, d)
  BY <1>2, <1>8, <1>9, <1>10, RbAssumed, Rb!LeafedGrown
<1> QED BY <1>5, <1>6, <1>11

-----------------------------------------------------------------------------
(* The order of the nodes, and the walks *)

\* x is the least node of A, or Null where there is none; the same for the greatest.
Lowest(A, x) == IF x = Null THEN A = {} ELSE x \in A /\ \A y \in A : x <= y
Highest(A, x) == IF x = Null THEN A = {} ELSE x \in A /\ \A y \in A : y <= x

\* The nodes of A above and under n.
Above(A, n) == {y \in A : n < y}
Beneath(A, n) == {y \in A : y < n}

\* That is what the lemmas about links call the nearest one.
LEMMA LowestIs ==
  ASSUME NEW A \in SUBSET Nodes, NEW x
  PROVE  /\ Rb!Nearest(A, "right", x) <=> Lowest(A, x)
         /\ Rb!Nearest(A, "left", x) <=> Highest(A, x)
<1>1. /\ Null \notin Nodes /\ A \subseteq Nodes /\ \A y \in A : y \in Int
      /\ \A m, n \in Nodes : Rb!Beyond("left", Keyed[m], Keyed[n]) <=> m < n
      /\ \A m, n \in Nodes : Rb!Beyond("right", Keyed[m], Keyed[n]) <=> n < m
  BY KeysAre
<1>2. ASSUME x \in A
      PROVE  /\ \A y \in A : y = x \/ Rb!Beyond("right", Keyed[y], Keyed[x]) <=> x <= y
             /\ \A y \in A : y = x \/ Rb!Beyond("left", Keyed[y], Keyed[x]) <=> y <= x
  <2> SUFFICES ASSUME NEW y \in A
               PROVE  /\ y = x \/ Rb!Beyond("right", Keyed[y], Keyed[x]) <=> x <= y
                      /\ y = x \/ Rb!Beyond("left", Keyed[y], Keyed[x]) <=> y <= x
    OBVIOUS
  <2>1. x \in Nodes /\ y \in Nodes /\ x \in Int /\ y \in Int
    BY <1>1, <1>2
  <2> QED BY <1>1, <2>1
<1>3. x \in A => x # Null
  BY <1>1
<1> QED BY <1>2, <1>3 DEF Rb!Nearest, Lowest, Highest

\* There is one at most, and the abstract set names it.
LEMMA LowestOnce ==
  ASSUME NEW A \in SUBSET Nodes, NEW x
  PROVE  /\ Lowest(A, x) => Set!Least(A) = x /\ \A y : Lowest(A, y) => y = x
         /\ Highest(A, x) => Set!Greatest(A) = x /\ \A y : Highest(A, y) => y = x
<1>1. Null \notin Nodes /\ \A y \in A : y \in Int /\ y # Null
  BY KeysAre
<1>2. ASSUME x \in A, \A y \in A : x <= y
      PROVE  \A z \in A : (\A y \in A : z <= y) => z = x
  BY <1>1, <1>2
<1>3. ASSUME x \in A, \A y \in A : x >= y
      PROVE  \A z \in A : (\A y \in A : z >= y) => z = x
  BY <1>1, <1>3
<1>4. ASSUME Lowest(A, x) PROVE Set!Least(A) = x /\ \A y : Lowest(A, y) => y = x
  <2>1. CASE x = Null
    BY <1>1, <1>4, <2>1 DEF Lowest, Set!Least, Set!None, Null
  <2>2. CASE x # Null
    <3>1. x \in A /\ A # {} /\ \A y \in A : x <= y
      BY <1>4, <2>2 DEF Lowest
    <3>2. \A z \in A : (\A y \in A : z <= y) => z = x
      BY <1>2, <3>1
    <3>3. Set!Least(A) = CHOOSE z \in A : \A y \in A : z <= y
      BY <3>1 DEF Set!Least
    <3>4. (CHOOSE z \in A : \A y \in A : z <= y) = x
      BY <3>1, <3>2
    <3> QED BY <3>1, <3>2, <3>3, <3>4 DEF Lowest
  <2> QED BY <2>1, <2>2
<1>5. ASSUME Highest(A, x) PROVE Set!Greatest(A) = x /\ \A y : Highest(A, y) => y = x
  <2>1. CASE x = Null
    BY <1>1, <1>5, <2>1 DEF Highest, Set!Greatest, Set!None, Null
  <2>2. CASE x # Null
    <3>1. x \in A /\ A # {} /\ \A y \in A : x >= y
      BY <1>1, <1>5, <2>2 DEF Highest
    <3>2. \A z \in A : (\A y \in A : z >= y) => z = x
      BY <1>3, <3>1
    <3>3. Set!Greatest(A) = CHOOSE z \in A : \A y \in A : z >= y
      BY <3>1 DEF Set!Greatest
    <3>4. (CHOOSE z \in A : \A y \in A : z >= y) = x
      BY <3>1, <3>2
    <3>5. \A y : Highest(A, y) => y = x
      BY <1>1, <3>1, <3>2 DEF Highest
    <3> QED BY <3>3, <3>4, <3>5
  <2> QED BY <2>1, <2>2
<1> QED BY <1>4, <1>5

\* The walk down one side is that of the lemmas about links.
LEMMA FirstIs ==
  ASSUME NEW h, NEW b, Grown(h, b), NEW n \in Nodes
  PROVE  Lowest(b[n], First(h, n)) /\ Highest(b[n], Last(h, n))
<1> DEFINE t == View(h, {})
<1>1. /\ Rb!Grown(t, b)
      /\ \A m \in Nodes : t.kid[m]["left"] = h.left[m] /\ t.kid[m]["right"] = h.right[m]
  BY ViewFields DEF Grown
<1> HIDE DEF t
<1>2. n # Null /\ b[n] \in SUBSET Nodes
  BY NullIsNoNode, SubtreeLinks
<1>3. Rb!Outermost(t, n, "left") = First(h, n)
  <2> DEFINE F(f) == f = [m \in Nodes |-> IF h.left[m] = Null THEN m ELSE f[h.left[m]]]
             G(f) == f = [m \in Nodes |-> IF t.kid[m]["left"] = Null THEN m ELSE f[t.kid[m]["left"]]]
             u == CHOOSE f : F(f)
             w == CHOOSE f : G(f)
  <2>1. ASSUME NEW f PROVE F(f) <=> G(f)
    <3>1. [m \in Nodes |-> IF h.left[m] = Null THEN m ELSE f[h.left[m]]]
            = [m \in Nodes |-> IF t.kid[m]["left"] = Null THEN m ELSE f[t.kid[m]["left"]]]
      BY <1>1
    <3> QED BY <3>1
  <2>2. First(h, n) = u[n]
    BY <1>2 DEF First
  <2>3. Rb!Outermost(t, n, "left") = w[n]
    BY <1>2 DEF Rb!Outermost
  <2> HIDE DEF F, G
  <2>4. u = w
    BY ONLY <2>1, Zenon
  <2> QED BY <2>2, <2>3, <2>4
<1>4. Rb!Outermost(t, n, "right") = Last(h, n)
  <2> DEFINE F(f) == f = [m \in Nodes |-> IF h.right[m] = Null THEN m ELSE f[h.right[m]]]
             G(f) == f = [m \in Nodes |-> IF t.kid[m]["right"] = Null THEN m ELSE f[t.kid[m]["right"]]]
             u == CHOOSE f : F(f)
             w == CHOOSE f : G(f)
  <2>1. ASSUME NEW f PROVE F(f) <=> G(f)
    <3>1. [m \in Nodes |-> IF h.right[m] = Null THEN m ELSE f[h.right[m]]]
            = [m \in Nodes |-> IF t.kid[m]["right"] = Null THEN m ELSE f[t.kid[m]["right"]]]
      BY <1>1
    <3> QED BY <3>1
  <2>2. Last(h, n) = u[n]
    BY <1>2 DEF Last
  <2>3. Rb!Outermost(t, n, "right") = w[n]
    BY <1>2 DEF Rb!Outermost
  <2> HIDE DEF F, G
  <2>4. u = w
    BY ONLY <2>1, Zenon
  <2> QED BY <2>2, <2>3, <2>4
<1>5. /\ Rb!Nearest(b[n], Rb!Opp("left"), Rb!Outermost(t, n, "left"))
      /\ Rb!Nearest(b[n], Rb!Opp("right"), Rb!Outermost(t, n, "right"))
  BY <1>1, RbAssumed, Sides, Rb!OutermostIs
<1> QED BY <1>2, <1>3, <1>4, <1>5, Sides, LowestIs

\* The climb of avl_next ends at the node that the lemmas about links name.
LEMMA NextIs ==
  ASSUME NEW h, NEW b, Grown(h, b), NEW n \in Held(h)
  PROVE  Lowest(Above(Held(h), n), avl_next(h, n))
<1> DEFINE t == View(h, {})
           A == Above(Held(h), n)
           C(f, m) == IF h.parent[m] = Null \/ h.left[h.parent[m]] = m THEN h.parent[m]
                      ELSE f[h.parent[m]]
           F(f) == f = [m \in Nodes |-> LET p == h.parent[m]
                                        IN  IF p = Null \/ h.left[p] = m THEN p ELSE f[p]]
           w == CHOOSE f : F(f)
<1>1. /\ Rb!Grown(t, b) /\ Rb!Placed(t) = Held(h)
      /\ \A m \in Nodes : t.kid[m]["left"] = h.left[m] /\ t.kid[m]["right"] = h.right[m]
      /\ \A m \in Nodes : t.parent[m] = IF m \in Held(h) THEN h.parent[m] ELSE m
  BY ViewFields, ViewPlaces DEF Grown
<1> HIDE DEF t
<1>2. n \in Nodes /\ Held(h) \subseteq Nodes /\ Null \notin Nodes /\ A \in SUBSET Nodes
  BY NullIsNoNode DEF Held, Above
<1>3. /\ h.right[n] \in OrNull /\ b[n] = {n} \cup b[h.left[n]] \cup b[h.right[n]] /\ b[n] \subseteq Nodes
      /\ (\A m \in b[h.left[n]] : m < n) /\ b[Null] = {}
  BY <1>2, Subtrees
<1>4. avl_next(h, n) = IF h.right[n] # Null THEN First(h, h.right[n]) ELSE w[n]
  BY DEF avl_next
<1> HIDE DEF w
<1>5. {y \in Held(h) : Rb!Beyond("right", Keyed[y], Keyed[n])} = A
  BY <1>2, KeysAre DEF Above
<1> HIDE DEF A
<1>6. CASE h.right[n] # Null
  <2> DEFINE c == h.right[n]
             x == First(h, c)
             z == Rb!Outermost(t, c, "left")
  <2>1. c \in Nodes /\ b[c] \in SUBSET Nodes
    BY <1>3, <1>6, SubtreeLinks DEF OrNull
  <2>2. Lowest(b[c], x)
    BY <2>1, FirstIs
  <2>3. Rb!Nearest(b[c], Rb!Opp("left"), z)
    BY <1>1, <2>1, RbAssumed, Sides, Rb!OutermostIs
  <2>4. Lowest(b[c], z)
    BY <2>1, <2>3, Sides, LowestIs
  <2>5. z = x
    BY <2>1, <2>2, <2>4, LowestOnce
  <2>6. Rb!Beside(t, n, "right") = z
    <3>1. ~Rb!EmptyNode(t, n)
      BY <1>1, <1>2 DEF Rb!EmptyNode, Rb!Placed
    <3> QED BY <1>1, <1>2, <1>6, <3>1, Sides DEF Rb!Beside
  <2> HIDE DEF x, z
  <2>7. Rb!Nearest({y \in Rb!Placed(t) : Rb!Beyond("right", Keyed[y], Keyed[n])}, "right", z)
    BY <1>1, <2>6, RbAssumed, Sides, Rb!BesideIs
  <2>8. Rb!Nearest(A, "right", x)
    BY <1>1, <1>5, <2>5, <2>7
  <2> QED BY <1>2, <1>4, <1>6, <2>8, LowestIs DEF x, A
<1>7. CASE h.right[n] = Null
  <2>1. PICK g : /\ Rb!Climbs(t, "right", g)
                 /\ \A m \in Rb!Placed(t) : Rb!Nearest(Rb!Past(t, b, "right", m), "right", g[m])
    BY <1>1, RbAssumed, Sides, Rb!ClimbIs
  <2>2. \A m \in Held(h) : g[m] = C(g, m) /\ (h.parent[m] # Null => h.parent[m] \in Held(h))
    <3> SUFFICES ASSUME NEW m \in Held(h)
                 PROVE  g[m] = C(g, m) /\ (h.parent[m] # Null => h.parent[m] \in Held(h))
      OBVIOUS
    <3> DEFINE p == h.parent[m]
    <3>1. /\ p = Null \/ (p \in Held(h) /\ p \in Nodes /\ (h.left[p] = m \/ h.right[p] = m))
          /\ m \in Nodes
      BY <1>2, Kin
    <3>2. g[m] = IF t.parent[m] = Null \/ t.kid[t.parent[m]]["right"] # m THEN t.parent[m]
                 ELSE g[t.parent[m]]
      BY <2>1, <3>1 DEF Rb!Climbs
    <3>3. t.parent[m] = p
      BY <1>1, <3>1
    <3>4. p # Null => t.kid[p]["right"] = h.right[p] /\ ~(h.left[p] = m /\ h.right[p] = m)
      BY <1>1, <1>2, <3>1, Kin
    <3> QED BY <3>1, <3>2, <3>3, <3>4
  <2>3. ASSUME NEW f PROVE F(f) <=> f = [m \in Nodes |-> C(f, m)]
    OBVIOUS
  <2> HIDE DEF F
  <2>4. \E f : F(f)
    <3> DEFINE f == [m \in Nodes |-> IF m \in Held(h) THEN g[m] ELSE Null]
    <3>1. \A m \in Nodes : f[m] = C(f, m)
      <4> SUFFICES ASSUME NEW m \in Nodes PROVE f[m] = C(f, m)
        OBVIOUS
      <4>1. CASE m \in Held(h)
        <5>1. f[m] = C(g, m)
          BY <2>2, <4>1
        <5>2. h.parent[m] # Null => f[h.parent[m]] = g[h.parent[m]]
          BY <1>2, <2>2, <4>1
        <5> HIDE DEF f
        <5> QED BY <5>1, <5>2
      <4>2. CASE m \notin Held(h)
        <5>1. h.parent[m] = Null
          BY <4>2 DEF Held
        <5> QED BY <4>2, <5>1
      <4> QED BY <4>1, <4>2
    <3>2. f = [m \in Nodes |-> f[m]]
      OBVIOUS
    <3> HIDE DEF f
    <3>3. f = [m \in Nodes |-> C(f, m)]
      BY <3>1, <3>2
    <3> QED BY <2>3, <3>3
  <2>5. F(w)
    BY <2>4 DEF w
  <2>6. \A m \in Nodes : w[m] = C(w, m)
    BY <2>3, <2>5
  <2>7. ASSUME NEW D, D = {m \in Held(h) : w[m] # g[m]} PROVE D = {}
    <3> SUFFICES ASSUME D # {} PROVE FALSE
      OBVIOUS
    <3>1. PICK m \in D : t.parent[m] \notin D
      <4>1. D \subseteq Rb!Placed(t)
        BY <1>1, <2>7
      <4> QED BY <1>1, <4>1, RbAssumed, Rb!TreeMax
    <3>2. m \in Held(h) /\ m \in Nodes /\ w[m] # g[m] /\ h.parent[m] \notin D
      BY <1>1, <1>2, <2>7, <3>1
    <3>3. h.parent[m] # Null => w[h.parent[m]] = g[h.parent[m]]
      BY <2>2, <2>7, <3>2
    <3> QED BY <2>2, <2>6, <3>2, <3>3
  <2>8. w[n] = g[n]
    BY <2>7
  <2>9. Rb!Past(t, b, "right", n) = A
    <3>1. \A y \in Held(h) : y \in b[n] => ~Rb!Beyond("right", Keyed[y], Keyed[n])
      <4> SUFFICES ASSUME NEW y \in b[n], y \in Nodes PROVE ~(n < y)
        BY <1>2, KeysAre
      <4>1. y = n \/ y < n
        BY <1>3, <1>7
      <4> QED BY <1>2, <4>1, KeysAre
    <3> QED BY <1>1, <1>5, <3>1 DEF Rb!Past
  <2>10. Rb!Nearest(A, "right", w[n])
    BY <1>1, <2>1, <2>8, <2>9
  <2> QED BY <1>2, <1>4, <1>7, <2>10, LowestIs DEF A
<1> QED BY <1>6, <1>7 DEF A

\* The same for avl_prev.
LEMMA PrevIs ==
  ASSUME NEW h, NEW b, Grown(h, b), NEW n \in Held(h)
  PROVE  Highest(Beneath(Held(h), n), avl_prev(h, n))
<1> DEFINE t == View(h, {})
           A == Beneath(Held(h), n)
           C(f, m) == IF h.parent[m] = Null \/ h.right[h.parent[m]] = m THEN h.parent[m]
                      ELSE f[h.parent[m]]
           F(f) == f = [m \in Nodes |-> LET p == h.parent[m]
                                        IN  IF p = Null \/ h.right[p] = m THEN p ELSE f[p]]
           w == CHOOSE f : F(f)
<1>1. /\ Rb!Grown(t, b) /\ Rb!Placed(t) = Held(h)
      /\ \A m \in Nodes : t.kid[m]["right"] = h.right[m] /\ t.kid[m]["left"] = h.left[m]
      /\ \A m \in Nodes : t.parent[m] = IF m \in Held(h) THEN h.parent[m] ELSE m
  BY ViewFields, ViewPlaces DEF Grown
<1> HIDE DEF t
<1>2. n \in Nodes /\ Held(h) \subseteq Nodes /\ Null \notin Nodes /\ A \in SUBSET Nodes
  BY NullIsNoNode DEF Held, Beneath
<1>3. /\ h.left[n] \in OrNull /\ b[n] = {n} \cup b[h.right[n]] \cup b[h.left[n]] /\ b[n] \subseteq Nodes
      /\ (\A m \in b[h.right[n]] : n < m) /\ b[Null] = {}
  BY <1>2, Subtrees
<1>4. avl_prev(h, n) = IF h.left[n] # Null THEN Last(h, h.left[n]) ELSE w[n]
  BY DEF avl_prev
<1> HIDE DEF w
<1>5. {y \in Held(h) : Rb!Beyond("left", Keyed[y], Keyed[n])} = A
  BY <1>2, KeysAre DEF Beneath
<1> HIDE DEF A
<1>6. CASE h.left[n] # Null
  <2> DEFINE c == h.left[n]
             x == Last(h, c)
             z == Rb!Outermost(t, c, "right")
  <2>1. c \in Nodes /\ b[c] \in SUBSET Nodes
    BY <1>3, <1>6, SubtreeLinks DEF OrNull
  <2>2. Highest(b[c], x)
    BY <2>1, FirstIs
  <2>3. Rb!Nearest(b[c], Rb!Opp("right"), z)
    BY <1>1, <2>1, RbAssumed, Sides, Rb!OutermostIs
  <2>4. Highest(b[c], z)
    BY <2>1, <2>3, Sides, LowestIs
  <2>5. z = x
    BY <2>1, <2>2, <2>4, LowestOnce
  <2>6. Rb!Beside(t, n, "left") = z
    <3>1. ~Rb!EmptyNode(t, n)
      BY <1>1, <1>2 DEF Rb!EmptyNode, Rb!Placed
    <3> QED BY <1>1, <1>2, <1>6, <3>1, Sides DEF Rb!Beside
  <2> HIDE DEF x, z
  <2>7. Rb!Nearest({y \in Rb!Placed(t) : Rb!Beyond("left", Keyed[y], Keyed[n])}, "left", z)
    BY <1>1, <2>6, RbAssumed, Sides, Rb!BesideIs
  <2>8. Rb!Nearest(A, "left", x)
    BY <1>1, <1>5, <2>5, <2>7
  <2> QED BY <1>2, <1>4, <1>6, <2>8, LowestIs DEF x, A
<1>7. CASE h.left[n] = Null
  <2>1. PICK g : /\ Rb!Climbs(t, "left", g)
                 /\ \A m \in Rb!Placed(t) : Rb!Nearest(Rb!Past(t, b, "left", m), "left", g[m])
    BY <1>1, RbAssumed, Sides, Rb!ClimbIs
  <2>2. \A m \in Held(h) : g[m] = C(g, m) /\ (h.parent[m] # Null => h.parent[m] \in Held(h))
    <3> SUFFICES ASSUME NEW m \in Held(h)
                 PROVE  g[m] = C(g, m) /\ (h.parent[m] # Null => h.parent[m] \in Held(h))
      OBVIOUS
    <3> DEFINE p == h.parent[m]
    <3>1. /\ p = Null \/ (p \in Held(h) /\ p \in Nodes /\ (h.right[p] = m \/ h.left[p] = m))
          /\ m \in Nodes
      BY <1>2, Kin
    <3>2. g[m] = IF t.parent[m] = Null \/ t.kid[t.parent[m]]["left"] # m THEN t.parent[m]
                 ELSE g[t.parent[m]]
      BY <2>1, <3>1 DEF Rb!Climbs
    <3>3. t.parent[m] = p
      BY <1>1, <3>1
    <3>4. p # Null => t.kid[p]["left"] = h.left[p] /\ ~(h.right[p] = m /\ h.left[p] = m)
      BY <1>1, <1>2, <3>1, Kin
    <3> QED BY <3>1, <3>2, <3>3, <3>4
  <2>3. ASSUME NEW f PROVE F(f) <=> f = [m \in Nodes |-> C(f, m)]
    OBVIOUS
  <2> HIDE DEF F
  <2>4. \E f : F(f)
    <3> DEFINE f == [m \in Nodes |-> IF m \in Held(h) THEN g[m] ELSE Null]
    <3>1. \A m \in Nodes : f[m] = C(f, m)
      <4> SUFFICES ASSUME NEW m \in Nodes PROVE f[m] = C(f, m)
        OBVIOUS
      <4>1. CASE m \in Held(h)
        <5>1. f[m] = C(g, m)
          BY <2>2, <4>1
        <5>2. h.parent[m] # Null => f[h.parent[m]] = g[h.parent[m]]
          BY <1>2, <2>2, <4>1
        <5> HIDE DEF f
        <5> QED BY <5>1, <5>2
      <4>2. CASE m \notin Held(h)
        <5>1. h.parent[m] = Null
          BY <4>2 DEF Held
        <5> QED BY <4>2, <5>1
      <4> QED BY <4>1, <4>2
    <3>2. f = [m \in Nodes |-> f[m]]
      OBVIOUS
    <3> HIDE DEF f
    <3>3. f = [m \in Nodes |-> C(f, m)]
      BY <3>1, <3>2
    <3> QED BY <2>3, <3>3
  <2>5. F(w)
    BY <2>4 DEF w
  <2>6. \A m \in Nodes : w[m] = C(w, m)
    BY <2>3, <2>5
  <2>7. ASSUME NEW D, D = {m \in Held(h) : w[m] # g[m]} PROVE D = {}
    <3> SUFFICES ASSUME D # {} PROVE FALSE
      OBVIOUS
    <3>1. PICK m \in D : t.parent[m] \notin D
      <4>1. D \subseteq Rb!Placed(t)
        BY <1>1, <2>7
      <4> QED BY <1>1, <4>1, RbAssumed, Rb!TreeMax
    <3>2. m \in Held(h) /\ m \in Nodes /\ w[m] # g[m] /\ h.parent[m] \notin D
      BY <1>1, <1>2, <2>7, <3>1
    <3>3. h.parent[m] # Null => w[h.parent[m]] = g[h.parent[m]]
      BY <2>2, <2>7, <3>2
    <3> QED BY <2>2, <2>6, <3>2, <3>3
  <2>8. w[n] = g[n]
    BY <2>7
  <2>9. Rb!Past(t, b, "left", n) = A
    <3>1. \A y \in Held(h) : y \in b[n] => ~Rb!Beyond("left", Keyed[y], Keyed[n])
      <4> SUFFICES ASSUME NEW y \in b[n], y \in Nodes PROVE ~(y < n)
        BY <1>2, KeysAre
      <4>1. y = n \/ n < y
        BY <1>3, <1>7
      <4> QED BY <1>2, <4>1, KeysAre
    <3> QED BY <1>1, <1>5, <3>1 DEF Rb!Past
  <2>10. Rb!Nearest(A, "left", w[n])
    BY <1>1, <2>1, <2>8, <2>9
  <2> QED BY <1>2, <1>4, <1>7, <2>10, LowestIs DEF A
<1> QED BY <1>6, <1>7 DEF A

-----------------------------------------------------------------------------
(* The threads *)

\* The links next and prev lead from every node of the tree to its neighbours.
Threaded(h) ==
  \A m \in Held(h) : /\ Lowest(Above(Held(h), m), h.next[m])
                     /\ Highest(Beneath(Held(h), m), h.prev[m])

\* A new element k between its neighbours q and r.
LEMMA OneMore ==
  ASSUME NEW A \in SUBSET Nodes, NEW k \in Nodes \ A, NEW q, NEW r,
         Highest(Beneath(A, k), q), Lowest(Above(A, k), r),
         NEW m \in A, NEW x, Lowest(Above(A, m), x), NEW y, Highest(Beneath(A, m), y)
  PROVE  /\ Lowest(Above(A \cup {k}, m), IF m = q THEN k ELSE x)
         /\ Highest(Beneath(A \cup {k}, m), IF m = r THEN k ELSE y)
<1>1. Null \notin Nodes /\ Null \notin A /\ k # Null /\ m # Null /\ k # m /\ k \in Nat /\ m \in Nat /\ A \subseteq Nat
  BY KeysAre
<1>2. /\ q # Null => q \in A /\ q < k
      /\ \A z \in A : z < k => q # Null /\ z <= q
      /\ r # Null => r \in A /\ k < r
      /\ \A z \in A : k < z => r # Null /\ r <= z
  BY DEF Highest, Lowest, Above, Beneath
<1>3. /\ x # Null => x \in A /\ m < x
      /\ \A z \in A : m < z => x # Null /\ x <= z
      /\ y # Null => y \in A /\ y < m
      /\ \A z \in A : z < m => y # Null /\ z <= y
  BY DEF Highest, Lowest, Above, Beneath
<1>4. Lowest(Above(A \cup {k}, m), IF m = q THEN k ELSE x)
  <2>1. CASE m = q
    <3>1. m < k
      BY <1>1, <1>2, <2>1
    <3>2. \A z \in A : m < z => k <= z
      <4> SUFFICES ASSUME NEW z \in A, m < z, z < k PROVE FALSE
        BY <1>1
      <4>1. z <= q
        BY <1>2
      <4> QED BY <1>1, <2>1, <4>1
    <3> QED BY <1>1, <2>1, <3>1, <3>2 DEF Lowest, Above
  <2>2. CASE m # q
    <3>1. m < k => x # Null /\ x < k
      <4> SUFFICES ASSUME m < k PROVE x # Null /\ x < k
        OBVIOUS
      <4>1. q # Null /\ m <= q /\ q \in A /\ q < k
        BY <1>2
      <4>2. m < q
        BY <1>1, <2>2, <4>1
      <4>3. x # Null /\ x <= q /\ x \in A
        BY <1>3, <4>1, <4>2
      <4> QED BY <1>1, <4>1, <4>3
    <3>2. CASE x = Null
      <4>1. ~(m < k) /\ \A z \in A : ~(m < z)
        BY <1>3, <3>1, <3>2
      <4>2. Above(A \cup {k}, m) = {}
        BY <4>1 DEF Above
      <4> QED BY <2>2, <3>2, <4>2 DEF Lowest
    <3>3. CASE x # Null
      <4>1. x \in A /\ m < x /\ \A z \in A : m < z => x <= z
        BY <1>3, <3>3
      <4>2. m < k => x <= k
        BY <1>1, <3>1, <4>1
      <4> QED BY <2>2, <3>3, <4>1, <4>2 DEF Lowest, Above
    <3> QED BY <3>2, <3>3
  <2> QED BY <2>1, <2>2
<1>5. Highest(Beneath(A \cup {k}, m), IF m = r THEN k ELSE y)
  <2>1. CASE m = r
    <3>1. k < m
      BY <1>1, <1>2, <2>1
    <3>2. \A z \in A : z < m => z <= k
      <4> SUFFICES ASSUME NEW z \in A, z < m, k < z PROVE FALSE
        BY <1>1
      <4>1. r <= z
        BY <1>2
      <4> QED BY <1>1, <2>1, <4>1
    <3> QED BY <1>1, <2>1, <3>1, <3>2 DEF Highest, Beneath
  <2>2. CASE m # r
    <3>1. k < m => y # Null /\ k < y
      <4> SUFFICES ASSUME k < m PROVE y # Null /\ k < y
        OBVIOUS
      <4>1. r # Null /\ r <= m /\ r \in A /\ k < r
        BY <1>2
      <4>2. r < m
        BY <1>1, <2>2, <4>1
      <4>3. y # Null /\ r <= y /\ y \in A
        BY <1>3, <4>1, <4>2
      <4> QED BY <1>1, <4>1, <4>3
    <3>2. CASE y = Null
      <4>1. ~(k < m) /\ \A z \in A : ~(z < m)
        BY <1>3, <3>1, <3>2
      <4>2. Beneath(A \cup {k}, m) = {}
        BY <4>1 DEF Beneath
      <4> QED BY <2>2, <3>2, <4>2 DEF Highest
    <3>3. CASE y # Null
      <4>1. y \in A /\ y < m /\ \A z \in A : z < m => z <= y
        BY <1>3, <3>3
      <4>2. k < m => k <= y
        BY <1>1, <3>1, <4>1
      <4> QED BY <2>2, <3>3, <4>1, <4>2 DEF Highest, Beneath
    <3> QED BY <3>2, <3>3
  <2> QED BY <2>1, <2>2
<1> QED BY <1>4, <1>5

\* One element o fewer, which had the neighbours q and r.
LEMMA OneLess ==
  ASSUME NEW A \in SUBSET Nodes, NEW o \in A, NEW q, NEW r,
         Highest(Beneath(A, o), q), Lowest(Above(A, o), r),
         NEW m \in A \ {o}, NEW x, Lowest(Above(A, m), x), NEW y, Highest(Beneath(A, m), y)
  PROVE  /\ Lowest(Above(A \ {o}, m), IF m = q THEN r ELSE x)
         /\ Highest(Beneath(A \ {o}, m), IF m = r THEN q ELSE y)
<1>1. Null \notin Nodes /\ Null \notin A /\ m # Null /\ o # m /\ o \in Nat /\ m \in Nat /\ A \subseteq Nat /\ o # Null
  BY KeysAre
<1>2. /\ q # Null => q \in A /\ q < o
      /\ \A z \in A : z < o => q # Null /\ z <= q
      /\ r # Null => r \in A /\ o < r
      /\ \A z \in A : o < z => r # Null /\ r <= z
  BY DEF Highest, Lowest, Above, Beneath
<1>3. /\ x # Null => x \in A /\ m < x
      /\ \A z \in A : m < z => x # Null /\ x <= z
      /\ y # Null => y \in A /\ y < m
      /\ \A z \in A : z < m => y # Null /\ z <= y
  BY DEF Highest, Lowest, Above, Beneath
<1>4. Lowest(Above(A \ {o}, m), IF m = q THEN r ELSE x)
  <2>1. CASE m = q
    <3>1. m < o
      BY <1>1, <1>2, <2>1
    <3>2. \A z \in A \ {o} : m < z => r # Null /\ r <= z
      <4> SUFFICES ASSUME NEW z \in A \ {o}, m < z PROVE r # Null /\ r <= z
        OBVIOUS
      <4>1. ~(z < o)
        BY <1>1, <1>2, <2>1
      <4>2. o < z
        BY <1>1, <4>1
      <4> QED BY <1>2, <4>2
    <3>3. ASSUME r # Null PROVE r \in A \ {o} /\ m < r
      <4>1. r \in A /\ o < r /\ r \in Nat
        BY <1>1, <1>2, <3>3
      <4> QED BY <1>1, <3>1, <4>1
    <3> QED BY <2>1, <3>2, <3>3 DEF Lowest, Above
  <2>2. CASE m # q
    <3>1. x # o
      <4> SUFFICES ASSUME x = o PROVE FALSE
        OBVIOUS
      <4>1. m < o
        BY <1>1, <1>3
      <4>2. q \in A /\ m <= q /\ q < o
        BY <1>2, <4>1
      <4>3. m < q
        BY <1>1, <2>2, <4>2
      <4>4. o <= q
        BY <1>3, <4>2, <4>3
      <4> QED BY <1>1, <4>2, <4>4
    <3> QED BY <1>3, <2>2, <3>1 DEF Lowest, Above
  <2> QED BY <2>1, <2>2
<1>5. Highest(Beneath(A \ {o}, m), IF m = r THEN q ELSE y)
  <2>1. CASE m = r
    <3>1. o < m
      BY <1>1, <1>2, <2>1
    <3>2. \A z \in A \ {o} : z < m => q # Null /\ z <= q
      <4> SUFFICES ASSUME NEW z \in A \ {o}, z < m PROVE q # Null /\ z <= q
        OBVIOUS
      <4>1. ~(o < z)
        BY <1>1, <1>2, <2>1
      <4>2. z < o
        BY <1>1, <4>1
      <4> QED BY <1>2, <4>2
    <3>3. ASSUME q # Null PROVE q \in A \ {o} /\ q < m
      <4>1. q \in A /\ q < o /\ q \in Nat
        BY <1>1, <1>2, <3>3
      <4> QED BY <1>1, <3>1, <4>1
    <3> QED BY <2>1, <3>2, <3>3 DEF Highest, Beneath
  <2>2. CASE m # r
    <3>1. y # o
      <4> SUFFICES ASSUME y = o PROVE FALSE
        OBVIOUS
      <4>1. o < m
        BY <1>1, <1>3
      <4>2. r \in A /\ r <= m /\ o < r
        BY <1>2, <4>1
      <4>3. r < m
        BY <1>1, <2>2, <4>2
      <4>4. r <= o
        BY <1>3, <4>2, <4>3
      <4> QED BY <1>1, <4>2, <4>4
    <3> QED BY <1>3, <2>2, <3>1 DEF Highest, Beneath
  <2> QED BY <2>1, <2>2
<1> QED BY <1>4, <1>5

\* No node of the tree is between k and the node at which the descent has ended.
LEMMA LastSeenNext ==
  ASSUME NEW h, NEW b, Grown(h, b), NEW k \in Nodes, k \notin Held(h),
         NEW p, LastSeen(h, k) = p, p # Null, NEW y \in Held(h), y # p
  PROVE  y < k <=> y < p
<1>1. /\ b[Null] = {} /\ b[h.root] = Held(h) /\ h.root \in OrNull /\ Null \notin Nodes
      /\ Held(h) \subseteq Nodes
  BY Subtrees, NullIsNoNode DEF Held
<1>2. /\ h.root # Null /\ p \in Held(h) /\ p \in Nodes /\ p # k /\ Way(h, k, p) = Null
      /\ \A m \in Nodes : /\ p \in b[h.left[m]] => k < m
                          /\ p \in b[h.right[m]] => m < k
  BY LastSeenFound
<1> DEFINE D == {m \in Held(h) : y \in b[m] /\ p \in b[m]}
           t == View(h, {})
<1>3. h.root \in D /\ D \subseteq Nodes
  <2>1. h.root \in b[h.root]
    BY <1>1, <1>2, Subtrees DEF OrNull
  <2> QED BY <1>1, <1>2, <2>1
<1>4. PICK m \in D : \A s \in Rb!Side : t.kid[m][s] \notin D
  <2>1. Rb!Grown(t, b)
    BY DEF Grown
  <2> HIDE DEF D, t
  <2> QED BY <1>3, <2>1, RbAssumed, Rb!TreeMin
<1>5. m \in Nodes /\ h.left[m] \notin D /\ h.right[m] \notin D /\ m \in Held(h)
      /\ y \in b[m] /\ p \in b[m]
  BY <1>1, <1>4, Sides, ViewFields DEF Grown
<1>6. ASSUME NEW z \in {h.left[m], h.right[m]} PROVE ~(y \in b[z] /\ p \in b[z])
  <2>1. z # Null => z \in Held(h)
    BY <1>5, Kin
  <2> QED BY <1>1, <1>5, <1>6, <2>1
<1> HIDE DEF D, t
<1>7. /\ b[m] = {m} \cup b[h.left[m]] \cup b[h.right[m]]
      /\ \A x \in b[h.left[m]] : x < m
      /\ \A x \in b[h.right[m]] : m < x
  BY <1>5, Subtrees
<1>8. k \in Int /\ m \in Int /\ y \in Int /\ p \in Int /\ k # y
  BY <1>1, <1>2, <1>5, KeysAre
<1>9. CASE p = m
  <2>1. k < m => h.left[m] = Null
    BY <1>2, <1>8, <1>9 DEF Way, Cmp
  <2>2. m < k => h.right[m] = Null
    BY <1>2, <1>8, <1>9 DEF Way, Cmp
  <2> QED BY <1>1, <1>2, <1>5, <1>7, <1>8, <1>9, <2>1, <2>2
<1>10. CASE p # m
  <2>1. CASE p \in b[h.left[m]]
    <3>1. k < m /\ p < m /\ y \notin b[h.left[m]]
      BY <1>2, <1>5, <1>6, <1>7, <2>1
    <3>2. ~(y < m)
      BY <1>5, <1>7, <1>8, <3>1
    <3> QED BY <1>8, <3>1, <3>2
  <2>2. CASE p \in b[h.right[m]]
    <3>1. m < k /\ m < p /\ y \notin b[h.right[m]]
      BY <1>2, <1>5, <1>6, <1>7, <2>2
    <3>2. y <= m
      BY <1>5, <1>7, <1>8, <3>1
    <3> QED BY <1>8, <3>1, <3>2
  <2> QED BY <1>5, <1>7, <1>10, <2>1, <2>2
<1> QED BY <1>9, <1>10

\* The neighbours that k is going to have.
LEMMA LastSeenThreads ==
  ASSUME NEW h, NEW b, Grown(h, b), Threaded(h), NEW k \in Nodes, k \notin Held(h),
         NEW p, LastSeen(h, k) = p
  PROVE  /\ Highest(Beneath(Held(h), k), IF p = Null THEN Null ELSE IF k < p THEN h.prev[p] ELSE p)
         /\ Lowest(Above(Held(h), k), IF p = Null THEN Null ELSE IF k < p THEN p ELSE h.next[p])
<1> DEFINE A == Held(h)
<1>1. A \subseteq Nodes /\ Null \notin Nodes /\ k \in Int /\ (\A m \in A : m \in Int)
  BY KeysAre DEF Held
<1>2. CASE p = Null
  <2>1. A = {}
    BY <1>2, LastSeenFound, Subtrees
  <2> HIDE DEF A
  <2>2. Beneath(A, k) = {} /\ Above(A, k) = {}
    BY <2>1 DEF Beneath, Above
  <2> QED BY <1>2, <2>2 DEF Lowest, Highest, A
<1>3. CASE p # Null
  <2>1. p \in A /\ p # k /\ p \in Int
    BY <1>1, <1>3, LastSeenFound
  <2>2. \A y \in A : y # p => (y < k <=> y < p)
    BY <1>3, LastSeenNext
  <2>3. Lowest(Above(A, p), h.next[p]) /\ Highest(Beneath(A, p), h.prev[p])
    BY <2>1 DEF Threaded
  <2> HIDE DEF A
  <2>4. CASE k < p
    <3>1. Beneath(A, k) = Beneath(A, p)
      <4>1. \A y \in A : y < k <=> y < p
        <5> SUFFICES ASSUME NEW y \in A PROVE y < k <=> y < p
          OBVIOUS
        <5>1. y \in Int
          BY <1>1 DEF A
        <5> QED BY <1>1, <2>1, <2>2, <2>4, <5>1
      <4> QED BY <4>1 DEF Beneath
    <3>2. Lowest(Above(A, k), p)
      <4>1. \A y \in A : k < y => p <= y
        BY <1>1, <2>1, <2>2
      <4> QED BY <1>3, <2>1, <2>4, <4>1 DEF Lowest, Above
    <3> QED BY <1>3, <2>3, <2>4, <3>1, <3>2 DEF A
  <2>5. CASE ~(k < p)
    <3>1. Above(A, k) = Above(A, p)
      <4>1. \A y \in A : k < y <=> p < y
        <5> SUFFICES ASSUME NEW y \in A PROVE k < y <=> p < y
          OBVIOUS
        <5>1. y # k /\ y \in Int
          BY <1>1 DEF A
        <5> QED BY <1>1, <2>1, <2>2, <2>5, <5>1
      <4> QED BY <4>1 DEF Above
    <3>2. Highest(Beneath(A, k), p)
      <4>1. p < k /\ \A y \in A : y < k => y <= p
        BY <1>1, <2>1, <2>2, <2>5
      <4> QED BY <1>3, <2>1, <4>1 DEF Highest, Beneath
    <3> QED BY <1>3, <2>3, <2>5, <3>1, <3>2 DEF A
  <2> QED BY <2>4, <2>5
<1> QED BY <1>2, <1>3

-----------------------------------------------------------------------------
(* Queries *)

\* What the searches and the traversal return of a tree with right threads.
Answers(h) ==
  LET A == Held(h)
  IN  /\ \A k \in Nodes :
           /\ avl_search(h, k) = Set!Find(A, k)
           /\ avl_search_greater(h, k) = Set!AtLeast(A, k)
           /\ avl_search_smaller(h, k) = Set!AtMost(A, k)
      /\ avl_first(h) = Set!Least(A)
      /\ avl_last(h) = Set!Greatest(A)
      /\ \A n \in A :
           /\ avl_next(h, n) = Set!Above(A, n) /\ h.next[n] = avl_next(h, n)
           /\ avl_prev(h, n) = Set!Below(A, n) /\ h.prev[n] = avl_prev(h, n)

\* The walks from a node of the tree, and its threads, lead to its neighbours.
LEMMA NeighboursAre ==
  ASSUME NEW h, NEW b, Grown(h, b), Threaded(h), NEW n \in Held(h)
  PROVE  /\ avl_next(h, n) = Set!Above(Held(h), n) /\ h.next[n] = avl_next(h, n)
         /\ avl_prev(h, n) = Set!Below(Held(h), n) /\ h.prev[n] = avl_prev(h, n)
<1>1. Held(h) \subseteq Nodes /\ n \in Nodes
  BY DEF Held
<1>2. /\ Lowest(Above(Held(h), n), avl_next(h, n)) /\ Lowest(Above(Held(h), n), h.next[n])
      /\ Highest(Beneath(Held(h), n), avl_prev(h, n)) /\ Highest(Beneath(Held(h), n), h.prev[n])
  BY NextIs, PrevIs DEF Threaded
<1>3. Above(Held(h), n) \in SUBSET Nodes /\ Beneath(Held(h), n) \in SUBSET Nodes
  BY <1>1 DEF Above, Beneath
<1>4. /\ Set!Least(Above(Held(h), n)) = avl_next(h, n) /\ h.next[n] = avl_next(h, n)
      /\ Set!Greatest(Beneath(Held(h), n)) = avl_prev(h, n) /\ h.prev[n] = avl_prev(h, n)
  BY <1>2, <1>3, LowestOnce
<1>5. /\ {x \in Held(h) : x > n} = Above(Held(h), n)
      /\ {x \in Held(h) : x < n} = Beneath(Held(h), n)
  <2>1. \A x \in Held(h) : x > n <=> n < x
    OBVIOUS
  <2> QED BY <2>1 DEF Above, Beneath
<1>6. /\ Set!Above(Held(h), n) = Set!Least(Above(Held(h), n))
      /\ Set!Below(Held(h), n) = Set!Greatest(Beneath(Held(h), n))
  BY <1>5 DEF Set!Above, Set!Below
<1> QED BY <1>4, <1>6

\* What the three searches return.
LEMMA SearchesAre ==
  ASSUME NEW h, NEW b, Grown(h, b), NEW k \in Nodes
  PROVE  /\ avl_search(h, k) = Set!Find(Held(h), k)
         /\ avl_search_greater(h, k) = Set!AtLeast(Held(h), k)
         /\ avl_search_smaller(h, k) = Set!AtMost(Held(h), k)
<1> DEFINE A == Held(h)
           p == LastSeen(h, k)
           U == {x \in A : x >= k}
           L == {x \in A : x <= k}
<1>1. A \subseteq Nodes /\ Null \notin Nodes /\ k \in Int /\ k # Null /\ (\A m \in A : m \in Int)
  BY KeysAre DEF Held
<1>2. /\ h.root = Null <=> p = Null
      /\ p # Null => p \in A /\ p \in Nodes
      /\ k \in A <=> p = k
  BY LastSeenFound
<1>3. p # Null /\ k \notin A => \A y \in A : y # p => (y < k <=> y < p)
  BY LastSeenNext
<1>4. p = Null => A = {}
  BY <1>2, Subtrees
<1>5. p # Null => Lowest(Above(A, p), avl_next(h, p)) /\ Highest(Beneath(A, p), avl_prev(h, p))
  BY <1>2, NextIs, PrevIs
<1>6. avl_search(h, k) = Set!Find(A, k)
  BY <1>1, <1>2 DEF avl_search, Set!Find, Set!None, Null
<1>7. /\ avl_search_greater(h, k) = IF p = Null \/ Cmp(p, k) >= 0 THEN p ELSE avl_next(h, p)
      /\ avl_search_smaller(h, k) = IF p = Null \/ Cmp(p, k) <= 0 THEN p ELSE avl_prev(h, p)
  BY DEF avl_search_greater, avl_search_smaller
<1> HIDE DEF A, p
<1>8. Lowest(U, avl_search_greater(h, k)) /\ Highest(L, avl_search_smaller(h, k))
  <2>1. CASE p = Null
    <3>1. U = {} /\ L = {}
      BY <1>4, <2>1
    <3> QED BY <1>7, <2>1, <3>1 DEF Lowest, Highest
  <2>2. CASE p = k
    <3>1. Cmp(p, k) = 0
      BY <1>1, <2>2 DEF Cmp
    <3> QED BY <1>1, <1>2, <1>7, <2>2, <3>1 DEF Lowest, Highest
  <2>3. CASE p # Null /\ p # k
    <3>1. /\ p \in A /\ p \in Int /\ k \notin A
          /\ \A y \in A : y # p => (y < k <=> y < p)
      BY <1>1, <1>2, <1>3, <2>3
    <3>2. CASE k < p
      <4>1. \A y \in A : y <= k <=> y < p
        <5> SUFFICES ASSUME NEW y \in A PROVE y <= k <=> y < p
          OBVIOUS
        <5>1. y \in Int /\ y # k
          BY <1>1, <3>1
        <5> QED BY <1>1, <3>1, <3>2, <5>1
      <4>2. L = Beneath(A, p)
        BY <4>1 DEF Beneath
      <4>3. \A y \in U : p <= y
        <5> SUFFICES ASSUME NEW y \in A, k <= y PROVE p <= y
          OBVIOUS
        <5>1. y \in Int /\ y # k
          BY <1>1, <3>1
        <5> QED BY <1>1, <3>1, <3>2, <5>1
      <4>4. Cmp(p, k) >= 0 /\ ~(Cmp(p, k) <= 0) /\ p >= k
        BY <1>1, <3>1, <3>2 DEF Cmp
      <4>5. Lowest(U, p)
        BY <2>3, <3>1, <4>3, <4>4 DEF Lowest
      <4> HIDE DEF L, U
      <4> QED BY <1>5, <1>7, <2>3, <4>2, <4>4, <4>5
    <3>3. CASE ~(k < p)
      <4>1. \A y \in A : y >= k <=> p < y
        <5> SUFFICES ASSUME NEW y \in A PROVE y >= k <=> p < y
          OBVIOUS
        <5>1. y \in Int /\ y # k
          BY <1>1, <3>1
        <5> QED BY <1>1, <3>1, <3>3, <2>3, <5>1
      <4>2. U = Above(A, p)
        BY <4>1 DEF Above
      <4>3. \A y \in L : y <= p
        <5> SUFFICES ASSUME NEW y \in A, y <= k PROVE y <= p
          OBVIOUS
        <5>1. y \in Int /\ y # k
          BY <1>1, <3>1
        <5> QED BY <1>1, <3>1, <3>3, <5>1
      <4>4. ~(Cmp(p, k) >= 0) /\ Cmp(p, k) <= 0 /\ p <= k
        BY <1>1, <2>3, <3>1, <3>3 DEF Cmp
      <4>5. Highest(L, p)
        BY <2>3, <3>1, <4>3, <4>4 DEF Highest
      <4> HIDE DEF L, U
      <4> QED BY <1>5, <1>7, <2>3, <4>2, <4>4, <4>5
    <3> QED BY <3>2, <3>3
  <2> QED BY <2>1, <2>2, <2>3
<1>9. U \in SUBSET Nodes /\ L \in SUBSET Nodes
  BY <1>1
<1>10. Set!AtLeast(A, k) = Set!Least(U) /\ Set!AtMost(A, k) = Set!Greatest(L)
  BY DEF Set!AtLeast, Set!AtMost
<1> HIDE DEF U, L
<1> QED BY <1>6, <1>8, <1>9, <1>10, LowestOnce DEF A

\* What all the queries return.
LEMMA AnswersAre ==
  ASSUME NEW h, NEW b, Grown(h, b), Threaded(h)
  PROVE  Answers(h)
<1>1. avl_first(h) = Set!Least(Held(h)) /\ avl_last(h) = Set!Greatest(Held(h))
  <2>1. h.root \in OrNull /\ b[h.root] = Held(h) /\ b[Null] = {} /\ Held(h) \subseteq Nodes
    BY Subtrees DEF Held
  <2>2. Lowest(Held(h), First(h, h.root)) /\ Highest(Held(h), Last(h, h.root))
    <3>1. CASE h.root = Null
      BY <2>1, <3>1 DEF First, Last, Lowest, Highest
    <3>2. CASE h.root # Null
      BY <2>1, <3>2, FirstIs DEF OrNull
    <3> QED BY <3>1, <3>2
  <2> QED BY <2>1, <2>2, LowestOnce DEF avl_first, avl_last
<1> QED BY <1>1, SearchesAre, NeighboursAre DEF Answers

-----------------------------------------------------------------------------
(* Assignments to one field *)

\* What one assignment to a field makes of h: everything else is the same.
LeftPut(h, g, n, v) ==
  /\ g \in Trees /\ g.root = h.root /\ g.right = h.right /\ g.parent = h.parent
  /\ g.prev = h.prev /\ g.next = h.next /\ g.bf = h.bf /\ g.checked = h.checked
  /\ \A m \in Nodes : g.left[m] = IF m = n THEN v ELSE h.left[m]

RightPut(h, g, n, v) ==
  /\ g \in Trees /\ g.root = h.root /\ g.left = h.left /\ g.parent = h.parent
  /\ g.prev = h.prev /\ g.next = h.next /\ g.bf = h.bf /\ g.checked = h.checked
  /\ \A m \in Nodes : g.right[m] = IF m = n THEN v ELSE h.right[m]

ParentPut(h, g, n, v) ==
  /\ g \in Trees /\ g.root = h.root /\ g.left = h.left /\ g.right = h.right
  /\ g.prev = h.prev /\ g.next = h.next /\ g.bf = h.bf /\ g.checked = h.checked
  /\ \A m \in Nodes : g.parent[m] = IF m = n THEN v ELSE h.parent[m]

BfPut(h, g, n, i, good) ==
  /\ g \in Trees /\ g.root = h.root /\ g.left = h.left /\ g.right = h.right
  /\ g.parent = h.parent /\ g.prev = h.prev /\ g.next = h.next
  /\ g.checked = (h.checked /\ good)
  /\ \A m \in Nodes : g.bf[m] = IF m = n THEN i ELSE h.bf[m]

\* The child o of p becomes n.
ChildPut(h, g, p, o, n) ==
  /\ g \in Trees /\ g.root = h.root /\ g.parent = h.parent
  /\ g.prev = h.prev /\ g.next = h.next /\ g.bf = h.bf /\ g.checked = h.checked
  /\ \A m \in Nodes : g.left[m] = IF m = p /\ h.left[p] = o THEN n ELSE h.left[m]
  /\ \A m \in Nodes : g.right[m] = IF m = p /\ h.left[p] # o THEN n ELSE h.right[m]

\* The assignments do that.
LEMMA PutFields ==
  ASSUME NEW h \in Trees, NEW n \in Nodes, NEW v \in OrNull, NEW i \in Int
  PROVE  /\ LeftPut(h, [h EXCEPT !.left[n] = v], n, v)
         /\ RightPut(h, [h EXCEPT !.right[n] = v], n, v)
         /\ ParentPut(h, [h EXCEPT !.parent[n] = v], n, v)
         /\ BfPut(h, [h EXCEPT !.bf[n] = i], n, i, TRUE)
         /\ BfPut(h, SetBf(h, n, i), n, i, i \in -1 .. 1)
<1>1. LeftPut(h, [h EXCEPT !.left[n] = v], n, v)
  BY DEF Trees, LeftPut
<1>2. RightPut(h, [h EXCEPT !.right[n] = v], n, v)
  BY DEF Trees, RightPut
<1>3. ParentPut(h, [h EXCEPT !.parent[n] = v], n, v)
  BY DEF Trees, ParentPut
<1>4. BfPut(h, [h EXCEPT !.bf[n] = i], n, i, TRUE)
  BY DEF Trees, BfPut
<1>5. BfPut(h, SetBf(h, n, i), n, i, i \in -1 .. 1)
  BY DEF Trees, BfPut, SetBf
<1> QED BY <1>1, <1>2, <1>3, <1>4, <1>5

\* if (n) avl_set_parent(n, v)
LEMMA SetParentPuts ==
  ASSUME NEW h \in Trees, NEW n \in OrNull, NEW v \in OrNull
  PROVE  ParentPut(h, SetParent(h, n, v), n, v)
<1>1. CASE n = Null
  BY <1>1, NullIsNoNode DEF SetParent, ParentPut
<1>2. CASE n # Null
  <2>1. n \in Nodes /\ SetParent(h, n, v) = [h EXCEPT !.parent[n] = v]
    BY <1>2 DEF SetParent, OrNull
  <2>2. ParentPut(h, [h EXCEPT !.parent[n] = v], n, v)
    BY <2>1 DEF Trees, ParentPut
  <2> QED BY <2>1, <2>2
<1> QED BY <1>1, <1>2

\* _replace_child
LEMMA ReplaceChildPuts ==
  ASSUME NEW h \in Trees, NEW p \in OrNull, NEW o, NEW n \in OrNull
  PROVE  ChildPut(h, ReplaceChild(h, p, o, n), p, o, n)
<1>1. CASE p = Null
  BY <1>1, NullIsNoNode DEF ReplaceChild, ChildPut
<1>2. CASE p # Null /\ h.left[p] = o
  <2>1. p \in Nodes /\ ReplaceChild(h, p, o, n) = [h EXCEPT !.left[p] = n]
    BY <1>2 DEF ReplaceChild, OrNull
  <2>2. ChildPut(h, [h EXCEPT !.left[p] = n], p, o, n)
    BY <1>2, <2>1 DEF Trees, ChildPut
  <2> QED BY <2>1, <2>2
<1>3. CASE p # Null /\ h.left[p] # o
  <2>1. p \in Nodes /\ ReplaceChild(h, p, o, n) = [h EXCEPT !.right[p] = n]
    BY <1>3 DEF ReplaceChild, OrNull
  <2>2. ChildPut(h, [h EXCEPT !.right[p] = n], p, o, n)
    BY <1>3, <2>1 DEF Trees, ChildPut
  <2> QED BY <2>1, <2>2
<1> QED BY <1>1, <1>2, <1>3

\* Everything about a node is written.
Cleaned(h, e, k, p) ==
  /\ e \in Trees /\ e.root = h.root /\ e.checked = h.checked
  /\ \A m \in Nodes : e.parent[m] = IF m = k THEN p ELSE h.parent[m]
  /\ \A m \in Nodes : e.left[m] = IF m = k THEN Null ELSE h.left[m]
  /\ \A m \in Nodes : e.right[m] = IF m = k THEN Null ELSE h.right[m]
  /\ \A m \in Nodes : e.bf[m] = IF m = k THEN 0 ELSE h.bf[m]
  /\ \A m \in Nodes : e.next[m] = IF m = k THEN Null ELSE h.next[m]
  /\ \A m \in Nodes : e.prev[m] = IF m = k THEN Null ELSE h.prev[m]

\* What is written of a node that is linked in, or forgotten.
LEMMA ClearedCleans ==
  ASSUME NEW h \in Trees, NEW k \in Nodes, NEW p \in OrNull
  PROVE  Cleaned(h, Cleared(h, k, p), k, p)
<1>1. Null \in OrNull /\ 0 \in Int
  BY DEF OrNull
<1> DEFINE a == [h EXCEPT !.parent[k] = p]
           c == [a EXCEPT !.bf[k] = 0]
           d == [c EXCEPT !.left[k] = Null]
           f == [d EXCEPT !.right[k] = Null]
           g == [f EXCEPT !.prev[k] = Null]
           e == Cleared(h, k, p)
<1>2. e = [g EXCEPT !.next[k] = Null]
  BY DEF Cleared
<1> HIDE DEF e
<1>3. ParentPut(h, a, k, p)
  BY <1>1, PutFields
<1>4. a \in Trees
  BY <1>3 DEF ParentPut
<1> HIDE DEF a
<1>5. BfPut(a, c, k, 0, TRUE)
  BY <1>1, <1>4, PutFields
<1>6. c \in Trees
  BY <1>5 DEF BfPut
<1> HIDE DEF c
<1>7. LeftPut(c, d, k, Null)
  BY <1>1, <1>6, PutFields
<1>8. d \in Trees
  BY <1>7 DEF LeftPut
<1> HIDE DEF d
<1>9. RightPut(d, f, k, Null)
  BY <1>1, <1>8, PutFields
<1>10. f \in Trees
  BY <1>9 DEF RightPut
<1> HIDE DEF f
<1>11. /\ g \in Trees /\ g.root = f.root /\ g.left = f.left /\ g.right = f.right /\ g.parent = f.parent
       /\ g.next = f.next /\ g.bf = f.bf /\ g.checked = f.checked
       /\ \A m \in Nodes : g.prev[m] = IF m = k THEN Null ELSE f.prev[m]
  BY <1>1, <1>10 DEF Trees
<1> HIDE DEF g
<1>12. /\ e \in Trees /\ e.root = g.root /\ e.left = g.left /\ e.right = g.right /\ e.parent = g.parent
       /\ e.prev = g.prev /\ e.bf = g.bf /\ e.checked = g.checked
       /\ \A m \in Nodes : e.next[m] = IF m = k THEN Null ELSE g.next[m]
  BY <1>1, <1>2, <1>11 DEF Trees
<1>13. /\ e \in Trees /\ e.root = h.root /\ e.checked = h.checked
       /\ \A m \in Nodes : e.parent[m] = IF m = k THEN p ELSE h.parent[m]
       /\ \A m \in Nodes : e.left[m] = IF m = k THEN Null ELSE h.left[m]
  BY <1>3, <1>5, <1>7, <1>9, <1>11, <1>12 DEF ParentPut, BfPut, LeftPut, RightPut, Trees
<1>14. /\ \A m \in Nodes : e.right[m] = IF m = k THEN Null ELSE h.right[m]
       /\ \A m \in Nodes : e.bf[m] = IF m = k THEN 0 ELSE h.bf[m]
  BY <1>3, <1>5, <1>7, <1>9, <1>11, <1>12 DEF ParentPut, BfPut, LeftPut, RightPut
<1>15. /\ \A m \in Nodes : e.next[m] = IF m = k THEN Null ELSE h.next[m]
       /\ \A m \in Nodes : e.prev[m] = IF m = k THEN Null ELSE h.prev[m]
  BY <1>3, <1>5, <1>7, <1>9, <1>11, <1>12 DEF ParentPut, BfPut, LeftPut, RightPut
<1> QED BY <1>13, <1>14, <1>15 DEF Cleaned, e

\* The threads of h with n taken out, which keeps its own.
Skips(h, g, n) ==
  /\ \A m \in Nodes : m # n => g.next[m] = IF m = h.prev[n] THEN h.next[n] ELSE h.next[m]
  /\ \A m \in Nodes : m # n => g.prev[m] = IF m = h.next[n] THEN h.prev[n] ELSE h.prev[m]

\* What avl_remove does to the threads.
LEMMA UnthreadFields ==
  ASSUME NEW h \in Trees, NEW n \in Nodes, NEW g, g = Unthread(h, n), h.prev[n] # n
  PROVE  /\ g \in Trees /\ g.root = h.root /\ g.left = h.left /\ g.right = h.right
         /\ g.parent = h.parent /\ g.bf = h.bf /\ g.checked = h.checked /\ Skips(h, g, n)
<1> DEFINE q == h.prev[n]
           r == h.next[n]
           e == IF q = Null THEN h ELSE [h EXCEPT !.next[q] = r]
<1>1. q \in OrNull /\ r \in OrNull /\ Null \notin Nodes
  BY NullIsNoNode DEF Trees
<1>2. /\ e \in Trees /\ e.root = h.root /\ e.left = h.left /\ e.right = h.right
      /\ e.parent = h.parent /\ e.bf = h.bf /\ e.checked = h.checked /\ e.prev = h.prev
      /\ \A m \in Nodes : e.next[m] = IF m = q THEN r ELSE h.next[m]
  <2>1. CASE q = Null
    BY <1>1, <2>1
  <2>2. CASE q # Null
    <3>1. q \in Nodes
      BY <1>1, <2>2 DEF OrNull
    <3> HIDE DEF q, r
    <3> QED BY <1>1, <2>2, <3>1 DEF Trees
  <2> QED BY <2>1, <2>2
<1>4. g = IF r = Null THEN e ELSE [e EXCEPT !.prev[r] = q]
  BY DEF Unthread
<1> HIDE DEF e
<1>5. /\ g \in Trees /\ g.root = e.root /\ g.left = e.left /\ g.right = e.right
      /\ g.parent = e.parent /\ g.bf = e.bf /\ g.checked = e.checked /\ g.next = e.next
      /\ \A m \in Nodes : g.prev[m] = IF m = r THEN q ELSE e.prev[m]
  <2>1. CASE r = Null
    BY <1>1, <1>2, <1>4, <2>1
  <2>2. CASE r # Null
    <3>1. r \in Nodes
      BY <1>1, <2>2 DEF OrNull
    <3> HIDE DEF q, r
    <3> QED BY <1>1, <1>2, <1>4, <2>2, <3>1 DEF Trees
  <2> QED BY <2>1, <2>2
<1> QED BY <1>2, <1>5 DEF Skips

-----------------------------------------------------------------------------
(* The removal of a node with a right subtree *)

\* n is the next node after o, at the left end of its right subtree.
Heir(h, b, o, n) ==
  /\ o \in Held(h) /\ h.right[o] # Null /\ n \in b[h.right[o]]
  /\ \A m \in b[h.right[o]] : n <= m

\* The two nodes and their neighbours, where two of them may be the same and
\* where not.
HeirKin(h, o, n, low, high, child, p, q) ==
  /\ o \in Nodes /\ n \in Nodes /\ high \in Nodes /\ p \in Nodes
  /\ low \in OrNull /\ child \in OrNull /\ q \in OrNull
  /\ n \in Held(h) /\ n # o /\ high # o /\ p # n /\ q # o /\ q # n /\ h.left[n] = Null
  /\ low # Null => low # n /\ low # o /\ low # high /\ low # p /\ h.parent[low] = o /\ low \in Held(h)
  /\ child # Null => /\ child # o /\ child # n /\ child # low /\ child # high /\ child # p
                     /\ h.parent[child] = n /\ child \in Held(h)
  /\ high \in Held(h) /\ h.parent[high] = o
  /\ p = o <=> n = high
  /\ p # o => h.left[p] = n /\ h.right[p] # n /\ p # q
  /\ \A m \in Nodes : h.left[m] = n => m = p /\ p # o
  /\ \A m \in Nodes : h.right[m] = n => m = p /\ p = o
  /\ \A m \in Held(h) : h.parent[m] = o => m = low \/ m = high
  /\ \A m \in Held(h) : h.parent[m] = n => m = child
  /\ \A m \in Nodes : h.left[m] = o \/ h.right[m] = o => m = q
  /\ \A m \in Nodes : h.left[m] = o => h.right[m] # o
  /\ q # Null => h.left[q] = o \/ h.right[q] = o
  /\ q = Null <=> o = h.root

\* The next node after o, and its neighbours, are where HeirKin says.
LEMMA HeirFacts ==
  ASSUME NEW h, NEW b, Grown(h, b), NEW o, NEW n, Heir(h, b, o, n)
  PROVE  HeirKin(h, o, n, h.left[o], h.right[o], h.right[n], h.parent[n], h.parent[o])
<1> DEFINE low == h.left[o]
           high == h.right[o]
           child == h.right[n]
           p == h.parent[n]
           q == h.parent[o]
<1>1. /\ o \in Held(h) /\ o \in Nodes /\ high # Null /\ n \in b[high] /\ Null \notin Nodes
      /\ \A m \in b[high] : n <= m
  BY NullIsNoNode DEF Heir, Held
<1>2. /\ low \in OrNull /\ high \in OrNull /\ q \in OrNull /\ h.root \in OrNull
      /\ b[o] = {o} \cup b[low] \cup b[high] /\ b[o] \subseteq Nodes
      /\ o \notin b[low] /\ o \notin b[high] /\ b[low] \cap b[high] = {} /\ b[Null] = {}
      /\ b[h.root] = Held(h) /\ Held(h) \subseteq Nodes
  BY <1>1, Subtrees DEF Held
<1>3. /\ n \in Nodes /\ n # o /\ high \in Nodes /\ high \in b[high]
      /\ b[n] \subseteq b[high] /\ n \in b[n]
  <2>1. high \in Nodes
    BY <1>1, <1>2 DEF OrNull
  <2>2. n \in Nodes /\ n # o
    BY <1>1, <1>2
  <2>3. b[n] \subseteq b[high]
    BY <1>1, <2>1, Subtrees
  <2> QED BY <2>1, <2>2, <2>3, SubtreeLinks
<1>4. /\ high \in Held(h) /\ h.parent[high] = o /\ high # o
      /\ low # Null => low \in Held(h) /\ h.parent[low] = o /\ low # o /\ low # high
  BY <1>1, Kin
<1>5. n \in Held(h) /\ b[high] \subseteq Held(h)
  BY <1>1, <1>4, Kin
<1>6. /\ child \in OrNull /\ h.left[n] \in OrNull /\ p \in OrNull
      /\ b[n] = {n} \cup b[h.left[n]] \cup b[child] /\ (\A m \in b[h.left[n]] : m < n)
  BY <1>3, Subtrees
<1>7. h.left[n] = Null
  <2> SUFFICES ASSUME h.left[n] # Null PROVE FALSE
    OBVIOUS
  <2> DEFINE c == h.left[n]
  <2>1. c \in Nodes /\ c \in b[c]
    <3>1. c \in Nodes
      BY <1>6 DEF OrNull
    <3> QED BY <3>1, SubtreeLinks
  <2>2. c \in b[high] /\ c < n
    BY <1>3, <1>6, <2>1
  <2>3. c \in Nat /\ n \in Nat
    BY <1>3, <2>1, KeysAre
  <2> QED BY <1>1, <2>2, <2>3
<1>8. child # Null => /\ child \in Held(h) /\ h.parent[child] = n /\ child # n /\ child \in b[n]
                      /\ child \in Nodes
  <2> SUFFICES ASSUME child # Null PROVE child \in Held(h) /\ h.parent[child] = n /\ child # n
                                         /\ child \in b[n] /\ child \in Nodes
    OBVIOUS
  <2>1. child \in Held(h) /\ h.parent[child] = n /\ child # n
    BY <1>3, Kin
  <2>2. child \in Nodes /\ child \in b[child]
    BY <1>2, <2>1, SubtreeLinks
  <2> QED BY <1>6, <2>1, <2>2
<1>9. low # Null => low \in b[low] /\ low \in Nodes
  <2> SUFFICES ASSUME low # Null PROVE low \in b[low] /\ low \in Nodes
    OBVIOUS
  <2>1. low \in Nodes
    BY <1>2 DEF OrNull
  <2> QED BY <2>1, SubtreeLinks
<1>10. low # Null => low # n
  BY <1>1, <1>2, <1>9
<1>11. child # Null => child # o /\ child # low /\ child # high
  BY <1>1, <1>2, <1>3, <1>4, <1>8, <1>9
<1>12. n # h.root
  <2>1. h.root = n => o \in b[high]
    BY <1>1, <1>2, <1>3
  <2> QED BY <1>2, <2>1
<1>13. p \in Held(h) /\ p \in Nodes /\ p # Null /\ (h.left[p] = n \/ h.right[p] = n) /\ p # n
  <2>1. p # Null
    BY <1>5, <1>12, Kin
  <2>2. p \in Held(h) /\ (h.left[p] = n \/ h.right[p] = n)
    BY <1>5, <2>1, Kin
  <2>3. p # n
    BY <1>3 DEF Grown
  <2> QED BY <1>2, <2>1, <2>2, <2>3
<1>14. n # high => p \in b[high] /\ h.left[p] = n /\ h.right[p] # n
  <2> SUFFICES ASSUME n # high PROVE p \in b[high] /\ h.left[p] = n /\ h.right[p] # n
    OBVIOUS
  <2>1. p \in b[high]
    BY <1>1, <1>4, Kin
  <2>2. ASSUME h.right[p] = n PROVE FALSE
    <3>1. p < n
      BY <1>3, <1>13, <2>2, Subtrees
    <3>2. p \in Nat /\ n \in Nat
      BY <1>3, <1>13, KeysAre
    <3> QED BY <1>1, <2>1, <3>1, <3>2
  <2> QED BY <1>13, <2>1, <2>2
<1>15. /\ p = o <=> n = high
       /\ low # Null => low # p
       /\ p # o => p # q
  <2>1. n = high => p = o
    BY <1>4
  <2>2. n # high => p # o
    BY <1>2, <1>14
  <2>3. low # Null => low # p
    BY <1>2, <1>4, <1>9, <1>14, <2>1
  <2>4. ASSUME p # o, p = q PROVE FALSE
    <3>1. p \in b[high] /\ b[p] \subseteq b[high]
      <4>1. p \in b[high]
        BY <1>14, <2>1, <2>4
      <4> QED BY <1>3, <4>1, Subtrees
    <3>2. h.left[p] = o \/ h.right[p] = o
      BY <1>1, <1>13, <2>4, Kin
    <3>3. o \in b[o]
      BY <1>2
    <3>4. o \in b[p]
      BY <1>13, <3>2, <3>3, Subtrees
    <3> QED BY <1>2, <3>1, <3>4
  <2> QED BY <2>1, <2>2, <2>3, <2>4
<1>16. child # Null => child # p
  <2> SUFFICES ASSUME child # Null, child = p PROVE FALSE
    OBVIOUS
  <2>1. p \in b[n] /\ n \notin b[p]
    <3>1. n \notin b[child]
      BY <1>3, Kin
    <3> QED BY <1>8, <3>1
  <2>2. n \in b[p]
    BY <1>3, <1>13, Subtrees
  <2> QED BY <2>1, <2>2
<1>17. q # o /\ q # n
  <2>1. q # o
    BY <1>1 DEF Grown
  <2>2. ASSUME q = n PROVE FALSE
    <3>1. h.left[n] = o \/ h.right[n] = o
      BY <1>1, <1>3, <2>2, Kin
    <3>2. o \in b[n]
      BY <1>2, <1>3, <3>1, Subtrees
    <3> QED BY <1>2, <1>3, <3>2
  <2> QED BY <2>1, <2>2
<1>18. ASSUME NEW m \in Nodes
       PROVE  /\ h.left[m] = n => m = p /\ p # o
              /\ h.right[m] = n => m = p /\ p = o
              /\ h.left[m] = o \/ h.right[m] = o => m = q
              /\ h.left[m] = o => h.right[m] # o
  <2>1. /\ h.left[m] = n \/ h.right[m] = n => m = p
        /\ h.left[m] = o \/ h.right[m] = o => m = q
        /\ h.left[m] = o => h.right[m] # o
    BY <1>1, <1>3, Kin
  <2>2. h.left[o] = n => FALSE
    BY <1>1, <1>3, <1>10
  <2> QED BY <1>14, <1>15, <2>1, <2>2
<1>19. /\ \A m \in Held(h) : h.parent[m] = o => m = low \/ m = high
       /\ \A m \in Held(h) : h.parent[m] = n => m = child
  <2>1. ASSUME NEW m \in Held(h), NEW k \in Nodes, h.parent[m] = k
        PROVE  h.left[k] = m \/ h.right[k] = m
    <3>1. h.parent[m] # Null
      BY <1>1, <2>1
    <3> QED BY <2>1, <3>1, Kin
  <2>2. \A m \in Held(h) : m # Null
    BY <1>1, <1>2
  <2> QED BY <1>1, <1>3, <1>7, <2>1, <2>2
<1>20. /\ q # Null => h.left[q] = o \/ h.right[q] = o
       /\ q = Null <=> o = h.root
  BY <1>1, Kin
<1> HIDE DEF low, high, child, p, q
<1>21. HeirKin(h, o, n, low, high, child, p, q)
  BY <1>1, <1>2, <1>3, <1>4, <1>5, <1>6, <1>7, <1>8, <1>9, <1>10, <1>11, <1>13, <1>14, <1>15,
     <1>16, <1>17, <1>18, <1>19, <1>20 DEF HeirKin
<1> QED BY <1>21 DEF low, high, child, p, q

\* The links of g are those of h with n at the place of o, and nothing about o.
Succeeded(h, g, o, n, low, high, child, p, q) ==
  /\ g \in Trees /\ g.root = IF q = Null THEN n ELSE h.root
  /\ \A m \in Nodes : g.parent[m] = IF m = o THEN Null ELSE IF m = n THEN q
                                    ELSE IF m = child THEN IF p = o THEN n ELSE p
                                    ELSE IF m = low \/ m = high THEN n ELSE h.parent[m]
  /\ \A m \in Nodes : g.left[m] = IF m = o THEN Null ELSE IF m = n THEN low
                                  ELSE IF m = p THEN child
                                  ELSE IF m = q /\ h.left[q] = o THEN n ELSE h.left[m]
  /\ \A m \in Nodes : g.right[m] = IF m = o THEN Null
                                   ELSE IF m = n THEN IF p = o THEN child ELSE high
                                   ELSE IF m = q /\ h.left[q] # o THEN n ELSE h.right[m]

\* The balance factors: n takes that of o.
Balanceds(h, g, o, n) ==
  /\ \A m \in Nodes : g.bf[m] = IF m = o THEN 0 ELSE IF m = n THEN h.bf[o] ELSE h.bf[m]
  /\ g.checked = (h.checked /\ h.bf[o] \in -1 .. 1)

\* What avl_remove makes of the tree when there is a right subtree.
LEMMA ReplaceBySuccessorFields ==
  ASSUME NEW h \in Trees, NEW o, NEW n, NEW low, NEW high, NEW child, NEW p, NEW q,
         low = h.left[o], high = h.right[o], child = h.right[n], p = h.parent[n], q = h.parent[o],
         HeirKin(h, o, n, low, high, child, p, q),
         NEW u, u = Unthread(h, o), h.prev[o] # o,
         NEW s, s = ReplaceBySuccessor(u, o, n),
         NEW g, g = Forgotten(IF h.root # o THEN s.tree ELSE [s.tree EXCEPT !.root = n], o)
  PROVE  /\ Succeeded(h, g, o, n, low, high, child, p, q) /\ Balanceds(h, g, o, n) /\ Skips(h, g, o)
         /\ s.cur = (IF p = o THEN n ELSE p) /\ s.bf = (IF p = o THEN -1 ELSE 1)
<1> DEFINE e0 == [u EXCEPT !.left[p] = child]
           e == SetParent(e0, child, p)
           d == IF p = o THEN u ELSE e
           c == ReplaceChild(d, q, o, n)
           f0 == [c EXCEPT !.right[n] = high]
           f == SetParent(f0, high, n)
           v == IF p = o THEN c ELSE f
           w0 == [v EXCEPT !.left[n] = low]
           w == SetParent(w0, low, n)
           x == [w EXCEPT !.parent[n] = q]
           y == SetBf(x, n, h.bf[o])
           z == IF h.root # o THEN y ELSE [y EXCEPT !.root = n]
<1>1. /\ o \in Nodes /\ n \in Nodes /\ high \in Nodes /\ p \in Nodes
      /\ low \in OrNull /\ child \in OrNull /\ q \in OrNull
      /\ n # o /\ high # o /\ p # n /\ q # o /\ q # n
      /\ low # Null => low # n /\ low # o /\ low # high
      /\ child # Null => child # o /\ child # n /\ child # low /\ child # high
      /\ p = o <=> n = high
      /\ p # o => h.left[p] = n /\ p # q
      /\ q = Null <=> o = h.root
      /\ high \in OrNull /\ n \in OrNull /\ p \in OrNull /\ Null \notin Nodes
  BY NullIsNoNode DEF HeirKin, OrNull
<1>2. /\ u \in Trees /\ u.root = h.root /\ u.left = h.left /\ u.right = h.right
      /\ u.parent = h.parent /\ u.bf = h.bf /\ u.checked = h.checked /\ Skips(h, u, o)
  BY <1>1, UnthreadFields
<1>3. h.bf[o] \in Int
  BY <1>1 DEF Trees
<1>4. LeftPut(u, e0, p, child)
  BY <1>1, <1>2, PutFields, <1>3
<1>5. e0 \in Trees
  BY <1>4 DEF LeftPut
<1>6. Detach(u, o, n) = d
  BY <1>2 DEF Detach
<1> HIDE DEF e0
<1>7. ParentPut(e0, e, child, p)
  BY <1>1, <1>5, SetParentPuts
<1>8. e \in Trees
  BY <1>7 DEF ParentPut
<1> HIDE DEF e
<1>9. /\ d \in Trees /\ d.root = h.root /\ d.right = h.right /\ d.bf = h.bf /\ d.checked = h.checked
      /\ d.prev = u.prev /\ d.next = u.next
      /\ \A m \in Nodes : d.parent[m] = IF p # o /\ m = child THEN p ELSE h.parent[m]
      /\ \A m \in Nodes : d.left[m] = IF p # o /\ m = p THEN child ELSE h.left[m]
  <2>1. CASE p = o
    BY <1>2, <2>1
  <2>2. CASE p # o
    BY <1>2, <1>4, <1>7, <2>2 DEF LeftPut, ParentPut
  <2> QED BY <2>1, <2>2
<1> HIDE DEF d
<1>10. ChildPut(d, c, q, o, n)
  BY <1>1, <1>9, ReplaceChildPuts
<1>11. /\ c \in Trees /\ c.root = h.root /\ c.parent = d.parent /\ c.bf = h.bf /\ c.checked = h.checked
       /\ c.prev = u.prev /\ c.next = u.next
       /\ \A m \in Nodes : c.left[m] = IF m = q /\ h.left[q] = o THEN n
                                       ELSE IF p # o /\ m = p THEN child ELSE h.left[m]
       /\ \A m \in Nodes : c.right[m] = IF m = q /\ h.left[q] # o THEN n ELSE h.right[m]
  <2>1. q # Null => d.left[q] = h.left[q]
    BY <1>1, <1>9 DEF OrNull
  <2> QED BY <1>1, <1>9, <1>10, <2>1 DEF ChildPut
<1> HIDE DEF c
<1>12. p # o => c.right[o] = high
  BY <1>1, <1>11
<1>13. RightPut(c, f0, n, high)
  BY <1>1, <1>3, <1>11, PutFields
<1>14. f0 \in Trees
  BY <1>13 DEF RightPut
<1> HIDE DEF f0
<1>15. ParentPut(f0, f, high, n)
  BY <1>1, <1>14, SetParentPuts
<1> HIDE DEF f
<1>16. /\ v \in Trees /\ v.root = h.root /\ v.left = c.left /\ v.bf = h.bf /\ v.checked = h.checked
       /\ v.prev = u.prev /\ v.next = u.next
       /\ \A m \in Nodes : v.right[m] = IF p # o /\ m = n THEN high
                                        ELSE IF m = q /\ h.left[q] # o THEN n ELSE h.right[m]
       /\ \A m \in Nodes : v.parent[m] = IF p # o /\ m = high THEN n
                                         ELSE IF p # o /\ m = child THEN p ELSE h.parent[m]
  <2>1. CASE p = o
    BY <1>9, <1>11, <2>1
  <2>2. CASE p # o
    BY <1>9, <1>11, <1>13, <1>15, <2>2 DEF RightPut, ParentPut
  <2> QED BY <2>1, <2>2
<1>17. /\ s.tree = y /\ s.cur = (IF p = o THEN n ELSE p) /\ s.bf = (IF p = o THEN -1 ELSE 1)
  <2>1. (u.right[o] = n) <=> p = o
    BY <1>1, <1>2
  <2>2. u.parent[o] = q /\ u.parent[n] = p /\ u.left[o] = low /\ u.bf[o] = h.bf[o]
    BY <1>2
  <2>3. (IF u.right[o] = n THEN c ELSE SetParent([c EXCEPT !.right[n] = c.right[o]], c.right[o], n)) = v
    BY <1>12, <2>1 DEF f, f0
  <2> HIDE DEF v
  <2>4. SetParent([v EXCEPT !.left[n] = low], low, n) = w
    OBVIOUS
  <2> HIDE DEF w
  <2> QED BY <1>6, <2>1, <2>2, <2>3, <2>4 DEF ReplaceBySuccessor, c
<1> HIDE DEF v
<1>18. LeftPut(v, w0, n, low)
  BY <1>1, <1>3, <1>16, PutFields
<1>19. w0 \in Trees
  BY <1>18 DEF LeftPut
<1> HIDE DEF w0
<1>20. ParentPut(w0, w, low, n)
  BY <1>1, <1>19, SetParentPuts
<1>21. w \in Trees
  BY <1>20 DEF ParentPut
<1> HIDE DEF w
<1>22. ParentPut(w, x, n, q)
  BY <1>1, <1>3, <1>21, PutFields
<1>23. x \in Trees
  BY <1>22 DEF ParentPut
<1> HIDE DEF x
<1>24. BfPut(x, y, n, h.bf[o], h.bf[o] \in -1 .. 1)
  BY <1>1, <1>3, <1>23, PutFields
<1> HIDE DEF y
<1>25. /\ z \in Trees /\ z.root = (IF q = Null THEN n ELSE h.root) /\ z.left = y.left /\ z.right = y.right
       /\ z.parent = y.parent /\ z.bf = y.bf /\ z.checked = y.checked
       /\ z.prev = y.prev /\ z.next = y.next
  <2>1. y \in Trees /\ y.root = h.root
    BY <1>16, <1>18, <1>20, <1>22, <1>24 DEF LeftPut, ParentPut, BfPut
  <2> QED BY <1>1, <2>1 DEF Trees
<1>26. Cleaned(z, g, o, Null)
  <2>1. Null \in OrNull /\ g = Forgotten(z, o)
    BY <1>17 DEF OrNull
  <2> HIDE DEF z
  <2> QED BY <1>1, <1>25, <2>1, ClearedCleans DEF Forgotten
<1> HIDE DEF z
<1>27. \A m \in Nodes : y.left[m] = IF m = n THEN low ELSE IF m = q /\ h.left[q] = o THEN n
                                    ELSE IF p # o /\ m = p THEN child ELSE h.left[m]
  <2>1. y.left = x.left /\ x.left = w.left /\ w.left = w0.left
    BY <1>20, <1>22, <1>24 DEF ParentPut, BfPut
  <2>2. v.left = c.left /\ \A m \in Nodes : w0.left[m] = IF m = n THEN low ELSE v.left[m]
    BY <1>16, <1>18 DEF LeftPut
  <2>3. \A m \in Nodes : y.left[m] = IF m = n THEN low ELSE c.left[m]
    BY <2>1, <2>2
  <2>4. \A m \in Nodes : c.left[m] = IF m = q /\ h.left[q] = o THEN n
                                     ELSE IF p # o /\ m = p THEN child ELSE h.left[m]
    BY <1>11
  <2> QED BY ONLY <2>3, <2>4
<1>28. \A m \in Nodes : y.right[m] = IF p # o /\ m = n THEN high
                                     ELSE IF m = q /\ h.left[q] # o THEN n ELSE h.right[m]
  <2>1. y.right = x.right /\ x.right = w.right /\ w.right = w0.right /\ w0.right = v.right
    BY <1>18, <1>20, <1>22, <1>24 DEF LeftPut, ParentPut, BfPut
  <2>2. \A m \in Nodes : v.right[m] = IF p # o /\ m = n THEN high
                                      ELSE IF m = q /\ h.left[q] # o THEN n ELSE h.right[m]
    BY <1>16
  <2> QED BY ONLY <2>1, <2>2
<1>29. \A m \in Nodes : y.parent[m] = IF m = n THEN q ELSE IF m = low THEN n
                                      ELSE IF p # o /\ m = high THEN n
                                      ELSE IF p # o /\ m = child THEN p ELSE h.parent[m]
  <2>1. y.parent = x.parent /\ w0.parent = v.parent
    BY <1>18, <1>24 DEF LeftPut, BfPut
  <2>2. \A m \in Nodes : x.parent[m] = IF m = n THEN q ELSE w.parent[m]
    BY <1>22 DEF ParentPut
  <2>3. \A m \in Nodes : w.parent[m] = IF m = low THEN n ELSE w0.parent[m]
    BY <1>20 DEF ParentPut
  <2>4. \A m \in Nodes : v.parent[m] = IF p # o /\ m = high THEN n
                                       ELSE IF p # o /\ m = child THEN p ELSE h.parent[m]
    BY <1>16
  <2> QED BY ONLY <2>1, <2>2, <2>3, <2>4
<1>30. /\ \A m \in Nodes : y.bf[m] = IF m = n THEN h.bf[o] ELSE h.bf[m]
       /\ y.checked = (h.checked /\ h.bf[o] \in -1 .. 1)
  BY <1>16, <1>18, <1>20, <1>22, <1>24 DEF LeftPut, ParentPut, BfPut
<1>31. y.prev = u.prev /\ y.next = u.next
  BY <1>16, <1>18, <1>20, <1>22, <1>24 DEF LeftPut, ParentPut, BfPut
<1>32. Skips(h, g, o)
  BY <1>2, <1>25, <1>26, <1>31 DEF Skips, Cleaned
<1>33. Balanceds(h, g, o, n)
  BY <1>1, <1>25, <1>26, <1>30 DEF Balanceds, Cleaned
<1>34. \A m \in Nodes : g.left[m] = IF m = o THEN Null ELSE IF m = n THEN low
                                    ELSE IF m = p THEN child
                                    ELSE IF m = q /\ h.left[q] = o THEN n ELSE h.left[m]
  <2> SUFFICES ASSUME NEW m \in Nodes
               PROVE  g.left[m] = IF m = o THEN Null ELSE IF m = n THEN low
                                  ELSE IF m = p THEN child
                                  ELSE IF m = q /\ h.left[q] = o THEN n ELSE h.left[m]
    OBVIOUS
  <2>1. g.left[m] = IF m = o THEN Null ELSE y.left[m]
    BY <1>25, <1>26 DEF Cleaned
  <2> QED BY <1>1, <1>27, <2>1
<1>35. \A m \in Nodes : g.right[m] = IF m = o THEN Null
                                     ELSE IF m = n THEN IF p = o THEN child ELSE high
                                     ELSE IF m = q /\ h.left[q] # o THEN n ELSE h.right[m]
  <2> SUFFICES ASSUME NEW m \in Nodes
               PROVE  g.right[m] = IF m = o THEN Null
                                   ELSE IF m = n THEN IF p = o THEN child ELSE high
                                   ELSE IF m = q /\ h.left[q] # o THEN n ELSE h.right[m]
    OBVIOUS
  <2>1. g.right[m] = IF m = o THEN Null ELSE y.right[m]
    BY <1>25, <1>26 DEF Cleaned
  <2> QED BY <1>1, <1>28, <2>1
<1>36. \A m \in Nodes : g.parent[m] = IF m = o THEN Null ELSE IF m = n THEN q
                                      ELSE IF m = child THEN IF p = o THEN n ELSE p
                                      ELSE IF m = low \/ m = high THEN n ELSE h.parent[m]
  <2> SUFFICES ASSUME NEW m \in Nodes
               PROVE  g.parent[m] = IF m = o THEN Null ELSE IF m = n THEN q
                                    ELSE IF m = child THEN IF p = o THEN n ELSE p
                                    ELSE IF m = low \/ m = high THEN n ELSE h.parent[m]
    OBVIOUS
  <2>1. g.parent[m] = IF m = o THEN Null ELSE y.parent[m]
    BY <1>25, <1>26 DEF Cleaned
  <2>2. child # Null => h.parent[child] = n
    BY DEF HeirKin
  <2> QED BY <1>1, <1>29, <2>1, <2>2
<1>37. Succeeded(h, g, o, n, low, high, child, p, q)
  BY <1>25, <1>26, <1>34, <1>35, <1>36 DEF Succeeded, Cleaned
<1> QED BY <1>17, <1>32, <1>33, <1>37

\* The next node in the place of a node makes a search tree again.
LEMMA SucceededGrown ==
  ASSUME NEW h, NEW b, Grown(h, b), NEW o, NEW n, Heir(h, b, o, n),
         NEW low, NEW high, NEW child, NEW p, NEW q,
         low = h.left[o], high = h.right[o], child = h.right[n], p = h.parent[n], q = h.parent[o],
         NEW g, Succeeded(h, g, o, n, low, high, child, p, q)
  PROVE  Held(g) = Held(h) \ {o} /\ \E d : Grown(g, d)
<1> DEFINE t == View(h, {})
           u == Rb!InitNode(Rb!Unlink(t, n, child), n)
           w == View(g, {})
           d == [m \in OrNull |-> IF m = n THEN {n} ELSE b[m] \ {n}]
<1>1. HeirKin(h, o, n, low, high, child, p, q)
  BY HeirFacts
<1>2. /\ o \in Nodes /\ n \in Nodes /\ high \in Nodes /\ p \in Nodes
      /\ low \in OrNull /\ child \in OrNull /\ q \in OrNull
      /\ n \in Held(h) /\ n # o /\ high # o /\ p # n /\ q # o /\ q # n /\ h.left[n] = Null
      /\ low # Null => low # n /\ low # o /\ low # high /\ low # p /\ h.parent[low] = o /\ low \in Held(h)
      /\ child # Null => /\ child # o /\ child # n /\ child # low /\ child # high /\ child # p
                         /\ h.parent[child] = n /\ child \in Held(h)
      /\ high \in Held(h) /\ h.parent[high] = o
      /\ p = o <=> n = high
      /\ p # o => h.left[p] = n /\ h.right[p] # n /\ p # q
      /\ q = Null <=> o = h.root
  BY <1>1 DEF HeirKin
<1>3. /\ \A m \in Nodes : h.left[m] = n => m = p /\ p # o
      /\ \A m \in Nodes : h.right[m] = n => m = p /\ p = o
      /\ \A m \in Held(h) : h.parent[m] = o => m = low \/ m = high
      /\ \A m \in Held(h) : h.parent[m] = n => m = child
      /\ \A m \in Nodes : h.left[m] = o \/ h.right[m] = o => m = q
      /\ \A m \in Nodes : h.left[m] = o => h.right[m] # o
      /\ q # Null => h.left[q] = o \/ h.right[q] = o
  BY <1>1 DEF HeirKin
<1>4. /\ o \in Held(h) /\ Null \notin Nodes /\ n \in b[high] /\ \A m \in b[high] : n <= m
  BY NullIsNoNode DEF Heir
<1>5. /\ h \in Trees /\ Rb!Grown(t, b) /\ t \in Rb!Trees /\ t.root = h.root /\ Rb!Placed(t) = Held(h)
      /\ \A m \in Nodes : t.kid[m]["left"] = h.left[m] /\ t.kid[m]["right"] = h.right[m]
      /\ \A m \in Nodes : t.parent[m] = IF m \in Held(h) THEN h.parent[m] ELSE m
      /\ \A m \in Nodes : h.parent[m] # m
  BY ViewFields, ViewPlaces DEF Grown
<1> HIDE DEF t
<1>6. Rb!Loose(t, n, "right", child, p)
  BY <1>2, <1>5, Sides DEF Rb!Loose
<1>7. Rb!Unlinked(t, u, n, child, p)
  BY <1>5, <1>6, RbAssumed, Rb!UnlinkFields
<1> HIDE DEF u
<1>8. Rb!Placed(u) = Held(h) \ {n} /\ Rb!Grown(u, d)
  <2>1. /\ Rb!Placed(u) = Rb!Placed(t) \ {n}
        /\ Rb!Grown(u, [m \in Rb!OrNull |-> IF m = n THEN {n} ELSE b[m] \ {n}])
    BY <1>5, <1>6, <1>7, RbAssumed, Rb!UnlinkedGrown
  <2> QED BY <1>5, <2>1, KeysAre
<1>9. /\ u.root = (IF p = Null THEN child ELSE t.root)
      /\ \A m \in Nodes : u.parent[m] = IF m = n THEN n ELSE IF m = child THEN p ELSE t.parent[m]
      /\ \A m \in Nodes, r \in Rb!Side :
           u.kid[m][r] = IF m = n THEN Null ELSE IF t.kid[m][r] = n THEN child ELSE t.kid[m][r]
  BY <1>7 DEF Rb!Unlinked
<1>10. /\ \A m \in Nodes : u.kid[m]["left"] = IF m = n THEN Null ELSE IF h.left[m] = n THEN child ELSE h.left[m]
       /\ \A m \in Nodes : u.kid[m]["right"] = IF m = n THEN Null ELSE IF h.right[m] = n THEN child ELSE h.right[m]
  BY <1>5, <1>9, Sides
<1>11. Rb!Fits(u, d, o, n)
  <2>1. o \in Rb!Placed(u) /\ n \in Nodes \ Rb!Placed(u)
    BY <1>2, <1>4, <1>8
  <2>2. b \in [OrNull -> SUBSET Nodes] /\ b[Null] = {} /\ n \in b[o] /\ o \in b[o]
        /\ b[n] = {n} \cup b[h.left[n]] \cup b[child] /\ n \notin b[child]
        /\ b[o] = {o} \cup b[low] \cup b[high] /\ o \notin b[high]
    BY <1>2, <1>4, Subtrees
  <2>3. ASSUME NEW m \in Nodes, NEW r \in Rb!Side
        PROVE  /\ m = n => d[u.kid[m][r]] = {}
               /\ m # n => d[u.kid[m][r]] = b[t.kid[m][r]] \ {n}
    <3>1. u.kid[m][r] = IF m = n THEN Null ELSE IF t.kid[m][r] = n THEN child ELSE t.kid[m][r]
      BY <1>9
    <3>2. t.kid[m][r] \in OrNull /\ Null \in OrNull
      BY <1>5, Subtrees, Sides DEF OrNull
    <3> QED BY <1>2, <1>4, <2>2, <3>1, <3>2
  <2>4. ASSUME NEW m \in Nodes, NEW r \in Rb!Side, o \in d[u.kid[m][r]]
        PROVE  Rb!Beyond(r, Keyed[n], Keyed[m])
    <3>1. m # n /\ o \in b[t.kid[m][r]]
      BY <2>3, <2>4
    <3>2. CASE r = "left"
      <4>1. o \in b[h.left[m]] /\ h.left[m] \in Nodes
        <5>1. h.left[m] \in OrNull
          BY Subtrees
        <5> QED BY <1>5, <2>2, <3>1, <3>2, <5>1 DEF OrNull
      <4>2. b[o] \subseteq b[h.left[m]]
        BY <4>1, Subtrees
      <4>3. n < m
        BY <2>2, <4>2, Subtrees
      <4> QED BY <1>2, <3>2, <4>3, KeysAre
    <3>3. CASE r = "right"
      <4>1. o \in b[h.right[m]] /\ h.right[m] \in Nodes
        <5>1. h.right[m] \in OrNull
          BY Subtrees
        <5> QED BY <1>5, <2>2, <3>1, <3>3, <5>1 DEF OrNull
      <4>2. b[o] \subseteq b[h.right[m]]
        BY <4>1, Subtrees
      <4>3. m < n
        BY <2>2, <4>2, Subtrees
      <4> QED BY <1>2, <3>3, <4>3, KeysAre
    <3> QED BY <3>2, <3>3, Sides
  <2>5. ASSUME NEW r \in Rb!Side, NEW m \in d[u.kid[o][r]]
        PROVE  Rb!Beyond(r, Keyed[m], Keyed[n])
    <3>1. m \in b[t.kid[o][r]] /\ m # n
      BY <1>2, <2>3, <2>5
    <3>2. CASE r = "left"
      <4>1. m \in b[low] /\ m \in Nodes
        BY <1>2, <1>5, <2>2, <3>1, <3>2
      <4>2. m < o /\ o < n
        BY <1>2, <1>4, <4>1, Subtrees
      <4>3. m \in Nat /\ o \in Nat /\ n \in Nat
        BY <1>2, <4>1, KeysAre
      <4>4. m < n
        BY <4>2, <4>3
      <4> QED BY <1>2, <3>2, <4>1, <4>4, KeysAre
    <3>3. CASE r = "right"
      <4>1. m \in b[high] /\ m \in Nodes
        BY <1>2, <1>5, <2>2, <3>1, <3>3 DEF OrNull
      <4>2. n <= m /\ m \in Nat /\ n \in Nat
        BY <1>2, <1>4, <4>1, KeysAre
      <4>3. n < m
        BY <3>1, <4>2
      <4> QED BY <1>2, <3>3, <4>1, <4>3, KeysAre
    <3> QED BY <3>2, <3>3, Sides
  <2>6. \A m \in Rb!Placed(u) \ {o} : Keyed[m] # Keyed[n]
    <3>1. Held(h) \subseteq Nodes
      BY DEF Held
    <3> QED BY <1>2, <1>8, <3>1, KeysAre
  <2> HIDE DEF d
  <2> QED BY <2>1, <2>4, <2>5, <2>6 DEF Rb!Fits
<1>12. /\ g \in Trees /\ g.root = (IF q = Null THEN n ELSE h.root)
       /\ \A m \in Nodes : g.parent[m] = IF m = o THEN Null ELSE IF m = n THEN q
                                    ELSE IF m = child THEN IF p = o THEN n ELSE p
                                    ELSE IF m = low \/ m = high THEN n ELSE h.parent[m]
       /\ \A m \in Nodes : g.left[m] = IF m = o THEN Null ELSE IF m = n THEN low
                                  ELSE IF m = p THEN child
                                  ELSE IF m = q /\ h.left[q] = o THEN n ELSE h.left[m]
       /\ \A m \in Nodes : g.right[m] = IF m = o THEN Null
                                   ELSE IF m = n THEN IF p = o THEN child ELSE high
                                   ELSE IF m = q /\ h.left[q] # o THEN n ELSE h.right[m]
  BY DEF Succeeded
<1>13. \A m \in Nodes : g.parent[m] # m
  <2> SUFFICES ASSUME NEW m \in Nodes PROVE g.parent[m] # m
    OBVIOUS
  <2>1. h.parent[m] # m /\ m # Null
    BY <1>4, <1>5
  <2>2. g.parent[m] = IF m = o THEN Null ELSE IF m = n THEN q
                      ELSE IF m = child THEN IF p = o THEN n ELSE p
                      ELSE IF m = low \/ m = high THEN n ELSE h.parent[m]
    BY <1>12
  <2> QED BY <1>2, <2>1, <2>2
<1>14. Held(g) = Held(h) \ {o}
  <2>1. ASSUME NEW m \in Nodes PROVE m \in Held(g) <=> m \in Held(h) /\ m # o
    <3>1. /\ m \in Held(g) <=> m = g.root \/ g.parent[m] # Null
          /\ m \in Held(h) <=> m = h.root \/ h.parent[m] # Null
          /\ o # Null /\ n # Null /\ p # Null
      BY <1>2, <1>4 DEF Held
    <3>2. g.parent[m] = IF m = o THEN Null ELSE IF m = n THEN q
                        ELSE IF m = child THEN IF p = o THEN n ELSE p
                        ELSE IF m = low \/ m = high THEN n ELSE h.parent[m]
      BY <1>12
    <3>3. CASE m = o
      BY <1>2, <1>12, <3>1, <3>2, <3>3
    <3>4. CASE m = n
      BY <1>2, <1>12, <3>1, <3>2, <3>4
    <3>5. CASE m # o /\ m # n
      <4>1. m = child \/ m = low \/ m = high => m \in Held(h) /\ m # Null
        BY <1>2, <1>4
      <4>2. m = g.root => m = h.root
        BY <1>12, <3>5
      <4>3. m = h.root => m = g.root
        BY <1>2, <1>12, <3>5
      <4> QED BY <3>1, <3>2, <3>5, <4>1, <4>2, <4>3
    <3> QED BY <3>3, <3>4, <3>5
  <2>2. Held(h) \subseteq Nodes /\ Held(g) \subseteq Nodes
    BY DEF Held
  <2> QED BY <2>1, <2>2
<1>15. /\ w \in Rb!Trees /\ w.root = g.root
       /\ \A m \in Nodes : w.kid[m]["left"] = g.left[m] /\ w.kid[m]["right"] = g.right[m]
       /\ \A m \in Nodes : w.parent[m] = IF m \in Held(g) THEN g.parent[m] ELSE m
       /\ \A a : Rb!Grown(w, a) <=> Grown(g, a)
  BY <1>12, <1>13, ViewFields, ViewPlaces
<1> HIDE DEF w
<1>16. u.parent[o] = q
  BY <1>2, <1>4, <1>5, <1>9
<1>17. ASSUME NEW m \in Nodes
       PROVE  w.parent[m] = IF m = n THEN q ELSE IF m = o THEN o
                            ELSE IF u.parent[m] = o THEN n ELSE u.parent[m]
  <2>1. /\ w.parent[m] = IF m \in Held(h) /\ m # o THEN g.parent[m] ELSE m
        /\ u.parent[m] = IF m = n THEN n ELSE IF m = child THEN p
                         ELSE IF m \in Held(h) THEN h.parent[m] ELSE m
        /\ g.parent[m] = IF m = o THEN Null ELSE IF m = n THEN q
                         ELSE IF m = child THEN IF p = o THEN n ELSE p
                         ELSE IF m = low \/ m = high THEN n ELSE h.parent[m]
        /\ m # Null
    BY <1>4, <1>5, <1>9, <1>12, <1>14, <1>15
  <2>2. CASE m = o \/ m = n \/ m = child
    BY <1>2, <1>4, <2>1, <2>2
  <2>3. CASE ~(m = o \/ m = n \/ m = child)
    BY <1>2, <1>3, <1>4, <2>1, <2>3
  <2> QED BY <2>2, <2>3
<1>18. ASSUME NEW m \in Nodes
       PROVE  /\ w.kid[m]["left"] = IF m = o THEN Null ELSE IF m = n THEN u.kid[o]["left"]
                                    ELSE IF u.kid[m]["left"] = o THEN n ELSE u.kid[m]["left"]
              /\ w.kid[m]["right"] = IF m = o THEN Null ELSE IF m = n THEN u.kid[o]["right"]
                                     ELSE IF u.kid[m]["right"] = o THEN n ELSE u.kid[m]["right"]
  <2>0. o # Null /\ n # Null /\ p # Null /\ m # Null /\ high # Null
    BY <1>2, <1>4
  <2>1. u.kid[o]["left"] = low /\ u.kid[o]["right"] = IF p = o THEN child ELSE high
    BY <1>2, <1>10, <2>0
  <2>2. /\ w.kid[m]["left"] = IF m = o THEN Null ELSE IF m = n THEN low
                                  ELSE IF m = p THEN child
                                  ELSE IF m = q /\ h.left[q] = o THEN n ELSE h.left[m]
        /\ w.kid[m]["right"] = IF m = o THEN Null
                                   ELSE IF m = n THEN IF p = o THEN child ELSE high
                                   ELSE IF m = q /\ h.left[q] # o THEN n ELSE h.right[m]
    BY <1>12, <1>15
  <2>3. /\ u.kid[m]["left"] = IF m = n THEN Null ELSE IF h.left[m] = n THEN child ELSE h.left[m]
        /\ u.kid[m]["right"] = IF m = n THEN Null ELSE IF h.right[m] = n THEN child ELSE h.right[m]
    BY <1>10
  <2>4. child # o
    BY <1>2, <2>0
  <2>5. /\ h.left[m] = n => m = p /\ p # o
        /\ h.right[m] = n => m = p /\ p = o
        /\ h.left[m] = o \/ h.right[m] = o => m = q
        /\ h.left[m] = o => h.right[m] # o
        /\ q # Null => h.left[q] = o \/ h.right[q] = o
    BY <1>3
  <2>6. CASE m = o \/ m = n
    BY <1>2, <2>1, <2>2, <2>6
  <2>7. CASE m # o /\ m # n
    <3>1. w.kid[m]["left"] = IF u.kid[m]["left"] = o THEN n ELSE u.kid[m]["left"]
      <4>1. CASE m = p
        BY <1>2, <2>0, <2>2, <2>3, <2>4, <2>7, <4>1
      <4>2. CASE m # p
        BY <2>2, <2>3, <2>4, <2>5, <2>7, <4>2
      <4> QED BY <4>1, <4>2
    <3>2. w.kid[m]["right"] = IF u.kid[m]["right"] = o THEN n ELSE u.kid[m]["right"]
      BY <2>0, <2>2, <2>3, <2>4, <2>5, <2>7
    <3> QED BY <2>7, <3>1, <3>2
  <2> QED BY <2>6, <2>7
<1>19. Rb!Placing(u, w, o, n)
  <2>1. w.root = IF u.parent[o] = Null THEN n ELSE u.root
    BY <1>2, <1>4, <1>5, <1>9, <1>12, <1>15, <1>16
  <2>2. \A m \in Nodes, r \in Rb!Side :
          w.kid[m][r] = IF m = o THEN Null ELSE IF m = n THEN u.kid[o][r]
                        ELSE IF u.kid[m][r] = o THEN n ELSE u.kid[m][r]
    BY <1>18, Sides
  <2> QED BY <1>15, <1>16, <1>17, <2>1, <2>2 DEF Rb!Placing
<1>20. \E a : Rb!Grown(w, a)
  <2> HIDE DEF d
  <2> QED BY <1>8, <1>11, <1>19, RbAssumed, Rb!PlacedGrown
<1> QED BY <1>14, <1>15, <1>20

-----------------------------------------------------------------------------
(* The removal of a node without a right subtree *)

\* The links of g are those of h with c, the left child, at the place of o.
Lifted(h, g, o, c, q) ==
  /\ g \in Trees /\ g.root = IF q = Null THEN c ELSE h.root
  /\ \A m \in Nodes : g.parent[m] = IF m = o THEN Null ELSE IF m = c THEN q ELSE h.parent[m]
  /\ \A m \in Nodes : g.left[m] = IF m = o THEN Null ELSE IF m = q /\ h.left[q] = o THEN c ELSE h.left[m]
  /\ \A m \in Nodes : g.right[m] = IF m = o THEN Null ELSE IF m = q /\ h.left[q] # o THEN c ELSE h.right[m]

\* What avl_remove makes of the tree then.
LEMMA ReplaceByLeftFields ==
  ASSUME NEW h \in Trees, NEW o \in Nodes, NEW c \in OrNull, NEW q \in OrNull,
         c = h.left[o], q = h.parent[o], c # o, q # o, q = Null <=> o = h.root,
         NEW u, u = Unthread(h, o), h.prev[o] # o,
         NEW s, s = ReplaceByLeft(u, o),
         NEW g, g = Forgotten(IF h.root # o THEN s.tree ELSE [s.tree EXCEPT !.root = c], o)
  PROVE  /\ Lifted(h, g, o, c, q) /\ Skips(h, g, o)
         /\ g.checked = h.checked /\ \A m \in Nodes : g.bf[m] = IF m = o THEN 0 ELSE h.bf[m]
         /\ s.cur = q /\ s.bf = (IF q # Null /\ h.left[q] = o THEN 1 ELSE -1)
<1> DEFINE e == ReplaceChild(u, q, o, c)
           y == SetParent(e, c, q)
           z == IF h.root # o THEN y ELSE [y EXCEPT !.root = c]
<1>1. Null \notin Nodes /\ Null \in OrNull /\ o \in OrNull
  BY NullIsNoNode DEF OrNull
<1>2. /\ u \in Trees /\ u.root = h.root /\ u.left = h.left /\ u.right = h.right
      /\ u.parent = h.parent /\ u.bf = h.bf /\ u.checked = h.checked /\ Skips(h, u, o)
  BY UnthreadFields
<1>3. /\ s.tree = y /\ s.cur = q /\ s.bf = (IF q # Null /\ h.left[q] = o THEN 1 ELSE -1)
  BY <1>2 DEF ReplaceByLeft
<1>4. ChildPut(u, e, q, o, c)
  BY <1>2, ReplaceChildPuts
<1>5. e \in Trees
  BY <1>4 DEF ChildPut
<1> HIDE DEF e
<1>6. ParentPut(e, y, c, q)
  BY <1>5, SetParentPuts
<1> HIDE DEF y
<1>7. /\ z \in Trees /\ z.root = (IF q = Null THEN c ELSE h.root) /\ z.left = y.left /\ z.right = y.right
      /\ z.parent = y.parent /\ z.bf = y.bf /\ z.checked = y.checked
      /\ z.prev = y.prev /\ z.next = y.next
  <2>1. y \in Trees /\ y.root = h.root
    BY <1>2, <1>4, <1>6 DEF ParentPut, ChildPut
  <2> QED BY <2>1 DEF Trees
<1>8. Cleaned(z, g, o, Null)
  <2>1. g = Forgotten(z, o)
    BY <1>3
  <2> HIDE DEF z
  <2> QED BY <1>1, <1>7, <2>1, ClearedCleans DEF Forgotten
<1> HIDE DEF z
<1>9. /\ g \in Trees /\ g.root = z.root /\ g.checked = z.checked
      /\ \A m \in Nodes : g.parent[m] = IF m = o THEN Null ELSE z.parent[m]
      /\ \A m \in Nodes : g.left[m] = IF m = o THEN Null ELSE z.left[m]
      /\ \A m \in Nodes : g.right[m] = IF m = o THEN Null ELSE z.right[m]
      /\ \A m \in Nodes : g.bf[m] = IF m = o THEN 0 ELSE z.bf[m]
  BY <1>8 DEF Cleaned
<1>10. /\ z.left = e.left /\ z.right = e.right /\ z.bf = h.bf /\ z.checked = h.checked
       /\ z.next = u.next /\ z.prev = u.prev
       /\ \A m \in Nodes : z.parent[m] = IF m = c THEN q ELSE h.parent[m]
  BY <1>2, <1>4, <1>6, <1>7 DEF ParentPut, ChildPut
<1>11. /\ \A m \in Nodes : e.left[m] = IF m = q /\ h.left[q] = o THEN c ELSE h.left[m]
       /\ \A m \in Nodes : e.right[m] = IF m = q /\ h.left[q] # o THEN c ELSE h.right[m]
  BY <1>2, <1>4 DEF ChildPut
<1>12. Lifted(h, g, o, c, q)
  <2>1. \A m \in Nodes : g.left[m] = IF m = o THEN Null
                                     ELSE IF m = q /\ h.left[q] = o THEN c ELSE h.left[m]
    <3>1. z.left = e.left /\ \A m \in Nodes : g.left[m] = IF m = o THEN Null ELSE z.left[m]
      BY <1>9, <1>10
    <3>2. \A m \in Nodes : g.left[m] = IF m = o THEN Null ELSE e.left[m]
      BY ONLY <3>1
    <3> QED BY ONLY <1>11, <3>2
  <2>2. \A m \in Nodes : g.right[m] = IF m = o THEN Null
                                      ELSE IF m = q /\ h.left[q] # o THEN c ELSE h.right[m]
    <3>1. z.right = e.right /\ \A m \in Nodes : g.right[m] = IF m = o THEN Null ELSE z.right[m]
      BY <1>9, <1>10
    <3>2. \A m \in Nodes : g.right[m] = IF m = o THEN Null ELSE e.right[m]
      BY ONLY <3>1
    <3> QED BY ONLY <1>11, <3>2
  <2>3. \A m \in Nodes : g.parent[m] = IF m = o THEN Null ELSE IF m = c THEN q ELSE h.parent[m]
    BY ONLY <1>9, <1>10
  <2> QED BY <1>7, <1>9, <2>1, <2>2, <2>3 DEF Lifted
<1>13. Skips(h, g, o)
  BY <1>2, <1>8, <1>10 DEF Skips, Cleaned
<1>14. g.checked = h.checked /\ \A m \in Nodes : g.bf[m] = IF m = o THEN 0 ELSE h.bf[m]
  BY <1>9, <1>10
<1> QED BY <1>3, <1>12, <1>13, <1>14

\* The left subtree in the place of a node makes a search tree again.
LEMMA LiftedGrown ==
  ASSUME NEW h, NEW b, Grown(h, b), NEW o \in Held(h), h.right[o] = Null,
         NEW c, NEW q, c = h.left[o], q = h.parent[o], NEW g, Lifted(h, g, o, c, q)
  PROVE  Held(g) = Held(h) \ {o} /\ \E d : Grown(g, d)
<1> DEFINE t == View(h, {})
           w == View(g, {o})
<1>1. o \in Nodes /\ Null \notin Nodes /\ c \in OrNull /\ q \in OrNull
  <2>1. o \in Nodes /\ Null \notin Nodes
    BY NullIsNoNode DEF Held
  <2> QED BY <2>1, Subtrees
<1>2. /\ h \in Trees /\ Rb!Grown(t, b) /\ t.root = h.root /\ Rb!Placed(t) = Held(h) /\ t.red = {}
      /\ \A m \in Nodes : t.kid[m]["left"] = h.left[m] /\ t.kid[m]["right"] = h.right[m]
      /\ \A m \in Nodes : t.parent[m] = IF m \in Held(h) THEN h.parent[m] ELSE m
      /\ \A m \in Nodes : h.parent[m] # m
  BY ViewFields, ViewPlaces DEF Grown
<1> HIDE DEF t
<1>3. /\ q # o /\ (q = Null <=> o = h.root)
      /\ c # Null => c # o /\ c \in Held(h) /\ h.parent[c] = o /\ c # h.root
      /\ \A m \in Nodes : h.left[m] = o \/ h.right[m] = o => m = q
      /\ \A m \in Nodes : h.left[m] = o => h.right[m] # o
      /\ q # Null => h.left[q] = o \/ h.right[q] = o
      /\ c # q \/ c = Null
  <2>1. /\ q # o /\ (q = Null <=> o = h.root)
        /\ c # Null => c # o /\ c \in Held(h) /\ h.parent[c] = o /\ c # h.root /\ o \notin b[c]
        /\ q # Null => h.left[q] = o \/ h.right[q] = o
    BY <1>1, <1>2, Kin
  <2>2. \A m \in Nodes : /\ h.left[m] = o \/ h.right[m] = o => m = q
                         /\ h.left[m] = o => h.right[m] # o
    BY <1>1, Kin
  <2>3. q # Null => o \in b[q]
    <3> SUFFICES ASSUME q # Null PROVE o \in b[q]
      OBVIOUS
    <3>1. q \in Nodes /\ o \in b[o]
      BY <1>1, SubtreeLinks DEF OrNull
    <3> QED BY <2>1, <3>1, Subtrees
  <2> QED BY <2>1, <2>2, <2>3
<1>4. /\ g \in Trees /\ g.root = (IF q = Null THEN c ELSE h.root)
      /\ \A m \in Nodes : g.parent[m] = IF m = o THEN Null ELSE IF m = c THEN q ELSE h.parent[m]
      /\ \A m \in Nodes : g.left[m] = IF m = o THEN Null ELSE IF m = q /\ h.left[q] = o THEN c ELSE h.left[m]
      /\ \A m \in Nodes : g.right[m] = IF m = o THEN Null ELSE IF m = q /\ h.left[q] # o THEN c ELSE h.right[m]
  BY DEF Lifted
<1>5. ASSUME NEW m \in Nodes PROVE g.parent[m] # m
  <2>1. g.parent[m] = (IF m = o THEN Null ELSE IF m = c THEN q ELSE h.parent[m]) /\ h.parent[m] # m
    BY <1>2, <1>4
  <2> QED BY <1>1, <1>3, <2>1
<1>6. Held(g) = Held(h) \ {o}
  <2>1. ASSUME NEW m \in Nodes PROVE m \in Held(g) <=> m \in Held(h) /\ m # o
    <3>1. /\ m \in Held(g) <=> m = g.root \/ g.parent[m] # Null
          /\ m \in Held(h) <=> m = h.root \/ h.parent[m] # Null
          /\ g.parent[m] = IF m = o THEN Null ELSE IF m = c THEN q ELSE h.parent[m]
      BY <1>4 DEF Held
    <3> QED BY <1>1, <1>3, <1>4, <3>1
  <2>2. Held(h) \subseteq Nodes /\ Held(g) \subseteq Nodes
    BY DEF Held
  <2> QED BY <2>1, <2>2
<1>7. /\ w \in Rb!Trees /\ w.root = g.root /\ w.red = {o}
      /\ \A m \in Nodes : w.kid[m]["left"] = g.left[m] /\ w.kid[m]["right"] = g.right[m]
      /\ \A m \in Nodes : w.parent[m] = IF m \in Held(g) THEN g.parent[m] ELSE m
      /\ \A a : Rb!Grown(w, a) <=> Grown(g, a)
  <2>1. {o} \in SUBSET Nodes
    BY <1>1
  <2> QED BY <1>4, <1>5, <2>1, ViewFields, ViewPlaces
<1> HIDE DEF w
<1>8. Rb!Loose(t, o, "left", c, q)
  BY <1>1, <1>2, Sides DEF Rb!Loose
<1>9. Rb!Unlinked(t, w, o, c, q)
  <2>1. w.root = IF q = Null THEN c ELSE t.root
    BY <1>2, <1>4, <1>7
  <2>2. ASSUME NEW m \in Nodes
        PROVE  w.parent[m] = IF m = o THEN o ELSE IF m = c THEN q ELSE t.parent[m]
    <3>1. /\ w.parent[m] = IF m \in Held(g) THEN g.parent[m] ELSE m
          /\ t.parent[m] = IF m \in Held(h) THEN h.parent[m] ELSE m
          /\ g.parent[m] = IF m = o THEN Null ELSE IF m = c THEN q ELSE h.parent[m]
      BY <1>2, <1>4, <1>7
    <3> QED BY <1>1, <1>3, <1>6, <3>1
  <2>3. ASSUME NEW m \in Nodes
        PROVE  /\ w.kid[m]["left"] = IF m = o THEN Null ELSE IF t.kid[m]["left"] = o THEN c ELSE t.kid[m]["left"]
               /\ w.kid[m]["right"] = IF m = o THEN Null ELSE IF t.kid[m]["right"] = o THEN c ELSE t.kid[m]["right"]
    BY <1>1, <1>2, <1>3, <1>4, <1>7
  <2>4. w.red = t.red \cup {o}
    BY <1>2, <1>7
  <2>5. \A m \in Nodes, r \in Rb!Side :
          w.kid[m][r] = IF m = o THEN Null ELSE IF t.kid[m][r] = o THEN c ELSE t.kid[m][r]
    BY <2>3, Sides
  <2> QED BY <1>7, <2>1, <2>2, <2>4, <2>5 DEF Rb!Unlinked
<1>10. \E a : Rb!Grown(w, a)
  BY <1>2, <1>8, <1>9, RbAssumed, Rb!UnlinkedGrown
<1> QED BY <1>6, <1>7, <1>10

-----------------------------------------------------------------------------
(* The operations on the links *)

\* A search tree with right threads.
Ordered(h) == (\E b : Grown(h, b)) /\ Threaded(h)

\* The threads after a node has come between its neighbours.
LEMMA BetweenThreads ==
  ASSUME NEW h, Threaded(h), NEW k \in Nodes, k \notin Held(h), NEW g, Held(g) = Held(h) \cup {k},
         NEW q, Highest(Beneath(Held(h), k), q), NEW r, Lowest(Above(Held(h), k), r),
         Between(h, g, k, q, r)
  PROVE  Threaded(g)
<1>1. Held(h) \in SUBSET Nodes /\ k \in Nodes \ Held(h) /\ k \in Nat
  BY KeysAre DEF Held
<1>2. ASSUME NEW m \in Held(h)
      PROVE  /\ Lowest(Above(Held(g), m), g.next[m]) /\ Highest(Beneath(Held(g), m), g.prev[m])
  <2>1. m \in Nodes /\ m # k
    BY <1>1
  <2>2. /\ g.next[m] = (IF m = q THEN k ELSE h.next[m])
        /\ g.prev[m] = (IF m = r THEN k ELSE h.prev[m])
    BY <2>1 DEF Between
  <2>3. Lowest(Above(Held(h), m), h.next[m]) /\ Highest(Beneath(Held(h), m), h.prev[m])
    BY DEF Threaded
  <2>4. ASSUME NEW A \in SUBSET Nodes, A = Held(h), NEW x, x = h.next[m], NEW y, y = h.prev[m]
        PROVE  /\ Lowest(Above(A \cup {k}, m), IF m = q THEN k ELSE x)
               /\ Highest(Beneath(A \cup {k}, m), IF m = r THEN k ELSE y)
    <3>1. /\ k \in Nodes \ A /\ m \in A /\ Highest(Beneath(A, k), q) /\ Lowest(Above(A, k), r)
          /\ Lowest(Above(A, m), x) /\ Highest(Beneath(A, m), y)
      BY <1>1, <2>3, <2>4
    <3> QED BY ONLY <3>1, A \in SUBSET Nodes, OneMore
  <2> QED BY <1>1, <2>2, <2>4
<1>3. Lowest(Above(Held(g), k), g.next[k]) /\ Highest(Beneath(Held(g), k), g.prev[k])
  <2>1. g.next[k] = r /\ g.prev[k] = q
    BY DEF Between
  <2>2. Above(Held(g), k) = Above(Held(h), k) /\ Beneath(Held(g), k) = Beneath(Held(h), k)
    BY <1>1 DEF Above, Beneath
  <2> QED BY <2>1, <2>2
<1> QED BY <1>2, <1>3 DEF Threaded

\* The threads after a node has been taken out.
LEMMA SkipsThreads ==
  ASSUME NEW h, Threaded(h), NEW o \in Held(h), NEW g, Held(g) = Held(h) \ {o}, Skips(h, g, o)
  PROVE  Threaded(g)
<1>1. Held(h) \in SUBSET Nodes
  BY DEF Held
<1>2. Lowest(Above(Held(h), o), h.next[o]) /\ Highest(Beneath(Held(h), o), h.prev[o])
  BY DEF Threaded
<1>3. ASSUME NEW m \in Held(h) \ {o}
      PROVE  /\ Lowest(Above(Held(g), m), g.next[m]) /\ Highest(Beneath(Held(g), m), g.prev[m])
  <2>1. m \in Nodes /\ m # o
    BY <1>1
  <2>2. /\ g.next[m] = (IF m = h.prev[o] THEN h.next[o] ELSE h.next[m])
        /\ g.prev[m] = (IF m = h.next[o] THEN h.prev[o] ELSE h.prev[m])
    BY <2>1 DEF Skips
  <2>3. Lowest(Above(Held(h), m), h.next[m]) /\ Highest(Beneath(Held(h), m), h.prev[m])
    BY DEF Threaded
  <2>4. ASSUME NEW A \in SUBSET Nodes, A = Held(h), NEW x, x = h.next[m], NEW y, y = h.prev[m],
               NEW q, q = h.prev[o], NEW r, r = h.next[o]
        PROVE  /\ Lowest(Above(A \ {o}, m), IF m = q THEN r ELSE x)
               /\ Highest(Beneath(A \ {o}, m), IF m = r THEN q ELSE y)
    <3>1. /\ o \in A /\ m \in A \ {o} /\ Highest(Beneath(A, o), q) /\ Lowest(Above(A, o), r)
          /\ Lowest(Above(A, m), x) /\ Highest(Beneath(A, m), y)
      BY <1>2, <2>3, <2>4
    <3> QED BY ONLY <3>1, A \in SUBSET Nodes, OneLess
  <2> QED BY <1>1, <2>2, <2>4
<1> QED BY <1>3 DEF Threaded

\* The threads of a node lead to other nodes of the tree.
LEMMA ThreadsLead ==
  ASSUME NEW h, Threaded(h), NEW m \in Held(h)
  PROVE  /\ h.next[m] # Null => h.next[m] \in Held(h) /\ h.next[m] # m
         /\ h.prev[m] # Null => h.prev[m] \in Held(h) /\ h.prev[m] # m
<1>1. Lowest(Above(Held(h), m), h.next[m]) /\ Highest(Beneath(Held(h), m), h.prev[m])
  BY DEF Threaded
<1>2. m \in Int
  BY KeysAre DEF Held
<1> QED BY <1>1, <1>2 DEF Lowest, Highest, Above, Beneath

\* What avl_insert does before its loop.
InsertLinks(h, g, k, p) ==
  /\ k \notin Held(h) /\ p \in OrNull /\ p # k /\ Linked(h, g, k, p)
  /\ (p # Null => p \in Held(h) /\ Way(h, k, p) = Null) /\ (p = Null <=> h.root = Null)
  /\ g.checked = h.checked /\ \A m \in Nodes : g.bf[m] = IF m = k THEN 0 ELSE h.bf[m]
  /\ Held(g) = Held(h) \cup {k} /\ Ordered(g)

\* Linking a new leaf keeps the order and the threads.
LEMMA InsertKeeps ==
  ASSUME NEW h, Ordered(h), NEW k \in Nodes, NEW p, LastSeen(h, k) = p, p # k,
         NEW g, g = Link(h, k, p)
  PROVE  InsertLinks(h, g, k, p)
<1> DEFINE q == IF p = Null THEN Null ELSE IF k < p THEN h.prev[p] ELSE p
           r == IF p = Null THEN Null ELSE IF k < p THEN p ELSE h.next[p]
<1>1. PICK b : Grown(h, b)
  BY DEF Ordered
<1>2. Threaded(h) /\ h \in Trees
  BY <1>1 DEF Ordered, Grown
<1>3. /\ k \notin Held(h) /\ (p # Null => p \in Held(h) /\ p \in Nodes /\ Way(h, k, p) = Null)
      /\ (p = Null <=> h.root = Null)
  BY <1>1, LastSeenFound
<1>4. p \in OrNull /\ Null \notin Nodes
  BY <1>3, NullIsNoNode DEF OrNull
<1>5. p # Null => h.prev[p] # k /\ h.next[p] # k /\ h.prev[p] # p /\ h.next[p] # p
  BY <1>2, <1>3, <1>4, ThreadsLead
<1>6. /\ Linked(h, g, k, p) /\ g.checked = h.checked
      /\ \A m \in Nodes : g.bf[m] = IF m = k THEN 0 ELSE h.bf[m]
      /\ Between(h, g, k, q, r)
  BY <1>2, <1>4, <1>5, LinkWrites DEF Linked
<1>7. Held(g) = Held(h) \cup {k} /\ \E d : Grown(g, d)
  BY <1>1, <1>3, <1>6, LinkedGrown
<1>8. Highest(Beneath(Held(h), k), q) /\ Lowest(Above(Held(h), k), r)
  BY <1>1, <1>2, <1>3, LastSeenThreads
<1> HIDE DEF q, r
<1>9. Threaded(g)
  BY <1>2, <1>3, <1>6, <1>7, <1>8, BetweenThreads
<1> QED BY <1>3, <1>4, <1>6, <1>7, <1>9 DEF InsertLinks, Ordered

\* What avl_remove does before its loop, with a right subtree and without one.
RemovesInner(h, g, o, n, s) ==
  /\ HeirKin(h, o, n, h.left[o], h.right[o], h.right[n], h.parent[n], h.parent[o])
  /\ Succeeded(h, g, o, n, h.left[o], h.right[o], h.right[n], h.parent[n], h.parent[o])
  /\ Balanceds(h, g, o, n)
  /\ s.cur = (IF h.parent[n] = o THEN n ELSE h.parent[n])
  /\ s.bf = (IF h.parent[n] = o THEN -1 ELSE 1)

RemovesOuter(h, g, o, s) ==
  /\ h.right[o] = Null /\ Lifted(h, g, o, h.left[o], h.parent[o])
  /\ g.checked = h.checked /\ \A m \in Nodes : g.bf[m] = IF m = o THEN 0 ELSE h.bf[m]
  /\ s.cur = h.parent[o]
  /\ s.bf = (IF h.parent[o] # Null /\ h.left[h.parent[o]] = o THEN 1 ELSE -1)

RemoveLinks(h, g, o, s) ==
  /\ o \in Held(h) /\ Held(g) = Held(h) \ {o} /\ Ordered(g)
  /\ s.cur # Null => s.cur \in Held(g)
  /\ s.bf \in {-1, 1}
  /\ RemovesOuter(h, g, o, s) \/ \E n \in Nodes : RemovesInner(h, g, o, n, s)

\* So does putting the next node in the place of one with a right subtree.
LEMMA RemoveKeepsInner ==
  ASSUME NEW h, Ordered(h), NEW o \in Held(h), h.right[o] # Null,
         NEW s, s = Spliced(h, o), NEW g, g = Forgotten(Rerooted(h, o, s.tree), o)
  PROVE  RemoveLinks(h, g, o, s)
<1>1. PICK b : Grown(h, b)
  BY DEF Ordered
<1>2. /\ Threaded(h) /\ h \in Trees /\ o \in Nodes /\ h.right[o] \in Nodes /\ Null \notin Nodes
      /\ b[h.right[o]] \subseteq Nodes
  <2>1. o \in Nodes /\ Null \notin Nodes
    BY NullIsNoNode DEF Held
  <2> QED BY <1>1, <2>1, Subtrees DEF Ordered, Grown, OrNull
<1> DEFINE n == First(h, h.right[o])
           low == h.left[o]
           high == h.right[o]
           child == h.right[n]
           p == h.parent[n]
           q == h.parent[o]
           u == Unthread(h, o)
<1>3. Heir(h, b, o, n)
  <2>1. Lowest(b[high], n)
    BY <1>1, <1>2, FirstIs
  <2>2. high \in b[high]
    BY <1>1, <1>2, Subtrees
  <2> HIDE DEF n
  <2> QED BY <2>1, <2>2 DEF Heir, Lowest
<1>4. n \in Nodes /\ HeirKin(h, o, n, low, high, child, p, q)
  <2>1. HeirKin(h, o, n, low, high, child, p, q)
    <3> HIDE DEF n
    <3> QED BY <1>1, <1>3, HeirFacts
  <2> QED BY <2>1 DEF HeirKin
<1>5. s = ReplaceBySuccessor(u, o, n)
      /\ g = Forgotten(IF h.root # o THEN s.tree ELSE [s.tree EXCEPT !.root = n], o)
  <2>1. n # Null
    BY <1>2, <1>4
  <2> QED BY <2>1 DEF Spliced, Rerooted
<1>6. h.prev[o] # o
  BY <1>2, ThreadsLead
<1> HIDE DEF n, u
<1>7. /\ Succeeded(h, g, o, n, low, high, child, p, q) /\ Balanceds(h, g, o, n) /\ Skips(h, g, o)
      /\ s.cur = (IF p = o THEN n ELSE p) /\ s.bf = (IF p = o THEN -1 ELSE 1)
  <2> DEFINE g0 == Forgotten(IF h.root # o THEN s.tree ELSE [s.tree EXCEPT !.root = n], o)
  <2>1. u = Unthread(h, o)
    BY DEF u
  <2> HIDE DEF low, high, child, p, q
  <2>2. low = h.left[o] /\ high = h.right[o] /\ child = h.right[n] /\ p = h.parent[n] /\ q = h.parent[o]
    BY DEF low, high, child, p, q
  <2>3. g = g0
    BY <1>5
  <2> HIDE DEF g0
  <2> QED BY <1>2, <1>4, <1>5, <1>6, <2>1, <2>2, ReplaceBySuccessorFields
<1>8. Held(g) = Held(h) \ {o} /\ \E d : Grown(g, d)
  <2> HIDE DEF low, high, child, p, q
  <2>2. low = h.left[o] /\ high = h.right[o] /\ child = h.right[n] /\ p = h.parent[n] /\ q = h.parent[o]
    BY DEF low, high, child, p, q
  <2> QED BY <1>1, <1>3, <1>7, <2>2, SucceededGrown
<1>9. Threaded(g)
  BY <1>2, <1>7, <1>8, SkipsThreads
<1>10. s.cur \in Held(g) /\ s.bf \in {-1, 1}
  <2>1. n \in Held(h) /\ n # o
    BY <1>4 DEF HeirKin
  <2>2. p # o => p \in Held(h)
    <3>1. p \in Nodes
      BY <1>4 DEF HeirKin
    <3> QED BY <1>1, <1>2, <2>1, <3>1, Kin
  <2> QED BY <1>7, <1>8, <2>1, <2>2
<1>11. RemovesInner(h, g, o, n, s)
  BY <1>4, <1>7 DEF RemovesInner
<1> QED BY <1>4, <1>8, <1>9, <1>10, <1>11 DEF RemoveLinks, Ordered

\* So does putting its left subtree in the place of one without.
LEMMA RemoveKeepsOuter ==
  ASSUME NEW h, Ordered(h), NEW o \in Held(h), h.right[o] = Null,
         NEW s, s = Spliced(h, o), NEW g, g = Forgotten(Rerooted(h, o, s.tree), o)
  PROVE  RemoveLinks(h, g, o, s)
<1>1. PICK b : Grown(h, b)
  BY DEF Ordered
<1>2. /\ Threaded(h) /\ h \in Trees /\ o \in Nodes /\ Null \notin Nodes
      /\ h.left[o] \in OrNull /\ h.parent[o] \in OrNull
  <2>1. o \in Nodes /\ Null \notin Nodes
    BY NullIsNoNode DEF Held
  <2> QED BY <1>1, <2>1, Subtrees DEF Ordered, Grown
<1> DEFINE c == h.left[o]
           q == h.parent[o]
           u == Unthread(h, o)
<1>3. /\ c # o /\ q # o /\ (q = Null <=> o = h.root) /\ (q # Null => q \in Held(h))
  <2>1. h.parent[o] # o
    BY <1>1, <1>2 DEF Grown
  <2> QED BY <1>1, <1>2, <2>1, Kin
<1>4. First(h, h.right[o]) = Null
  BY DEF First
<1>5. s = ReplaceByLeft(u, o)
      /\ g = Forgotten(IF h.root # o THEN s.tree ELSE [s.tree EXCEPT !.root = c], o)
  BY <1>4 DEF Spliced, Rerooted
<1>6. h.prev[o] # o
  BY <1>2, ThreadsLead
<1> HIDE DEF u
<1>7. /\ Lifted(h, g, o, c, q) /\ Skips(h, g, o)
      /\ g.checked = h.checked /\ \A m \in Nodes : g.bf[m] = IF m = o THEN 0 ELSE h.bf[m]
      /\ s.cur = q /\ s.bf = (IF q # Null /\ h.left[q] = o THEN 1 ELSE -1)
  <2>1. u = Unthread(h, o)
    BY DEF u
  <2>2. c \in OrNull /\ q \in OrNull
    BY <1>2
  <2> HIDE DEF c, q
  <2>3. c = h.left[o] /\ q = h.parent[o]
    BY DEF c, q
  <2> QED BY <1>2, <1>3, <1>5, <1>6, <2>1, <2>2, <2>3, ReplaceByLeftFields
<1>8. Held(g) = Held(h) \ {o} /\ \E d : Grown(g, d)
  <2> HIDE DEF c, q
  <2>3. c = h.left[o] /\ q = h.parent[o]
    BY DEF c, q
  <2> QED BY <1>1, <1>7, <2>3, LiftedGrown
<1>9. Threaded(g)
  BY <1>2, <1>7, <1>8, SkipsThreads
<1>10. (s.cur # Null => s.cur \in Held(g)) /\ s.bf \in {-1, 1}
  BY <1>3, <1>7, <1>8
<1>11. RemovesOuter(h, g, o, s)
  BY <1>7 DEF RemovesOuter
<1> QED BY <1>8, <1>9, <1>10, <1>11 DEF RemoveLinks, Ordered

\* The node that avl_remove takes out has been found in the tree.
LEMMA RemoveKeeps ==
  ASSUME NEW h, Ordered(h), NEW k \in Nodes, avl_search(h, k) = k,
         NEW s, s = Spliced(h, k), NEW g, g = Forgotten(Rerooted(h, k, s.tree), k)
  PROVE  RemoveLinks(h, g, k, s)
<1>1. PICK b : Grown(h, b)
  BY DEF Ordered
<1>2. LastSeen(h, k) = k
  BY NullIsNoNode DEF avl_search
<1>3. k \in Held(h)
  BY <1>1, <1>2, LastSeenFound
<1> QED BY <1>3, RemoveKeepsInner, RemoveKeepsOuter

\* What a pass of the loop does to the links.
LEMMA SettleKeeps ==
  ASSUME NEW h, Ordered(h), NEW n \in Held(h), NEW i \in Int,
         NEW r, r = BalanceTree(h, n, i), NEW g, g = Settled(h, n, r)
  PROVE  /\ Ordered(g) /\ Held(g) = Held(h) /\ r.node \in Held(h) /\ r.tree \in Trees
         /\ g = Over(r.tree, h.parent[n], n, r.node)
         /\ g.bf = r.tree.bf /\ g.checked = r.tree.checked
<1>1. PICK b : Grown(h, b)
  BY DEF Ordered
<1>2. /\ r.tree \in Trees /\ r.node \in b[n] /\ Reshaped(h, b, n, g, r.node)
      /\ g = Over(r.tree, h.parent[n], n, r.node)
      /\ g.prev = h.prev /\ g.next = h.next /\ g.bf = r.tree.bf /\ g.checked = r.tree.checked
  BY <1>1, SettledShape
<1>3. Held(g) = Held(h) /\ (\E d : Grown(g, d))
  BY <1>2 DEF Reshaped
<1>4. r.node \in Held(h)
  <2>1. b[n] \subseteq Held(h)
    BY <1>1, Kin
  <2> QED BY <1>2, <2>1
<1> QED BY <1>2, <1>3, <1>4 DEF Ordered, Threaded

-----------------------------------------------------------------------------
(* The links in every state *)

\* What holds of the links between two calls and between two passes of a loop.
LinksInv ==
  /\ Ordered(tree)
  /\ pc \in {"idle", "insert", "remove"} /\ lean \in -1 .. 1
  /\ IF pc = "idle" THEN node = Null ELSE node \in Held(tree)

\* Members is Held of the variable tree.
LEMMA MembersHeld == Members = Held(tree)
BY DEF Members, Held

\* The empty tree is in order.
LEMMA EmptyOrdered == Ordered(Empty) /\ Held(Empty) = {}
<1> DEFINE h == Empty
           b == [n \in OrNull |-> IF n = Null THEN {} ELSE {n}]
           t == View(h, {})
<1>1. /\ Null \notin Nodes /\ Null \in OrNull
      /\ h.root = Null /\ \A n \in Nodes : h.left[n] = Null /\ h.right[n] = Null /\ h.parent[n] = Null
  BY NullIsNoNode DEF Empty, OrNull
<1>2. h \in Trees
  BY <1>1 DEF Empty, Trees
<1>3. Held(h) = {}
  BY <1>1 DEF Held
<1> HIDE DEF h
<1>4. /\ t \in Rb!Trees /\ t.root = h.root
      /\ \A m \in Nodes : t.kid[m]["left"] = h.left[m] /\ t.kid[m]["right"] = h.right[m]
      /\ \A m \in Nodes : t.parent[m] = IF m \in Held(h) THEN h.parent[m] ELSE m
  BY <1>2, ViewFields
<1> HIDE DEF t
<1>5. /\ \A m \in Nodes : t.parent[m] = m
      /\ t.root = Null /\ \A m \in Nodes, s \in Rb!Side : t.kid[m][s] = Null
      /\ Rb!Placed(t) = {} /\ Rb!OrNull = OrNull
  <2>1. /\ \A m \in Nodes : t.parent[m] = m
        /\ t.root = Null /\ \A m \in Nodes, s \in Rb!Side : t.kid[m][s] = Null
    BY <1>1, <1>3, <1>4, Sides
  <2> QED BY <2>1, KeysAre DEF Rb!Placed
<1>6. /\ b \in [OrNull -> SUBSET Nodes] /\ b[Null] = {} /\ \A n \in Nodes : b[n] = {n}
  BY <1>1 DEF OrNull
<1> HIDE DEF b
<1>7. Rb!Joined(t)
  BY <1>1, <1>5 DEF Rb!Joined
<1>8. Rb!Spanned(t, b)
  <2>2. \A n \in Nodes : b[n] = {n} \cup b[t.kid[n]["left"]] \cup b[t.kid[n]["right"]]
    BY <1>5, <1>6, Sides
  <2>3. \A n \in Nodes, s \in Rb!Side : b[t.kid[n][s]] = {}
    BY <1>5, <1>6
  <2>4. /\ b[t.root] = Rb!Placed(t)
        /\ \A n \in Nodes : \A m \in b[n] : b[m] \subseteq b[n]
        /\ \A n \in Nodes : \A m \in b[n] \ {n} : t.parent[m] \in b[n]
        /\ \A m, n \in Rb!Placed(t) : Keyed[m] = Keyed[n] => m = n
    BY <1>5, <1>6
  <2> QED BY <1>5, <1>6, <2>2, <2>3, <2>4 DEF Rb!Spanned
<1>9. Grown(h, b)
  <2>1. Rb!Grown(t, b)
    BY <1>4, <1>7, <1>8 DEF Rb!Grown
  <2>2. \A n \in Nodes : h.parent[n] # n
    BY <1>1
  <2> QED BY <1>2, <2>1, <2>2 DEF Grown, t
<1> QED BY <1>3, <1>9 DEF Ordered, Threaded, h

\* The steps keep it, and the set of nodes changes with the calls alone: first an
\* insertion before its loop.
LEMMA InsertOrdered ==
  ASSUME LinksInv, NEW k \in Nodes, Insert(k)
  PROVE  LinksInv' /\ InsertLinks(tree, tree', k, LastSeen(tree, k))
<1>1. InsertLinks(tree, tree', k, LastSeen(tree, k))
  BY InsertKeeps DEF LinksInv, Insert
<1>2. Ordered(tree') /\ k \in Held(tree') /\ k # Null
  BY <1>1, NullIsNoNode DEF InsertLinks
<1> QED BY <1>1, <1>2 DEF LinksInv, Insert

\* So does a removal before its loop.
LEMMA RemoveOrdered ==
  ASSUME LinksInv, NEW k \in Nodes, Remove(k)
  PROVE  LinksInv' /\ RemoveLinks(tree, tree', k, Spliced(tree, k))
<1> DEFINE s == Spliced(tree, k)
<1>1. /\ pc = "idle" /\ avl_search(tree, k) = k
      /\ tree' = Forgotten(Rerooted(tree, k, s.tree), k) /\ node' = s.cur
      /\ IF s.cur = Null THEN pc' = "idle" /\ lean' = 0 ELSE pc' = "remove" /\ lean' = s.bf
  BY DEF Remove
<1> HIDE DEF s
<1>2. RemoveLinks(tree, tree', k, s)
  <2>1. s = Spliced(tree, k)
    BY DEF s
  <2>2. Ordered(tree)
    BY DEF LinksInv
  <2> QED BY <1>1, <2>1, <2>2, RemoveKeeps
<1>3. Ordered(tree') /\ (s.cur # Null => s.cur \in Held(tree')) /\ s.bf \in {-1, 1}
  BY <1>2 DEF RemoveLinks
<1> QED BY <1>1, <1>2, <1>3 DEF LinksInv, s

\* A pass of either loop keeps the nodes too.
LEMMA LoopOrdered ==
  ASSUME LinksInv, Climb \/ Stop
  PROVE  LinksInv' /\ Held(tree') = Held(tree)
<1>1. /\ Ordered(tree) /\ node \in Held(tree) /\ lean \in Int /\ pc \in {"idle", "insert", "remove"}
      /\ tree' = Settled(tree, node, Result) /\ Result = BalanceTree(tree, node, lean)
  BY DEF LinksInv, Climb, Stop, Result
<1>2. Ordered(tree') /\ Held(tree') = Held(tree)
  <2> DEFINE r == Result
  <2>1. r = BalanceTree(tree, node, lean) /\ tree' = Settled(tree, node, r)
    BY <1>1
  <2> HIDE DEF r
  <2> QED BY <1>1, <2>1, SettleKeeps
<1>3. CASE Climb
  <2>1. Parent # Null /\ node' = Parent /\ pc' = pc /\ pc # "idle" /\ lean' \in {-1, 1}
    BY <1>3 DEF Climb, GoesOn, Lean
  <2>2. Parent \in Held(tree)
    <3>1. PICK b : Grown(tree, b)
      BY <1>1 DEF Ordered
    <3> QED BY <1>1, <2>1, <3>1, Kin DEF Parent
  <2> QED BY <1>1, <1>2, <2>1, <2>2 DEF LinksInv
<1>4. CASE Stop
  BY <1>2, <1>4 DEF Stop, LinksInv
<1> QED BY <1>2, <1>3, <1>4

\* Every step keeps the links.
LEMMA NextOrdered ==
  ASSUME LinksInv, [Next]_vars
  PROVE  LinksInv'
<1>1. CASE UNCHANGED vars
  BY <1>1 DEF LinksInv, vars
<1>2. CASE Next
  BY <1>2, InsertOrdered, RemoveOrdered, LoopOrdered DEF Next, Call
<1> QED BY <1>1, <1>2

\* In every state the links are those of a search tree with right threads.
THEOREM AvlLinks == Spec => []LinksInv
<1>1. Init => LinksInv
  BY EmptyOrdered DEF Init, LinksInv
<1>2. LinksInv /\ [Next]_vars => LinksInv'
  BY NextOrdered
<1> QED BY <1>1, <1>2, PTL DEF Spec

-----------------------------------------------------------------------------
(* What the links imply *)

\* The operator Under is determined by its recursion.
LEMMA UnderIs ==
  ASSUME NEW h, NEW b, Grown(h, b)
  PROVE  Under(h) = b
<1> DEFINE F(f) == f = [n \in OrNull |-> IF n = Null THEN {}
                                         ELSE {n} \cup f[h.left[n]] \cup f[h.right[n]]]
<1>1. /\ b \in [OrNull -> SUBSET Nodes] /\ b[Null] = {} /\ Null \notin Nodes
      /\ \A n \in Nodes : b[n] = {n} \cup b[h.left[n]] \cup b[h.right[n]]
      /\ \A n \in Nodes : h.left[n] \in OrNull /\ h.right[n] \in OrNull
  BY NullIsNoNode, Subtrees
<1>2. F(b)
  BY <1>1 DEF OrNull
<1>3. Under(h) = CHOOSE f : F(f)
  BY DEF Under
<1>4. F(Under(h))
  <2> HIDE DEF F
  <2> QED BY <1>2, <1>3
<1> DEFINE a == Under(h)
           D == {n \in Nodes : a[n] # b[n]}
           t == View(h, {})
<1>5. /\ DOMAIN a = OrNull /\ a[Null] = {} /\ a = [n \in OrNull |-> a[n]]
      /\ \A n \in Nodes : a[n] = {n} \cup a[h.left[n]] \cup a[h.right[n]]
  <2> HIDE DEF a
  <2>1. F(a)
    BY <1>4 DEF a
  <2> QED BY <1>1, <2>1 DEF OrNull
<1> HIDE DEF F, a
<1>6. D = {}
  <2> SUFFICES ASSUME D # {} PROVE FALSE
    OBVIOUS
  <2>1. PICK n \in D : \A s \in Rb!Side : t.kid[n][s] \notin D
    <3>1. D \subseteq Nodes
      OBVIOUS
    <3>2. Rb!Grown(t, b)
      BY DEF Grown
    <3> HIDE DEF D, t
    <3> QED BY <3>1, <3>2, RbAssumed, Rb!TreeMin
  <2>2. n \in Nodes /\ h.left[n] \notin D /\ h.right[n] \notin D
    BY <2>1, Sides, ViewFields DEF Grown
  <2>3. a[h.left[n]] = b[h.left[n]] /\ a[h.right[n]] = b[h.right[n]]
    BY <1>1, <1>5, <2>2 DEF OrNull
  <2>4. a[n] = b[n]
    <3>1. /\ a[n] = {n} \cup a[h.left[n]] \cup a[h.right[n]]
          /\ b[n] = {n} \cup b[h.left[n]] \cup b[h.right[n]]
      BY <1>1, <1>5, <2>2
    <3> QED BY ONLY <2>3, <3>1, Zenon
  <2> QED BY <2>1, <2>4
<1>7. \A n \in OrNull : a[n] = b[n]
  BY <1>1, <1>5, <1>6 DEF OrNull
<1> QED BY <1>1, <1>5, <1>7 DEF a

\* SearchTree: what is rotated and spliced stays a search tree with all its nodes.
THEOREM AvlSearchTree == Spec => []SearchTree
<1>1. LinksInv => SearchTree
  <2> SUFFICES ASSUME LinksInv PROVE SearchTree
    OBVIOUS
  <2>1. PICK b : Grown(tree, b)
    BY DEF LinksInv, Ordered
  <2>2. Members = Held(tree) /\ Under(tree) = b
    BY <2>1, UnderIs, MembersHeld
  <2>3. /\ b[tree.root] = Held(tree) /\ tree.root \in OrNull /\ b[Null] = {}
        /\ tree.root # Null => tree.root \in Held(tree)
    BY <2>1, Subtrees DEF Held, OrNull
  <2>4. tree.root # Null => tree.parent[tree.root] = Null
    BY <2>1, <2>3, Kin
  <2>5. ASSUME NEW n \in Held(tree)
        PROVE  /\ \A c \in {tree.left[n], tree.right[n]} \ {Null} : tree.parent[c] = n
               /\ \A m \in b[tree.left[n]] : Cmp(m, n) < 0
               /\ \A m \in b[tree.right[n]] : Cmp(m, n) > 0
    <3>1. n \in Nodes /\ n \in Int
      BY KeysAre DEF Held
    <3>2. \A c \in {tree.left[n], tree.right[n]} \ {Null} : tree.parent[c] = n
      BY <2>1, <3>1, Kin
    <3>3. /\ \A m \in b[tree.left[n]] : m < n
          /\ \A m \in b[tree.right[n]] : n < m
          /\ b[tree.left[n]] \subseteq Nodes /\ b[tree.right[n]] \subseteq Nodes
      BY <2>1, <3>1, Subtrees
    <3>4. \A m \in Nodes : m \in Int
      BY ONLY AvlNodesAssumption DEF Null
    <3> QED BY <3>1, <3>2, <3>3, <3>4 DEF Cmp
  <2> QED BY <2>2, <2>3, <2>4, <2>5 DEF SearchTree
<1> QED BY <1>1, AvlLinks, PTL

\* QueriesRight: between two calls every query returns what it documents.
THEOREM AvlQueriesRight == Spec => []QueriesRight
<1>1. LinksInv => QueriesRight
  <2> SUFFICES ASSUME LinksInv PROVE QueriesRight
    OBVIOUS
  <2>1. Answers(tree)
    BY AnswersAre DEF LinksInv, Ordered
  <2> QED BY <2>1, MembersHeld DEF QueriesRight, Answers
<1> QED BY <1>1, AvlLinks, PTL

\* ImplementsSet: the calls add and remove their key, and the loops no key.
THEOREM AvlImplementsSet == Spec => ImplementsSet
<1>1. Init => Members = {}
  BY EmptyOrdered, MembersHeld DEF Init
<1>2. Members' = Held(tree')
  BY DEF Members, Held
<1>3. ASSUME LinksInv, NEW k \in Nodes, Insert(k) PROVE Set!Insert(k) /\ pc = "idle"
  <2>1. k \notin Held(tree) /\ Held(tree') = Held(tree) \cup {k}
    BY <1>3, InsertOrdered DEF InsertLinks
  <2> QED BY <1>2, <1>3, <2>1, MembersHeld DEF Set!Insert, Insert
<1>4. ASSUME LinksInv, NEW k \in Nodes, Remove(k) PROVE Set!Remove(k) /\ pc = "idle"
  <2>1. k \in Held(tree) /\ Held(tree') = Held(tree) \ {k}
    BY <1>4, RemoveOrdered DEF RemoveLinks
  <2> QED BY <1>2, <1>4, <2>1, MembersHeld DEF Set!Remove, Remove
<1>5. ASSUME LinksInv, Climb \/ Stop PROVE UNCHANGED Members /\ pc # "idle"
  <2>1. Held(tree') = Held(tree)
    BY <1>5, LoopOrdered
  <2> QED BY <1>2, <1>5, <2>1, MembersHeld DEF Climb, Stop
<1>6. LinksInv /\ [Next]_vars => [Set!Next]_Members
  <2> SUFFICES ASSUME LinksInv, [Next]_vars PROVE [Set!Next]_Members
    OBVIOUS
  <2>1. CASE UNCHANGED vars
    BY <2>1 DEF vars, Members
  <2>2. CASE Next
    BY <1>3, <1>4, <1>5, <2>2 DEF Next, Call, Set!Next
  <2> QED BY <2>1, <2>2
<1>7. LinksInv /\ [Next]_vars =>
        [IF pc = "idle"
         THEN \E k \in Nodes : (Set!Insert(k) /\ Insert(k)) \/ (Set!Remove(k) /\ Remove(k))
         ELSE UNCHANGED Members]_vars
  <2> SUFFICES ASSUME LinksInv, Next
               PROVE  IF pc = "idle"
                      THEN \E k \in Nodes : (Set!Insert(k) /\ Insert(k)) \/ (Set!Remove(k) /\ Remove(k))
                      ELSE UNCHANGED Members
    BY DEF vars
  <2> QED BY <1>3, <1>4, <1>5 DEF Next, Call
<1> QED BY <1>1, <1>6, <1>7, AvlLinks, PTL DEF Spec, ImplementsSet, Set!Spec, Set!Init

-----------------------------------------------------------------------------
(* Heights between two passes of a loop.  hv gives every node the height that *)
(* its ancestors know of: for the node x that a loop is at, that is the one   *)
(* from before the call.                                                      *)

\* Heights and balance factors are right, except at x.
Believes(h, hv, x) ==
  /\ hv \in [OrNull -> Nat] /\ hv[Null] = 0 /\ \A m \in Nodes \ {x} : hv[m] > 0
  /\ \A m \in Held(h) \ {x} : Tall(h, hv, m) /\ h.bf[m] = Diff(h, hv, m)
  /\ h.checked /\ \A m \in Nodes : h.bf[m] \in -1 .. 1

\* The subtree of c has grown by one: c leans, or it is the new leaf.
Grew(h, hv, c) == c # Null /\ (h.bf[c] # 0 \/ hv[c] = 1)

\* One subtree of x is higher than before, by an insertion, or lower, by a
\* removal; or x is the new leaf.
Awaits(h, hv, op, x, b) ==
  /\ h.bf[x] + b = Diff(h, hv, x)
  /\ \/ /\ op = "insert" /\ b = 0 /\ hv[x] = 0
        /\ h.left[x] = Null /\ h.right[x] = Null
     \/ op = "insert" /\ b = -1 /\ Grew(h, hv, h.left[x]) /\ hv[x] = HeightBefore(h, hv, x, -1, 0)
     \/ op = "insert" /\ b = 1 /\ Grew(h, hv, h.right[x]) /\ hv[x] = HeightBefore(h, hv, x, 0, -1)
     \/ op = "remove" /\ b = -1 /\ hv[x] = HeightBefore(h, hv, x, 0, 1)
     \/ op = "remove" /\ b = 1 /\ hv[x] = HeightBefore(h, hv, x, 1, 0)

HeightInv ==
  \E hv : Believes(tree, hv, node) /\ (pc # "idle" => Awaits(tree, hv, pc, node, lean))

\* For m nothing has changed.
Alike(h, hv, g, hw, m) ==
  /\ hw[m] = hv[m] /\ g.bf[m] = h.bf[m]
  /\ hw[g.left[m]] = hv[h.left[m]] /\ hw[g.right[m]] = hv[h.right[m]]

\* Then the height and the balance of m are as right as they were.
LEMMA AlikeCarries ==
  ASSUME NEW h, NEW hv, NEW g, NEW hw, NEW m, Alike(h, hv, g, hw, m)
  PROVE  /\ Tall(g, hw, m) <=> Tall(h, hv, m)
         /\ g.bf[m] = Diff(g, hw, m) <=> h.bf[m] = Diff(h, hv, m)
BY DEF Alike, Tall, Diff

\* A child in the tree has a height.
LEMMA HeightsKnown ==
  ASSUME NEW h \in Trees, NEW hv \in [OrNull -> Nat], NEW m \in Nodes
  PROVE  /\ h.left[m] \in OrNull /\ h.right[m] \in OrNull /\ hv[m] \in Nat
         /\ hv[h.left[m]] \in Nat /\ hv[h.right[m]] \in Nat /\ h.bf[m] \in Int
BY DEF Trees, OrNull

\* A new leaf has the height 0 until its parent is told.
LEMMA InsertBelieves ==
  ASSUME NEW h, Ordered(h), NEW k \in Nodes, NEW g, NEW p, InsertLinks(h, g, k, p),
         NEW hv, Believes(h, hv, Null), NEW hw, hw = [hv EXCEPT ![k] = 0]
  PROVE  Believes(g, hw, k) /\ Awaits(g, hw, "insert", k, 0)
<1>1. PICK b : Grown(h, b)
  BY DEF Ordered
<1>2. /\ k \notin Held(h) /\ p \in OrNull /\ p # k
      /\ (p # Null => p \in Held(h) /\ Way(h, k, p) = Null)
      /\ g.checked = h.checked /\ (\A m \in Nodes : g.bf[m] = IF m = k THEN 0 ELSE h.bf[m])
      /\ Held(g) = Held(h) \cup {k} /\ g \in Trees
      /\ (\A m \in Nodes : g.left[m] = IF m = k THEN Null ELSE IF m = p /\ k < p THEN k ELSE h.left[m])
      /\ (\A m \in Nodes : g.right[m] = IF m = k THEN Null ELSE IF m = p /\ ~(k < p) THEN k ELSE h.right[m])
  BY DEF InsertLinks, Linked
<1>3. /\ hv \in [OrNull -> Nat] /\ hv[Null] = 0 /\ \A m \in Nodes \ {Null} : hv[m] > 0
      /\ \A m \in Held(h) \ {Null} : Tall(h, hv, m) /\ h.bf[m] = Diff(h, hv, m)
      /\ h.checked /\ \A m \in Nodes : h.bf[m] \in -1 .. 1
  BY DEF Believes
<1>4. Null \notin Nodes /\ k # Null /\ Null \in OrNull /\ k \in OrNull /\ Held(h) \subseteq Nodes /\ k \in Int
  BY NullIsNoNode, KeysAre DEF OrNull, Held
<1>5. /\ hw \in [OrNull -> Nat] /\ hw[k] = 0 /\ \A m \in OrNull \ {k} : hw[m] = hv[m]
  BY <1>3, <1>4
<1>6. ASSUME NEW m \in Held(h) PROVE Alike(h, hv, g, hw, m)
  <2>1. m \in Nodes /\ m # k
    BY <1>2, <1>4
  <2>2. /\ h.left[m] \in OrNull /\ h.right[m] \in OrNull
        /\ h.left[m] # k /\ h.right[m] # k
    BY <1>1, <1>2, <1>4, <2>1, Kin, Subtrees
  <2>3. /\ m = p /\ k < p => h.left[m] = Null
        /\ m = p /\ ~(k < p) => h.right[m] = Null
    <3>1. m \in Int
      BY <2>1, KeysAre
    <3>2. CASE m = p
      <4>1. Way(h, k, m) = Null
        BY <1>2, <1>4, <2>1, <3>2
      <4>2. CASE k < m
        BY <1>4, <3>1, <3>2, <4>1, <4>2 DEF Way, Cmp
      <4>3. CASE m < k
        BY <1>4, <3>1, <3>2, <4>1, <4>3 DEF Way, Cmp
      <4> QED BY <1>4, <2>1, <3>1, <3>2, <4>2, <4>3
    <3> QED BY <3>2
  <2>4. hw[g.left[m]] = hv[h.left[m]]
    <3>1. g.left[m] = (IF m = p /\ k < p THEN k ELSE h.left[m])
      BY <1>2, <2>1
    <3> QED BY <1>3, <1>4, <1>5, <2>2, <2>3, <3>1
  <2>5. hw[g.right[m]] = hv[h.right[m]]
    <3>1. g.right[m] = (IF m = p /\ ~(k < p) THEN k ELSE h.right[m])
      BY <1>2, <2>1
    <3> QED BY <1>3, <1>4, <1>5, <2>2, <2>3, <3>1
  <2>6. hw[m] = hv[m] /\ g.bf[m] = h.bf[m]
    BY <1>2, <1>5, <2>1 DEF OrNull
  <2> QED BY <2>4, <2>5, <2>6 DEF Alike
<1>7. \A m \in Held(g) \ {k} : Tall(g, hw, m) /\ g.bf[m] = Diff(g, hw, m)
  <2> SUFFICES ASSUME NEW m \in Held(h) PROVE Tall(g, hw, m) /\ g.bf[m] = Diff(g, hw, m)
    BY <1>2
  <2>1. m # Null
    BY <1>4
  <2>2. Tall(h, hv, m) /\ h.bf[m] = Diff(h, hv, m)
    BY <1>3, <2>1
  <2>3. Alike(h, hv, g, hw, m)
    BY <1>6
  <2> QED BY <2>2, <2>3, AlikeCarries
<1>8. g.bf[k] = 0 /\ g.left[k] = Null /\ g.right[k] = Null /\ hw[Null] = 0
  BY <1>2, <1>3, <1>4, <1>5
<1>9. ASSUME NEW m \in Nodes PROVE g.bf[m] \in -1 .. 1
  <2>1. g.bf[m] = (IF m = k THEN 0 ELSE h.bf[m]) /\ h.bf[m] \in -1 .. 1
    BY <1>2, <1>3
  <2> QED BY <2>1
<1>10. \A m \in Nodes \ {k} : hw[m] > 0
  BY <1>3, <1>4, <1>5 DEF OrNull
<1>11. Believes(g, hw, k)
  BY <1>2, <1>3, <1>5, <1>7, <1>8, <1>9, <1>10 DEF Believes
<1>12. Awaits(g, hw, "insert", k, 0)
  BY <1>5, <1>8 DEF Awaits, Diff
<1> QED BY <1>11, <1>12

\* Where the left child comes up its new parent has a subtree lower by one.
LEMMA OuterBelieves ==
  ASSUME NEW h, Ordered(h), NEW o \in Held(h), NEW g, NEW s, RemovesOuter(h, g, o, s),
         Held(g) = Held(h) \ {o}, NEW hv, Believes(h, hv, Null)
  PROVE  Believes(g, hv, s.cur) /\ (s.cur # Null => Awaits(g, hv, "remove", s.cur, s.bf))
<1> DEFINE c == h.left[o]
           q == h.parent[o]
<1>1. PICK b : Grown(h, b)
  BY DEF Ordered
<1>2. /\ h.right[o] = Null /\ g \in Trees /\ g.checked = h.checked /\ s.cur = q
      /\ s.bf = (IF q # Null /\ h.left[q] = o THEN 1 ELSE -1)
      /\ \A m \in Nodes : g.bf[m] = IF m = o THEN 0 ELSE h.bf[m]
      /\ \A m \in Nodes : g.left[m] = IF m = o THEN Null ELSE IF m = q /\ h.left[q] = o THEN c ELSE h.left[m]
      /\ \A m \in Nodes : g.right[m] = IF m = o THEN Null ELSE IF m = q /\ h.left[q] # o THEN c ELSE h.right[m]
  BY DEF RemovesOuter, Lifted
<1>3. /\ hv \in [OrNull -> Nat] /\ hv[Null] = 0 /\ \A m \in Nodes \ {Null} : hv[m] > 0
      /\ \A m \in Held(h) \ {Null} : Tall(h, hv, m) /\ h.bf[m] = Diff(h, hv, m)
      /\ h.checked /\ \A m \in Nodes : h.bf[m] \in -1 .. 1
  BY DEF Believes
<1>4. Null \notin Nodes /\ o \in Nodes /\ Held(h) \subseteq Nodes /\ h \in Trees
  BY <1>1, NullIsNoNode DEF Held, Grown
<1>5. /\ q # o /\ (q # c \/ q = Null)
      /\ q # Null => q \in Held(h) /\ (h.left[q] = o \/ h.right[q] = o) /\ h.left[q] # h.right[q]
      /\ \A m \in Nodes : h.left[m] = o \/ h.right[m] = o => m = q
  <2>1. q # Null => q \in Held(h) /\ (h.left[q] = o \/ h.right[q] = o) /\ q # o
    BY <1>1, <1>4, Kin DEF Grown
  <2>2. \A m \in Nodes : h.left[m] = o \/ h.right[m] = o => m = q /\ h.left[m] # h.right[m]
    BY <1>1, <1>4, Kin
  <2>3. q # Null => q # c
    <3> SUFFICES ASSUME q # Null, q = c PROVE FALSE
      OBVIOUS
    <3>1. q \in Nodes /\ q \notin b[o] /\ q \in b[q]
      BY <1>1, <1>4, <2>1, <2>2, Kin, Subtrees
    <3> QED BY <1>1, <1>4, <3>1, Subtrees
  <2> QED BY <1>4, <2>1, <2>2, <2>3
<1>6. ASSUME NEW m \in Held(g) \ {q} PROVE Tall(g, hv, m) /\ g.bf[m] = Diff(g, hv, m)
  <2>1. m \in Nodes /\ m # o /\ m # q /\ m \in Held(h) /\ m # Null
    BY <1>4
  <2>2. g.left[m] = h.left[m] /\ g.right[m] = h.right[m] /\ g.bf[m] = h.bf[m]
    BY <1>2, <2>1
  <2>3. Alike(h, hv, g, hv, m)
    BY <2>2 DEF Alike
  <2> QED BY <1>3, <2>1, <2>3, AlikeCarries
<1>7. Believes(g, hv, q)
  <2>1. ASSUME NEW m \in Nodes PROVE g.bf[m] \in -1 .. 1
    <3>1. g.bf[m] = (IF m = o THEN 0 ELSE h.bf[m]) /\ h.bf[m] \in -1 .. 1
      BY <1>2, <1>3
    <3> QED BY <3>1
  <2>2. \A m \in Nodes \ {q} : hv[m] > 0
    BY <1>3, <1>4
  <2> QED BY <1>2, <1>3, <1>6, <2>1, <2>2 DEF Believes
<1>8. ASSUME q # Null PROVE Awaits(g, hv, "remove", q, s.bf)
  <2>1. q \in Held(h) /\ q \in Nodes /\ q # o /\ c \in OrNull
    <3>1. c \in OrNull
      BY <1>3, <1>4, HeightsKnown
    <3> QED BY <1>4, <1>5, <1>8, <3>1
  <2>2. /\ hv[o] = Higher(hv[c], hv[h.right[o]]) + 1 /\ hv[c] \in Nat /\ hv[h.right[o]] = 0
        /\ hv[o] \in Nat
    BY <1>2, <1>3, <1>4, HeightsKnown DEF Tall
  <2>3. hv[o] = hv[c] + 1
    BY <2>2 DEF Higher
  <2>4. /\ hv[q] = Higher(hv[h.left[q]], hv[h.right[q]]) + 1
        /\ h.bf[q] = hv[h.right[q]] - hv[h.left[q]] /\ g.bf[q] = h.bf[q]
        /\ hv[h.left[q]] \in Nat /\ hv[h.right[q]] \in Nat
    BY <1>2, <1>3, <1>4, <2>1, HeightsKnown DEF Tall, Diff
  <2>5. CASE h.left[q] = o
    <3>1. g.left[q] = c /\ g.right[q] = h.right[q] /\ s.bf = 1
      BY <1>2, <1>8, <2>1, <2>5
    <3>2. HeightBefore(g, hv, q, 1, 0) = Higher(hv[c] + 1, hv[h.right[q]]) + 1
      <4>1. hv[h.right[q]] + 0 = hv[h.right[q]]
        BY <2>4
      <4> QED BY <3>1, <4>1 DEF HeightBefore
    <3>3. Diff(g, hv, q) = hv[h.right[q]] - hv[c]
      BY <3>1 DEF Diff
    <3> QED BY <2>2, <2>3, <2>4, <2>5, <3>1, <3>2, <3>3 DEF Awaits
  <2>6. CASE h.left[q] # o
    <3>1. g.left[q] = h.left[q] /\ g.right[q] = c /\ s.bf = -1 /\ h.right[q] = o
      BY <1>2, <1>5, <1>8, <2>1, <2>6
    <3>2. HeightBefore(g, hv, q, 0, 1) = Higher(hv[h.left[q]], hv[c] + 1) + 1
      <4>1. hv[h.left[q]] + 0 = hv[h.left[q]]
        BY <2>4
      <4> QED BY <3>1, <4>1 DEF HeightBefore
    <3>3. Diff(g, hv, q) = hv[c] - hv[h.left[q]]
      BY <3>1 DEF Diff
    <3> QED BY <2>2, <2>3, <2>4, <3>1, <3>2, <3>3 DEF Awaits
  <2> QED BY <2>5, <2>6
<1> QED BY <1>2, <1>7, <1>8

\* Where the successor takes the place of o, the place it has left is lower by one.
LEMMA InnerBelieves ==
  ASSUME NEW h, Ordered(h), NEW o \in Held(h), NEW n \in Nodes, NEW g \in Trees, NEW s,
         RemovesInner(h, g, o, n, s),
         Held(g) = Held(h) \ {o}, NEW hv, Believes(h, hv, Null),
         NEW hw, hw = [hv EXCEPT ![n] = hv[o]]
  PROVE  Believes(g, hw, s.cur) /\ Awaits(g, hw, "remove", s.cur, s.bf)
<1> DEFINE low == h.left[o]
           high == h.right[o]
           child == h.right[n]
           p == h.parent[n]
           q == h.parent[o]
           x == s.cur
<1>1. /\ HeirKin(h, o, n, low, high, child, p, q)
      /\ Succeeded(h, g, o, n, low, high, child, p, q) /\ Balanceds(h, g, o, n)
      /\ x = (IF p = o THEN n ELSE p) /\ s.bf = (IF p = o THEN -1 ELSE 1)
  BY DEF RemovesInner
<1>2. /\ hv \in [OrNull -> Nat] /\ hv[Null] = 0 /\ \A m \in Nodes \ {Null} : hv[m] > 0
      /\ \A m \in Held(h) \ {Null} : Tall(h, hv, m) /\ h.bf[m] = Diff(h, hv, m)
      /\ h.checked /\ \A m \in Nodes : h.bf[m] \in -1 .. 1
  BY DEF Believes
<1>3. Null \notin Nodes /\ Held(h) \subseteq Nodes /\ h \in Trees /\ Nodes \subseteq OrNull
      /\ Null \in OrNull
  BY NullIsNoNode DEF Held, Ordered, Grown, OrNull
<1>4. low = h.left[o] /\ high = h.right[o] /\ child = h.right[n] /\ p = h.parent[n] /\ q = h.parent[o]
  OBVIOUS
<1> HIDE DEF low, high, child, p, q, x
<1>5. /\ o \in Nodes /\ high \in Nodes /\ p \in Nodes
      /\ low \in OrNull /\ child \in OrNull /\ q \in OrNull
      /\ n \in Held(h) /\ n # o /\ p # n /\ q # o /\ q # n /\ h.left[n] = Null
      /\ low # n /\ child # n
      /\ p = o <=> n = high
      /\ p # o => h.left[p] = n /\ h.right[p] # n /\ p # q
      /\ \A m \in Nodes : h.left[m] = n => m = p /\ p # o
      /\ \A m \in Nodes : h.right[m] = n => m = p /\ p = o
      /\ \A m \in Nodes : h.left[m] = o \/ h.right[m] = o => m = q
      /\ \A m \in Nodes : h.left[m] = o => h.right[m] # o
      /\ q # Null => h.left[q] = o \/ h.right[q] = o
  BY <1>1, <1>3 DEF HeirKin
<1>6. /\ \A m \in Nodes : g.left[m] = IF m = o THEN Null ELSE IF m = n THEN low
                                      ELSE IF m = p THEN child
                                      ELSE IF m = q /\ h.left[q] = o THEN n ELSE h.left[m]
      /\ \A m \in Nodes : g.right[m] = IF m = o THEN Null
                                       ELSE IF m = n THEN IF p = o THEN child ELSE high
                                       ELSE IF m = q /\ h.left[q] # o THEN n ELSE h.right[m]
      /\ \A m \in Nodes : g.bf[m] = IF m = o THEN 0 ELSE IF m = n THEN h.bf[o] ELSE h.bf[m]
      /\ g.checked = (h.checked /\ h.bf[o] \in -1 .. 1)
  BY <1>1 DEF Succeeded, Balanceds
<1>7. /\ hw \in [OrNull -> Nat] /\ hw[n] = hv[o] /\ \A m \in OrNull \ {n} : hw[m] = hv[m]
      /\ hv[o] \in Nat /\ hv[o] > 0
  BY <1>2, <1>3, <1>5
<1>8. /\ hv[o] = Higher(hv[low], hv[high]) + 1 /\ h.bf[o] = hv[high] - hv[low]
      /\ hv[n] = hv[child] + 1 /\ hv[low] \in Nat /\ hv[high] \in Nat /\ hv[child] \in Nat
      /\ hv[n] \in Nat /\ hw[low] = hv[low] /\ hw[child] = hv[child]
  <2>1. /\ hv[o] = Higher(hv[low], hv[high]) + 1 /\ h.bf[o] = hv[high] - hv[low]
        /\ hv[n] = Higher(hv[h.left[n]], hv[child]) + 1
    BY <1>2, <1>3, <1>4, <1>5 DEF Tall, Diff
  <2>2. hv[low] \in Nat /\ hv[high] \in Nat /\ hv[child] \in Nat /\ hv[n] \in Nat
    BY <1>2, <1>3, <1>5
  <2>3. hv[h.left[n]] = 0
    BY <1>2, <1>5
  <2>4. hv[n] = hv[child] + 1
    BY <2>1, <2>2, <2>3 DEF Higher
  <2>5. hw[low] = hv[low] /\ hw[child] = hv[child]
    BY <1>5, <1>7
  <2> QED BY <2>1, <2>2, <2>4, <2>5
<1>9. ASSUME NEW m \in Held(g) \ {n}, p # m PROVE Alike(h, hv, g, hw, m)
  <2>1. m \in Nodes /\ m # o /\ m # n /\ m # p
    BY <1>3, <1>9
  <2>2. /\ h.left[m] \in OrNull /\ h.right[m] \in OrNull /\ h.left[m] # n /\ h.right[m] # n
    BY <1>2, <1>3, <1>5, <2>1, HeightsKnown
  <2>3. hw[g.left[m]] = hv[h.left[m]]
    <3>1. g.left[m] = (IF m = q /\ h.left[q] = o THEN n ELSE h.left[m])
      BY <1>6, <2>1
    <3> QED BY <1>7, <2>2, <3>1
  <2>4. hw[g.right[m]] = hv[h.right[m]]
    <3>1. g.right[m] = (IF m = q /\ h.left[q] # o THEN n ELSE h.right[m])
      BY <1>6, <2>1
    <3>2. m = q /\ h.left[q] # o => h.right[m] = o
      BY <1>3, <1>5, <2>1
    <3> QED BY <1>7, <2>2, <3>1, <3>2
  <2>5. hw[m] = hv[m] /\ g.bf[m] = h.bf[m]
    BY <1>3, <1>6, <1>7, <2>1
  <2> QED BY <2>3, <2>4, <2>5 DEF Alike
<1>10. ASSUME NEW m \in Held(g) \ {x} PROVE Tall(g, hw, m) /\ g.bf[m] = Diff(g, hw, m)
  <2>1. m \in Nodes /\ m # o /\ m \in Held(h) /\ m # Null
    BY <1>3
  <2>2. CASE m # n /\ p # m
    <3>1. Alike(h, hv, g, hw, m) /\ Tall(h, hv, m) /\ h.bf[m] = Diff(h, hv, m)
      BY <1>2, <1>9, <2>1, <2>2
    <3> QED BY <3>1, AlikeCarries
  <2>3. CASE m = n
    <3>1. p # o /\ n # high
      BY <1>1, <1>5, <2>3
    <3>2. g.left[n] = low /\ g.right[n] = high /\ g.bf[n] = h.bf[o]
      BY <1>5, <1>6, <3>1
    <3>3. hw[high] = hv[high]
      BY <1>3, <1>5, <1>7, <3>1
    <3> QED BY <1>7, <1>8, <2>3, <3>2, <3>3 DEF Tall, Diff
  <2>4. CASE m = p
    BY <1>1, <1>5, <2>1, <2>4
  <2> QED BY <2>2, <2>3, <2>4
<1>11. Believes(g, hw, x)
  <2>1. ASSUME NEW m \in Nodes PROVE g.bf[m] \in -1 .. 1
    <3>1. /\ g.bf[m] = (IF m = o THEN 0 ELSE IF m = n THEN h.bf[o] ELSE h.bf[m])
          /\ h.bf[m] \in -1 .. 1 /\ h.bf[o] \in -1 .. 1
      BY <1>2, <1>5, <1>6
    <3> QED BY <3>1
  <2>2. \A m \in Nodes \ {x} : hw[m] > 0
    <3> SUFFICES ASSUME NEW m \in Nodes PROVE hw[m] > 0
      OBVIOUS
    <3>1. hv[m] > 0 /\ m \in OrNull
      BY <1>2, <1>3
    <3> QED BY <1>7, <3>1
  <2>3. g.checked /\ hw[Null] = 0
    BY <1>2, <1>3, <1>5, <1>6, <1>7
  <2> QED BY <1>7, <1>10, <2>1, <2>2, <2>3 DEF Believes
<1>12. Awaits(g, hw, "remove", x, s.bf)
  <2>1. CASE p = o
    <3>1. x = n /\ s.bf = -1 /\ n = high
      BY <1>1, <1>5, <2>1
    <3>2. g.left[n] = low /\ g.right[n] = child /\ g.bf[n] = h.bf[o]
      BY <1>5, <1>6, <2>1
    <3>3. HeightBefore(g, hw, n, 0, 1) = Higher(hv[low], hv[child] + 1) + 1
      <4>1. hv[low] + 0 = hv[low]
        BY <1>8
      <4> QED BY <1>8, <3>2, <4>1 DEF HeightBefore
    <3>4. Diff(g, hw, n) = hv[child] - hv[low]
      BY <1>8, <3>2 DEF Diff
    <3> QED BY <1>7, <1>8, <3>1, <3>2, <3>3, <3>4 DEF Awaits
  <2>2. CASE p # o
    <3> DEFINE r == h.right[p]
    <3>1. x = p /\ s.bf = 1 /\ h.left[p] = n /\ r # n /\ p # n /\ p # q
      BY <1>1, <1>5, <2>2
    <3>2. g.left[p] = child /\ g.right[p] = r /\ g.bf[p] = h.bf[p]
      BY <1>5, <1>6, <2>2, <3>1
    <3>3. /\ hv[p] = Higher(hv[n], hv[r]) + 1 /\ h.bf[p] = hv[r] - hv[n]
          /\ hv[r] \in Nat /\ hw[r] = hv[r] /\ hw[p] = hv[p]
      <4>1. p \in Held(h) /\ p # Null
        <5>1. PICK b : Grown(h, b)
          BY DEF Ordered
        <5> QED BY <1>3, <1>4, <1>5, <5>1, Kin
      <4>2. r \in OrNull /\ hv[r] \in Nat
        BY <1>2, <1>3, <1>5, HeightsKnown
      <4>3. hv[p] = Higher(hv[n], hv[r]) + 1 /\ h.bf[p] = hv[r] - hv[n]
        BY <1>2, <3>1, <4>1 DEF Tall, Diff
      <4>4. hw[r] = hv[r] /\ hw[p] = hv[p]
        BY <1>3, <1>5, <1>7, <3>1, <4>2
      <4> QED BY <4>2, <4>3, <4>4
    <3> HIDE DEF r
    <3>4. HeightBefore(g, hw, p, 1, 0) = Higher(hv[child] + 1, hv[r]) + 1
      <4>1. hv[r] + 0 = hv[r]
        BY <3>3
      <4> QED BY <1>8, <3>2, <3>3, <4>1 DEF HeightBefore
    <3>5. Diff(g, hw, p) = hv[r] - hv[child]
      BY <1>8, <3>2, <3>3 DEF Diff
    <3> QED BY <1>8, <3>1, <3>2, <3>3, <3>4, <3>5 DEF Awaits
  <2> QED BY <2>1, <2>2
<1> QED BY <1>11, <1>12 DEF x

\* What the balancing r of x leaves of its subtree D: an AVL tree, whose height is
\* the one that the parent of x knows of if and only if the loop may stop.
Rests(h, hv, D, op, x, r, hw) ==
  /\ hw \in HeightMaps /\ r.tree \in Trees /\ IsAvl(r.tree, hw, D, r.node)
  /\ SameOutside(h, r.tree, D) /\ r.tree.checked = h.checked
  /\ \A m \in OrNull \ D : hw[m] = hv[m]
  /\ hw[r.node] = IF ~HeightChanged(op, h.bf[x], r.tree, r.node) THEN hv[x]
                  ELSE IF op = "insert" THEN hv[x] + 1 ELSE hv[x] - 1
  /\ op = "insert" /\ HeightChanged(op, h.bf[x], r.tree, r.node) => Grew(r.tree, hw, r.node)

\* The heights that are, where hv is what the ancestors of x know.
LEMMA AwaitsLeans ==
  ASSUME NEW h, NEW b, Grown(h, b), NEW x \in Held(h), NEW hv, Believes(h, hv, x),
         NEW op, NEW i, Awaits(h, hv, op, x, i),
         NEW ht, ht = [hv EXCEPT ![x] = Higher(hv[h.left[x]], hv[h.right[x]]) + 1]
  PROVE  /\ ht \in HeightMaps /\ Leans(h, ht, b[x], x, i) /\ i \in {-1, 0, 1}
         /\ \A m \in OrNull \ {x} : ht[m] = hv[m]
         /\ h.left[x] # x /\ h.right[x] # x /\ h.left[x] \in OrNull /\ h.right[x] \in OrNull
<1>1. /\ hv \in [OrNull -> Nat] /\ hv[Null] = 0 /\ \A m \in Nodes \ {x} : hv[m] > 0
      /\ \A m \in Held(h) \ {x} : Tall(h, hv, m) /\ h.bf[m] = Diff(h, hv, m)
      /\ \A m \in Nodes : h.bf[m] \in -1 .. 1
  BY DEF Believes
<1>2. x \in Nodes /\ x # Null /\ Nodes \subseteq OrNull /\ Null \in OrNull /\ h \in Trees
  BY NullIsNoNode DEF Held, OrNull, Grown
<1>3. Links(h, b[x], x) /\ x \in b[x] /\ b[x] \in SUBSET Nodes /\ b[x] \subseteq Held(h)
  BY <1>2, SubtreeLinks, Kin
<1>4. /\ h.left[x] \in OrNull /\ h.right[x] \in OrNull /\ hv[h.left[x]] \in Nat /\ hv[h.right[x]] \in Nat
      /\ h.left[x] # x /\ h.right[x] # x
  BY <1>1, <1>2, <1>3, HeightsKnown DEF Links
<1> DEFINE top == Higher(hv[h.left[x]], hv[h.right[x]]) + 1
<1>5. top \in Nat /\ top > 0
  BY <1>4 DEF Higher
<1>6. /\ ht \in [OrNull -> Nat] /\ ht[x] = top /\ \A m \in OrNull \ {x} : ht[m] = hv[m]
  <2> HIDE DEF top
  <2>1. ht = [hv EXCEPT ![x] = top]
    BY DEF top
  <2> QED BY <1>1, <1>2, <1>5, <2>1
<1>7. ht \in HeightMaps
  <2>1. ht[Null] = 0 /\ \A m \in Nodes : ht[m] > 0
    BY <1>1, <1>2, <1>5, <1>6
  <2> QED BY <1>6, <2>1 DEF HeightMaps
<1>8. i \in {-1, 0, 1} /\ i \in Int
  BY DEF Awaits
<1>9. ASSUME NEW m \in b[x]
      PROVE  /\ ht[h.left[m]] = hv[h.left[m]] /\ ht[h.right[m]] = hv[h.right[m]]
             /\ Diff(h, ht, m) = Diff(h, hv, m)
             /\ m # x => ht[m] = hv[m]
  <2>1. m \in Nodes /\ h.left[m] \in OrNull \ {x} /\ h.right[m] \in OrNull \ {x}
    BY <1>2, <1>3 DEF Links
  <2> QED BY <1>2, <1>6, <2>1 DEF Diff
<1>10. ASSUME NEW m \in b[x] \ {x}
       PROVE  Tall(h, ht, m) /\ h.bf[m] = Diff(h, ht, m) /\ Diff(h, ht, m) \in -1 .. 1
  <2>1. Tall(h, hv, m) /\ h.bf[m] = Diff(h, hv, m) /\ h.bf[m] \in -1 .. 1
    BY <1>1, <1>3
  <2>2. /\ ht[h.left[m]] = hv[h.left[m]] /\ ht[h.right[m]] = hv[h.right[m]]
        /\ Diff(h, ht, m) = Diff(h, hv, m) /\ ht[m] = hv[m]
    BY <1>9
  <2> QED BY <2>1, <2>2 DEF Tall
<1>11. Tall(h, ht, x)
  BY <1>3, <1>6, <1>9 DEF Tall
<1>12. h.bf[x] + i = Diff(h, ht, x) /\ Diff(h, ht, x) \in -2 .. 2
  <2>1. h.bf[x] + i = Diff(h, hv, x)
    BY DEF Awaits
  <2>2. h.bf[x] \in -1 .. 1
    BY <1>1, <1>2
  <2>3. Diff(h, ht, x) = Diff(h, hv, x)
    BY <1>3, <1>9
  <2> QED BY ONLY <1>8, <2>1, <2>2, <2>3
<1>13. Measured(h, ht, b[x], x, {x})
  BY <1>3, <1>10, <1>11 DEF Measured
<1>14. Leans(h, ht, b[x], x, i)
  BY <1>10, <1>12, <1>13 DEF Leans
<1> QED BY <1>4, <1>6, <1>7, <1>8, <1>14

\* The new leaf itself.
LEMMA LeafRests ==
  ASSUME NEW h \in Trees, NEW D \in SUBSET Nodes, NEW x \in Nodes, NEW ht \in HeightMaps, Leans(h, ht, D, x, 0),
         h.left[x] = Null, h.right[x] = Null,
         NEW hv, hv[x] = 0, \A m \in OrNull \ {x} : ht[m] = hv[m]
  PROVE  \E hw : Rests(h, hv, D, "insert", x, BalanceTree(h, x, 0), hw)
<1> DEFINE r == BalanceTree(h, x, 0)
<1>1. PICK hw \in HeightMaps : RebalancedTo(h, ht, D, x, r, hw)
  BY BalanceTreeRebalances DEF Rebalanced
<1>2. Diff(h, ht, x) = 0 /\ ht[x] = 1 /\ x \in D
  <2>1. Tall(h, ht, x) /\ ht[Null] = 0 /\ x \in D
    BY DEF Leans, Measured, HeightMaps
  <2> QED BY <2>1 DEF Tall, Diff, Higher
<1>3. r.tree.bf[r.node] = 0 /\ hw[r.node] = 1
  BY <1>1, <1>2 DEF RebalancedTo, NewBalance, NewHeight
<1> HIDE DEF r
<1>4. /\ r.tree \in Trees /\ IsAvl(r.tree, hw, D, r.node) /\ SameOutside(h, r.tree, D)
      /\ r.tree.checked = h.checked /\ \A m \in OrNull \ D : hw[m] = ht[m]
  BY <1>1 DEF RebalancedTo
<1>5. r.node \in Nodes /\ Tall(r.tree, hw, r.node)
  BY <1>4 DEF IsAvl, Measured
<1>6. r.tree.left[r.node] = Null /\ r.tree.right[r.node] = Null
  BY <1>3, <1>4, <1>5, LeafIsLow
<1>7. HeightChanged("insert", h.bf[x], r.tree, r.node)
  BY <1>6 DEF HeightChanged
<1>8. Grew(r.tree, hw, r.node)
  BY <1>3, <1>5, NullIsNoNode DEF Grew
<1>9. Rests(h, hv, D, "insert", x, r, hw)
  BY <1>2, <1>3, <1>4, <1>7, <1>8 DEF Rests
<1> QED BY <1>9 DEF r

\* Every pass of a loop makes an AVL tree of its subtree and knows whether to stop.
LEMMA PassRests ==
  ASSUME NEW h, NEW b, Grown(h, b), NEW x \in Held(h), NEW hv, Believes(h, hv, x),
         NEW op, NEW i, Awaits(h, hv, op, x, i)
  PROVE  \E hw : Rests(h, hv, b[x], op, x, BalanceTree(h, x, i), hw)
<1> DEFINE ht == [hv EXCEPT ![x] = Higher(hv[h.left[x]], hv[h.right[x]]) + 1]
           D == b[x]
<1>1. /\ ht \in HeightMaps /\ Leans(h, ht, D, x, i) /\ i \in {-1, 0, 1}
      /\ \A m \in OrNull \ {x} : ht[m] = hv[m]
      /\ h.left[x] # x /\ h.right[x] # x /\ h.left[x] \in OrNull /\ h.right[x] \in OrNull
  BY AwaitsLeans
<1>2. h \in Trees /\ D \in SUBSET Nodes /\ x \in Nodes /\ x \in D /\ h.bf[x] \in -1 .. 1
  BY SubtreeLinks DEF Grown, Held, Believes
<1> HIDE DEF ht, D
<1>3. \A l, r \in Int : HeightBefore(h, ht, x, l, r) = HeightBefore(h, hv, x, l, r)
  BY <1>1 DEF HeightBefore
<1>4. CASE i = 0
  <2>1. op = "insert" /\ hv[x] = 0 /\ h.left[x] = Null /\ h.right[x] = Null
    BY <1>4 DEF Awaits
  <2> QED BY <1>1, <1>2, <1>4, <2>1, LeafRests DEF D
<1> DEFINE r == BalanceTree(h, x, i)
           changed == HeightChanged(op, h.bf[x], r.tree, r.node)
<1>5. CASE i # 0 /\ op = "insert"
  <2> DEFINE c == IF i = -1 THEN h.left[x] ELSE h.right[x]
             before == IF i = -1 THEN HeightBefore(h, ht, x, -1, 0) ELSE HeightBefore(h, ht, x, 0, -1)
  <2>1. i \in {-1, 1} /\ Grew(h, hv, c)
    BY <1>1, <1>5 DEF Awaits
  <2>2. c \in Nodes /\ c # x /\ ht[c] = hv[c]
    BY <1>1, <2>1 DEF Grew, OrNull
  <2>3. h.bf[c] # 0 \/ ht[c] = 1
    BY <2>1, <2>2 DEF Grew
  <2>4. before = hv[x]
    BY <1>1, <1>3, <1>5 DEF Awaits
  <2>5. \E hw \in HeightMaps : /\ RebalancedTo(h, ht, D, x, r, hw)
                               /\ hw[r.node] = IF changed THEN before + 1 ELSE before
                               /\ changed => r.tree.bf[r.node] # 0
    <3>1. c = IF i = -1 THEN h.left[x] ELSE h.right[x]
      OBVIOUS
    <3> HIDE DEF c
    <3> QED BY <1>1, <1>2, <1>5, <2>1, <2>2, <2>3, <3>1, InsertionStops
  <2> HIDE DEF r, before, c
  <2>6. PICK hw \in HeightMaps : /\ RebalancedTo(h, ht, D, x, r, hw)
                                 /\ hw[r.node] = IF changed THEN before + 1 ELSE before
                                 /\ changed => r.tree.bf[r.node] # 0
    BY <2>5
  <2>7. /\ r.tree \in Trees /\ IsAvl(r.tree, hw, D, r.node) /\ SameOutside(h, r.tree, D)
        /\ r.tree.checked = h.checked /\ \A m \in OrNull \ D : hw[m] = hv[m]
    BY <1>1, <1>2, <2>6 DEF RebalancedTo
  <2>8. r.node # Null
    <3>1. r.node \in D
      BY <2>7 DEF IsAvl, Measured
    <3> QED BY <1>2, <3>1, NullIsNoNode
  <2>9. changed => Grew(r.tree, hw, r.node)
    BY <2>6, <2>8 DEF Grew
  <2>10. hw[r.node] = IF ~changed THEN hv[x] ELSE IF op = "insert" THEN hv[x] + 1 ELSE hv[x] - 1
    BY <1>5, <2>4, <2>6
  <2>11. Rests(h, hv, D, op, x, r, hw)
    BY <2>7, <2>9, <2>10 DEF Rests
  <2> QED BY <2>11 DEF r, D
<1>6. CASE i # 0 /\ op # "insert"
  <2> DEFINE before == IF i = -1 THEN HeightBefore(h, ht, x, 0, 1) ELSE HeightBefore(h, ht, x, 1, 0)
  <2>1. i \in {-1, 1} /\ op = "remove"
    BY <1>1, <1>6 DEF Awaits
  <2>2. before = hv[x]
    BY <1>1, <1>3, <1>6 DEF Awaits
  <2>3. \E hw \in HeightMaps : /\ RebalancedTo(h, ht, D, x, r, hw)
                               /\ hw[r.node] = IF changed THEN before - 1 ELSE before
    BY <1>1, <1>2, <2>1, RemovalStops
  <2> HIDE DEF r, before
  <2>4. PICK hw \in HeightMaps : /\ RebalancedTo(h, ht, D, x, r, hw)
                                 /\ hw[r.node] = IF changed THEN before - 1 ELSE before
    BY <2>3
  <2>5. /\ r.tree \in Trees /\ IsAvl(r.tree, hw, D, r.node) /\ SameOutside(h, r.tree, D)
        /\ r.tree.checked = h.checked /\ \A m \in OrNull \ D : hw[m] = hv[m]
    BY <1>1, <1>2, <2>4 DEF RebalancedTo
  <2>6. hw[r.node] = IF ~changed THEN hv[x] ELSE IF op = "insert" THEN hv[x] + 1 ELSE hv[x] - 1
    BY <2>1, <2>2, <2>4
  <2>7. Rests(h, hv, D, op, x, r, hw)
    BY <2>1, <2>5, <2>6 DEF Rests
  <2> QED BY <2>7 DEF r, D
<1> QED BY <1>4, <1>5, <1>6

\* What the parent of x learns, or that there is nothing to learn any more.
LEMMA PassBelieves ==
  ASSUME NEW h, NEW b, Grown(h, b), NEW x \in Held(h), NEW hv, Believes(h, hv, x),
         NEW op \in {"insert", "remove"}, NEW r, NEW hw, Rests(h, hv, b[x], op, x, r, hw),
         NEW p, p = h.parent[x], NEW g, g = Over(r.tree, p, x, r.node), Held(g) = Held(h)
  PROVE  IF p # Null /\ HeightChanged(op, h.bf[x], r.tree, r.node)
         THEN Believes(g, hw, p) /\ Awaits(g, hw, op, p, Lean(op, g, p, r.node))
         ELSE Believes(g, hw, Null)
<1> DEFINE D == b[x]
           k == r.tree
           c == r.node
           changed == HeightChanged(op, h.bf[x], k, c)
<1>1. /\ hw \in HeightMaps /\ k \in Trees /\ IsAvl(k, hw, D, c) /\ SameOutside(h, k, D)
      /\ k.checked = h.checked /\ \A m \in OrNull \ D : hw[m] = hv[m]
      /\ hw[c] = IF ~changed THEN hv[x] ELSE IF op = "insert" THEN hv[x] + 1 ELSE hv[x] - 1
      /\ op = "insert" /\ changed => Grew(k, hw, c)
  BY DEF Rests
<1>2. /\ hv \in [OrNull -> Nat] /\ hv[Null] = 0 /\ \A m \in Nodes \ {x} : hv[m] > 0
      /\ \A m \in Held(h) \ {x} : Tall(h, hv, m) /\ h.bf[m] = Diff(h, hv, m)
      /\ h.checked /\ \A m \in Nodes : h.bf[m] \in -1 .. 1
  BY DEF Believes
<1>3. /\ x \in Nodes /\ x # Null /\ Nodes \subseteq OrNull /\ Null \in OrNull /\ h \in Trees
      /\ Null \notin Nodes /\ Held(h) \subseteq Nodes /\ p \in OrNull
  BY NullIsNoNode DEF Held, OrNull, Grown, Trees
<1>4. /\ Links(h, D, x) /\ x \in D /\ D \subseteq Nodes /\ D \subseteq Held(h)
      /\ \A m \in D \ {x} : h.parent[m] \in D
  BY <1>3, SubtreeLinks, Kin
<1>5. p # Null => /\ p \in Held(h) /\ p \notin D /\ h.left[p] # h.right[p]
                  /\ (h.left[p] = x \/ h.right[p] = x)
  <2> SUFFICES ASSUME p # Null
               PROVE  /\ p \in Held(h) /\ p \notin D /\ h.left[p] # h.right[p]
                      /\ (h.left[p] = x \/ h.right[p] = x)
    OBVIOUS
  <2>1. p \in Held(h) /\ p \in Nodes /\ (h.left[p] = x \/ h.right[p] = x)
    BY <1>3, Kin
  <2> QED BY <1>3, <2>1, Kin
<1> HIDE DEF D, k, c, changed
<1>6. c \in D /\ c \in Nodes /\ \A m \in D : Tall(k, hw, m) /\ k.bf[m] = Diff(k, hw, m) /\ Diff(k, hw, m) \in -1 .. 1
  BY <1>1, <1>4 DEF IsAvl, Measured
<1>7. /\ hw \in [OrNull -> Nat] /\ hw[Null] = 0 /\ \A m \in Nodes : hw[m] > 0
  BY <1>1 DEF HeightMaps
<1>8. /\ g \in Trees /\ g.bf = k.bf /\ g.checked = k.checked
      /\ \A m \in Nodes : m # p => g.left[m] = k.left[m] /\ g.right[m] = k.right[m]
      /\ p # Null => /\ g.right[p] = IF k.right[p] = x THEN c ELSE k.right[p]
                     /\ g.left[p] = IF k.right[p] = x THEN k.left[p] ELSE c
  <2>1. Over(k, p, x, c) = g
    BY DEF k, c
  <2>2. k \in Trees /\ p \in OrNull /\ x \in Nodes /\ c \in Nodes
    BY <1>1, <1>3, <1>6
  <2> QED BY ONLY <2>1, <2>2, OverFields
<1>9. ASSUME NEW m \in D PROVE Tall(g, hw, m) /\ g.bf[m] = Diff(g, hw, m) /\ g.bf[m] \in -1 .. 1
  <2>1. m \in Nodes /\ m # p
    BY <1>3, <1>4, <1>5
  <2>2. Alike(k, hw, g, hw, m)
    BY <1>8, <2>1 DEF Alike
  <2>3. Tall(k, hw, m) /\ k.bf[m] = Diff(k, hw, m) /\ Diff(k, hw, m) \in -1 .. 1
    BY <1>6
  <2>4. Tall(g, hw, m) /\ g.bf[m] = Diff(g, hw, m)
    BY <2>2, <2>3, AlikeCarries
  <2> QED BY <1>8, <2>3, <2>4
<1>10. ASSUME NEW m \in Nodes \ D
       PROVE  /\ k.left[m] = h.left[m] /\ k.right[m] = h.right[m] /\ k.bf[m] = h.bf[m]
              /\ hw[m] = hv[m] /\ g.bf[m] = h.bf[m]
  BY <1>1, <1>3, <1>8 DEF SameOutside
<1>11. ASSUME NEW m \in Held(h) \ D, NEW y \in {h.left[m], h.right[m]}, y # x
       PROVE  y \in OrNull /\ y \notin D /\ hw[y] = hv[y]
  <2>1. y \in OrNull /\ m \in Nodes
    BY <1>3 DEF Trees
  <2>2. y # Null => h.parent[y] = m
    BY <2>1, Kin
  <2>3. y \notin D
    BY <1>3, <1>4, <1>11, <2>2
  <2> QED BY <1>1, <2>1, <2>3
<1>12. ASSUME NEW m \in Held(h) \ D, m # p PROVE Tall(g, hw, m) /\ g.bf[m] = Diff(g, hw, m)
  <2>1. m \in Nodes /\ m # x /\ h.left[m] # x /\ h.right[m] # x
    BY <1>3, <1>4, <1>12, Kin
  <2>2. /\ hw[h.left[m]] = hv[h.left[m]] /\ hw[h.right[m]] = hv[h.right[m]]
    BY <1>11, <2>1
  <2>3. Alike(h, hv, g, hw, m)
    BY <1>8, <1>10, <1>12, <2>1, <2>2 DEF Alike
  <2>4. Tall(h, hv, m) /\ h.bf[m] = Diff(h, hv, m)
    BY <1>2, <2>1
  <2> QED BY <2>3, <2>4, AlikeCarries
<1>13. ASSUME NEW m \in Held(g) \ {p} PROVE Tall(g, hw, m) /\ g.bf[m] = Diff(g, hw, m)
  BY <1>9, <1>12
<1>14. Believes(g, hw, p)
  <2>1. ASSUME NEW m \in Nodes PROVE g.bf[m] \in -1 .. 1
    <3>1. CASE m \in D
      BY <1>9, <3>1
    <3>2. CASE m \notin D
      BY <1>2, <1>10, <3>2
    <3> QED BY <3>1, <3>2
  <2>2. g.checked
    BY <1>1, <1>2, <1>8
  <2> QED BY <1>7, <1>13, <2>1, <2>2 DEF Believes
\* The subtrees of the parent, and how it leans.
<1>15. ASSUME p # Null
       PROVE  \/ /\ h.left[p] = x /\ g.left[p] = c /\ g.right[p] = h.right[p]
                 /\ hw[h.right[p]] = hv[h.right[p]] /\ g.left[p] # g.right[p]
              \/ /\ h.right[p] = x /\ g.right[p] = c /\ g.left[p] = h.left[p]
                 /\ hw[h.left[p]] = hv[h.left[p]] /\ g.left[p] # g.right[p]
  <2>1. p \in Held(h) \ D /\ p \in Nodes \ D
    BY <1>3, <1>5, <1>15
  <2>2. k.left[p] = h.left[p] /\ k.right[p] = h.right[p]
    BY <1>10, <2>1
  <2>3. CASE h.left[p] = x
    <3>1. h.right[p] # x
      BY <1>5, <1>15, <2>3
    <3>2. h.right[p] \notin D /\ hw[h.right[p]] = hv[h.right[p]]
      BY <1>11, <2>1, <3>1
    <3> QED BY <1>6, <1>8, <1>15, <2>2, <2>3, <3>1, <3>2
  <2>4. CASE h.right[p] = x
    <3>1. h.left[p] # x
      BY <1>5, <1>15, <2>4
    <3>2. h.left[p] \notin D /\ hw[h.left[p]] = hv[h.left[p]]
      BY <1>11, <2>1, <3>1
    <3> QED BY <1>6, <1>8, <1>15, <2>2, <2>4, <3>1, <3>2
  <2> QED BY <1>5, <1>15, <2>3, <2>4
<1>16. ASSUME p # Null
       PROVE  /\ hv[p] = Higher(hv[h.left[p]], hv[h.right[p]]) + 1 /\ hw[p] = hv[p]
              /\ g.bf[p] = hv[h.right[p]] - hv[h.left[p]]
              /\ hv[h.left[p]] \in Nat /\ hv[h.right[p]] \in Nat /\ hv[x] \in Nat /\ hw[c] \in Nat
  <2>1. p \in Held(h) \ {x} /\ p \in Nodes \ D
    BY <1>3, <1>4, <1>5, <1>16
  <2>2. Tall(h, hv, p) /\ h.bf[p] = Diff(h, hv, p) /\ hw[p] = hv[p] /\ g.bf[p] = h.bf[p]
    BY <1>2, <1>10, <2>1
  <2>3. hv[h.left[p]] \in Nat /\ hv[h.right[p]] \in Nat /\ hv[x] \in Nat /\ hw[c] \in Nat
    BY <1>2, <1>3, <1>6, <1>7, <2>1, HeightsKnown
  <2> QED BY <2>2, <2>3 DEF Tall, Diff
<1>17. CASE p # Null /\ changed
  <2> DEFINE i == Lean(op, g, p, c)
  <2>1. CASE h.left[p] = x
    <3> DEFINE y == h.right[p]
    <3>1. /\ g.left[p] = c /\ g.right[p] = y /\ hw[y] = hv[y] /\ hv[y] \in Nat /\ hv[x] \in Nat
          /\ hw[p] = Higher(hv[x], hv[y]) + 1 /\ g.bf[p] = hv[y] - hv[x] /\ hw[c] \in Nat
      BY <1>5, <1>15, <1>16, <1>17, <2>1
    <3> HIDE DEF y
    <3>2. CASE op = "insert"
      <4>1. i = -1 /\ hw[c] = hv[x] + 1
        BY <1>1, <1>17, <3>1, <3>2 DEF Lean
      <4>2. Grew(g, hw, g.left[p])
        BY <1>1, <1>8, <1>17, <3>1, <3>2 DEF Grew
      <4>3. Diff(g, hw, p) = hv[y] - (hv[x] + 1)
        BY <3>1, <4>1 DEF Diff
      <4>4. HeightBefore(g, hw, p, -1, 0) = Higher(hv[x], hv[y]) + 1
        <5>1. (hv[x] + 1) + -1 = hv[x] /\ hv[y] + 0 = hv[y]
          BY <3>1
        <5> QED BY <3>1, <4>1, <5>1 DEF HeightBefore
      <4> QED BY <1>14, <1>17, <3>1, <3>2, <4>1, <4>2, <4>3, <4>4 DEF Awaits, k, c, changed
    <3>3. CASE op = "remove"
      <4>1. i = 1 /\ hw[c] = hv[x] - 1
        BY <1>1, <1>17, <3>1, <3>3 DEF Lean
      <4>3. Diff(g, hw, p) = hv[y] - (hv[x] - 1)
        BY <3>1, <4>1 DEF Diff
      <4>4. HeightBefore(g, hw, p, 1, 0) = Higher(hv[x], hv[y]) + 1
        <5>1. (hv[x] - 1) + 1 = hv[x] /\ hv[y] + 0 = hv[y]
          BY <3>1
        <5> QED BY <3>1, <4>1, <5>1 DEF HeightBefore
      <4> QED BY <1>14, <1>17, <3>1, <3>3, <4>1, <4>3, <4>4 DEF Awaits, k, c, changed
    <3> QED BY <3>2, <3>3
  <2>2. CASE h.right[p] = x
    <3> DEFINE y == h.left[p]
    <3>1. /\ g.right[p] = c /\ g.left[p] = y /\ y # c /\ hw[y] = hv[y] /\ hv[y] \in Nat /\ hv[x] \in Nat
          /\ hw[p] = Higher(hv[y], hv[x]) + 1 /\ g.bf[p] = hv[x] - hv[y] /\ hw[c] \in Nat
      BY <1>5, <1>15, <1>16, <1>17, <2>2
    <3> HIDE DEF y
    <3>2. CASE op = "insert"
      <4>1. i = 1 /\ hw[c] = hv[x] + 1
        BY <1>1, <1>17, <3>1, <3>2 DEF Lean
      <4>2. Grew(g, hw, g.right[p])
        BY <1>1, <1>8, <1>17, <3>1, <3>2 DEF Grew
      <4>3. Diff(g, hw, p) = (hv[x] + 1) - hv[y]
        BY <3>1, <4>1 DEF Diff
      <4>4. HeightBefore(g, hw, p, 0, -1) = Higher(hv[y], hv[x]) + 1
        <5>1. (hv[x] + 1) + -1 = hv[x] /\ hv[y] + 0 = hv[y]
          BY <3>1
        <5> QED BY <3>1, <4>1, <5>1 DEF HeightBefore
      <4> QED BY <1>14, <1>17, <3>1, <3>2, <4>1, <4>2, <4>3, <4>4 DEF Awaits, k, c, changed
    <3>3. CASE op = "remove"
      <4>1. i = -1 /\ hw[c] = hv[x] - 1
        BY <1>1, <1>17, <3>1, <3>3 DEF Lean
      <4>3. Diff(g, hw, p) = (hv[x] - 1) - hv[y]
        BY <3>1, <4>1 DEF Diff
      <4>4. HeightBefore(g, hw, p, 0, 1) = Higher(hv[y], hv[x]) + 1
        <5>1. (hv[x] - 1) + 1 = hv[x] /\ hv[y] + 0 = hv[y]
          BY <3>1
        <5> QED BY <3>1, <4>1, <5>1 DEF HeightBefore
      <4> QED BY <1>14, <1>17, <3>1, <3>3, <4>1, <4>3, <4>4 DEF Awaits, k, c, changed
    <3> QED BY <3>2, <3>3
  <2> QED BY <1>5, <1>17, <2>1, <2>2
<1>18. CASE ~(p # Null /\ changed)
  <2>1. p # Null => Tall(g, hw, p) /\ g.bf[p] = Diff(g, hw, p)
    <3> SUFFICES ASSUME p # Null PROVE Tall(g, hw, p) /\ g.bf[p] = Diff(g, hw, p)
      OBVIOUS
    <3>1. hw[c] = hv[x]
      BY <1>1, <1>18
    <3>2. hw[g.left[p]] = hv[h.left[p]] /\ hw[g.right[p]] = hv[h.right[p]]
      BY <1>15, <3>1
    <3> QED BY <1>16, <3>2 DEF Tall, Diff
  <2>2. Believes(g, hw, Null)
    BY <1>3, <1>7, <1>14, <2>1 DEF Believes
  <2> QED BY <1>18, <2>2 DEF k, c, changed
<1> QED BY <1>17, <1>18

-----------------------------------------------------------------------------
(* Heights and balances in every state *)

\* All heights of the empty tree are right.
LEMMA InitHeights ==
  ASSUME Init
  PROVE  HeightInv
<1> DEFINE hv == [m \in OrNull |-> IF m = Null THEN 0 ELSE 1]
<1>1. tree = Empty /\ pc = "idle" /\ node = Null /\ Held(Empty) = {}
  BY EmptyOrdered DEF Init
<1>2. hv \in [OrNull -> Nat] /\ hv[Null] = 0 /\ \A m \in Nodes \ {Null} : hv[m] > 0
  BY NullIsNoNode DEF OrNull
<1>3. Empty.checked /\ \A m \in Nodes : Empty.bf[m] \in -1 .. 1
  BY DEF Empty
<1> HIDE DEF hv
<1>4. Believes(tree, hv, node)
  BY <1>1, <1>2, <1>3 DEF Believes
<1> QED BY <1>1, <1>4 DEF HeightInv

\* The steps keep HeightInv: first an insertion before its loop.
LEMMA InsertHeights ==
  ASSUME LinksInv, HeightInv, NEW k \in Nodes, Insert(k)
  PROVE  HeightInv'
<1>1. PICK hv : Believes(tree, hv, node)
  BY DEF HeightInv
<1>2. pc = "idle" /\ node = Null /\ Ordered(tree) /\ pc' = "insert" /\ node' = k /\ lean' = 0
  BY DEF LinksInv, Insert
<1>3. InsertLinks(tree, tree', k, LastSeen(tree, k))
  BY InsertOrdered
<1> DEFINE hw == [hv EXCEPT ![k] = 0]
<1>4. Believes(tree', hw, k) /\ Awaits(tree', hw, "insert", k, 0)
  <2> DEFINE p == LastSeen(tree, k)
  <2>1. InsertLinks(tree, tree', k, p) /\ Believes(tree, hv, Null)
    BY <1>1, <1>2, <1>3
  <2> HIDE DEF p
  <2> QED BY <1>2, <2>1, InsertBelieves
<1> QED BY <1>2, <1>4 DEF HeightInv

\* A removal before its loop.
LEMMA RemoveHeights ==
  ASSUME LinksInv, HeightInv, NEW k \in Nodes, Remove(k)
  PROVE  HeightInv'
<1>1. PICK hv : Believes(tree, hv, node)
  BY DEF HeightInv
<1> DEFINE s == Spliced(tree, k)
<1>2. /\ pc = "idle" /\ node = Null /\ Ordered(tree) /\ node' = s.cur
      /\ pc' # "idle" => pc' = "remove" /\ lean' = s.bf /\ s.cur # Null
  BY DEF LinksInv, Remove
<1>3. RemoveLinks(tree, tree', k, s)
  BY RemoveOrdered
<1> HIDE DEF s
<1>4. \E hw : Believes(tree', hw, s.cur) /\ (s.cur # Null => Awaits(tree', hw, "remove", s.cur, s.bf))
  <2>1. k \in Held(tree) /\ Held(tree') = Held(tree) \ {k} /\ Believes(tree, hv, Null)
    BY <1>1, <1>2, <1>3 DEF RemoveLinks
  <2>2. CASE RemovesOuter(tree, tree', k, s)
    BY <1>2, <2>1, <2>2, OuterBelieves
  <2>3. ASSUME NEW n \in Nodes, RemovesInner(tree, tree', k, n, s)
        PROVE  \E hw : Believes(tree', hw, s.cur) /\ Awaits(tree', hw, "remove", s.cur, s.bf)
    <3>1. tree' \in Trees
      BY <2>3 DEF RemovesInner, Succeeded
    <3> QED BY <1>2, <2>1, <2>3, <3>1, InnerBelieves
  <2> QED BY <1>3, <2>2, <2>3 DEF RemoveLinks
<1> QED BY <1>2, <1>4 DEF HeightInv

\* A pass of either loop.
LEMMA LoopHeights ==
  ASSUME LinksInv, HeightInv, Climb \/ Stop
  PROVE  HeightInv'
<1> DEFINE x == node
           r == Result
           p == Parent
           changed == HeightChanged(pc, tree.bf[x], r.tree, r.node)
<1>1. pc # "idle" /\ tree' = Settled(tree, x, r)
  BY DEF Climb, Stop
<1>2. PICK hv : Believes(tree, hv, x) /\ Awaits(tree, hv, pc, x, lean)
  BY <1>1 DEF HeightInv
<1>3. Ordered(tree) /\ x \in Held(tree) /\ pc \in {"insert", "remove"} /\ lean \in Int
  BY <1>1 DEF LinksInv
<1>4. r = BalanceTree(tree, x, lean) /\ p = tree.parent[x]
  BY DEF Result, Parent
<1> HIDE DEF r, p
<1>5. PICK b : Grown(tree, b)
  BY <1>3 DEF Ordered
<1>6. Held(tree') = Held(tree) /\ tree' = Over(r.tree, p, x, r.node)
  BY <1>1, <1>3, <1>4, SettleKeeps
<1>7. PICK hw : Rests(tree, hv, b[x], pc, x, r, hw)
  BY <1>2, <1>3, <1>4, <1>5, PassRests
<1>8. IF p # Null /\ changed
      THEN Believes(tree', hw, p) /\ Awaits(tree', hw, pc, p, Lean(pc, tree', p, r.node))
      ELSE Believes(tree', hw, Null)
  BY <1>2, <1>3, <1>4, <1>5, <1>6, <1>7, PassBelieves
<1>9. GoesOn <=> p # Null /\ changed
  BY DEF GoesOn, p, r
<1>10. CASE Climb
  <2>1. /\ GoesOn /\ node' = p /\ pc' = pc
        /\ lean' = Lean(pc, Settled(tree, x, r), p, r.node)
    BY <1>10 DEF Climb, p, r
  <2>2. lean' = Lean(pc, tree', p, r.node)
    BY <1>1, <2>1
  <2>3. Believes(tree', hw, node') /\ Awaits(tree', hw, pc', node', lean')
    BY <1>8, <1>9, <2>1, <2>2
  <2> QED BY <2>3 DEF HeightInv
<1>11. CASE Stop
  <2>1. ~GoesOn /\ pc' = "idle" /\ node' = Null
    BY <1>11 DEF Stop
  <2>2. Believes(tree', hw, node')
    BY <1>8, <1>9, <2>1
  <2> QED BY <2>1, <2>2 DEF HeightInv
<1> QED BY <1>10, <1>11

\* Every step keeps the heights.
LEMMA NextHeights ==
  ASSUME LinksInv, HeightInv, [Next]_vars
  PROVE  HeightInv'
<1>1. CASE UNCHANGED vars
  BY <1>1 DEF HeightInv, vars
<1>2. CASE Next
  BY <1>2, InsertHeights, RemoveHeights, LoopHeights DEF Next, Call
<1> QED BY <1>1, <1>2

\* In every state there are heights that all nodes agree with, except that the
\* parent of the node a loop is at has not heard of the last change.
THEOREM AvlHeights == Spec => []HeightInv
<1>1. Init => HeightInv
  BY InitHeights
<1>2. LinksInv /\ HeightInv /\ [Next]_vars => HeightInv'
  BY NextHeights
<1> QED BY <1>1, <1>2, AvlLinks, PTL DEF Spec

\* TypeOK: the fields have their types, and every balance factor fits in its bits.
THEOREM AvlTypeOK == Spec => []TypeOK
<1>1. LinksInv /\ HeightInv => TypeOK
  <2> SUFFICES ASSUME LinksInv, HeightInv PROVE TypeOK
    OBVIOUS
  <2>1. tree \in Trees
    BY DEF LinksInv, Ordered, Grown
  <2>2. /\ tree.root \in OrNull /\ tree.checked \in BOOLEAN
        /\ tree["left"] \in [Nodes -> OrNull] /\ tree["right"] \in [Nodes -> OrNull]
        /\ tree["parent"] \in [Nodes -> OrNull]
        /\ tree["prev"] \in [Nodes -> OrNull] /\ tree["next"] \in [Nodes -> OrNull]
        /\ tree.bf \in [Nodes -> Int]
    BY <2>1 DEF Trees
  <2>3. \A f \in {"left", "right", "parent", "prev", "next"} : tree[f] \in [Nodes -> OrNull]
    BY <2>2
  <2>4. tree.bf \in [Nodes -> -1 .. 1]
    BY <2>2 DEF HeightInv, Believes
  <2>5. node \in OrNull
    BY DEF LinksInv, OrNull, Held
  <2> QED BY <2>2, <2>3, <2>4, <2>5 DEF LinksInv, TypeOK
<1> QED BY <1>1, AvlLinks, AvlHeights, PTL

\* The operator Height is determined by its recursion.
LEMMA HeightIs ==
  ASSUME NEW h, NEW b, Grown(h, b), NEW hv, Believes(h, hv, Null)
  PROVE  Height(h)[Null] = hv[Null] /\ \A n \in Held(h) : Height(h)[n] = hv[n]
<1> DEFINE F(f) == f = [n \in OrNull |-> IF n = Null THEN 0
                                         ELSE Higher(f[h.left[n]], f[h.right[n]]) + 1]
           hw == [n \in OrNull |-> IF n = Null \/ n \in Held(h) THEN hv[n] ELSE 1]
<1>1. /\ hv[Null] = 0 /\ \A m \in Held(h) : hv[m] = Higher(hv[h.left[m]], hv[h.right[m]]) + 1
      /\ Null \notin Nodes /\ Null \notin Held(h) /\ Held(h) \subseteq Nodes
      /\ \A n \in Nodes : h.left[n] \in OrNull /\ h.right[n] \in OrNull
      /\ Null \in OrNull
  <2>1. Null \notin Held(h) /\ Held(h) \subseteq Nodes /\ Null \in OrNull
    BY NullIsNoNode DEF Held, OrNull
  <2> QED BY <2>1, NullIsNoNode, Subtrees DEF Believes, Tall
<1>2. ASSUME NEW n \in Nodes
      PROVE  hw[n] = Higher(hw[h.left[n]], hw[h.right[n]]) + 1
  <2>1. CASE n \in Held(h)
    <3>1. \A c \in {h.left[n], h.right[n]} : c = Null \/ c \in Held(h)
      BY Kin
    <3>2. hw[h.left[n]] = hv[h.left[n]] /\ hw[h.right[n]] = hv[h.right[n]] /\ hw[n] = hv[n]
      BY <1>1, <2>1, <3>1 DEF OrNull
    <3> QED BY <1>1, <2>1, <3>2
  <2>2. CASE n \notin Held(h)
    <3>1. h.left[n] = Null /\ h.right[n] = Null
      BY <2>2, Kin
    <3>2. hw[n] = 1 /\ hw[Null] = 0
      BY <1>1, <2>2 DEF OrNull
    <3> QED BY <3>1, <3>2 DEF Higher
  <2> QED BY <2>1, <2>2
<1>3. hw = [n \in OrNull |-> hw[n]] /\ hw[Null] = 0 /\ \A n \in Held(h) : hw[n] = hv[n]
  BY <1>1 DEF OrNull
<1> HIDE DEF hw
<1>4. F(hw)
  <2>1. \A n \in OrNull : hw[n] = IF n = Null THEN 0 ELSE Higher(hw[h.left[n]], hw[h.right[n]]) + 1
    BY <1>2, <1>3 DEF OrNull
  <2> QED BY <1>3, <2>1
<1>5. Height(h) = CHOOSE f : F(f)
  BY DEF Height
<1>6. F(Height(h))
  <2> HIDE DEF F
  <2> QED BY <1>4, <1>5
<1> DEFINE a == Height(h)
           D == {n \in Nodes : a[n] # hw[n]}
           t == View(h, {})
<1>7. a[Null] = 0 /\ \A n \in Nodes : a[n] = Higher(a[h.left[n]], a[h.right[n]]) + 1
  <2> HIDE DEF a
  <2>1. F(a)
    BY <1>6 DEF a
  <2> QED BY <1>1, <2>1 DEF OrNull
<1> HIDE DEF F, a
<1>8. D = {}
  <2> SUFFICES ASSUME D # {} PROVE FALSE
    OBVIOUS
  <2>1. PICK n \in D : \A s \in Rb!Side : t.kid[n][s] \notin D
    <3>1. D \subseteq Nodes
      OBVIOUS
    <3>2. Rb!Grown(t, b)
      BY DEF Grown
    <3> HIDE DEF D, t
    <3> QED BY <3>1, <3>2, RbAssumed, Rb!TreeMin
  <2>2. n \in Nodes /\ h.left[n] \notin D /\ h.right[n] \notin D
    BY <2>1, Sides, ViewFields DEF Grown
  <2>3. a[h.left[n]] = hw[h.left[n]] /\ a[h.right[n]] = hw[h.right[n]]
    BY <1>1, <1>3, <1>7, <2>2 DEF OrNull
  <2>4. a[n] = hw[n]
    BY <1>2, <1>7, <2>2, <2>3
  <2> QED BY <2>1, <2>4
<1> QED BY <1>1, <1>3, <1>7, <1>8 DEF a

\* Balanced: between two calls every stored balance is the difference of two
\* heights and at most one, in trees of any size, and no value that a rotation
\* stores on the way is too large for its bits.
THEOREM AvlBalanced == Spec => []Balanced
<1>1. LinksInv /\ HeightInv => Balanced
  <2> SUFFICES ASSUME LinksInv, HeightInv PROVE Balanced
    OBVIOUS
  <2>1. PICK b : Grown(tree, b)
    BY DEF LinksInv, Ordered
  <2>2. PICK hv : Believes(tree, hv, node)
    BY DEF HeightInv
  <2>3. tree.checked
    BY <2>2 DEF Believes
  <2>4. ASSUME pc = "idle", NEW n \in Held(tree)
        PROVE  /\ tree.bf[n] = Height(tree)[tree.right[n]] - Height(tree)[tree.left[n]]
               /\ tree.bf[n] \in -1 .. 1
    <3>1. Believes(tree, hv, Null) /\ n \in Nodes /\ n # Null
      BY <2>2, <2>4, NullIsNoNode DEF LinksInv, Held
    <3>2. tree.bf[n] = hv[tree.right[n]] - hv[tree.left[n]] /\ tree.bf[n] \in -1 .. 1
      BY <3>1 DEF Believes, Diff
    <3>3. \A c \in {tree.left[n], tree.right[n]} : c = Null \/ c \in Held(tree)
      BY <2>1, <3>1, Kin
    <3>4. /\ Height(tree)[tree.left[n]] = hv[tree.left[n]]
          /\ Height(tree)[tree.right[n]] = hv[tree.right[n]]
      BY <2>1, <3>1, <3>3, HeightIs
    <3> QED BY <3>2, <3>4
  <2> QED BY <2>3, <2>4, MembersHeld DEF Balanced
<1> QED BY <1>1, AvlLinks, AvlHeights, PTL
=============================================================================
