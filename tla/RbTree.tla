------------------------------- MODULE RbTree -------------------------------
(***************************************************************************)
(* binary-tree/new/rbtree: rb_insert_color, rb_erase and rb_replace_node   *)
(* of rbtree.c, and the insertion of rbwrap.c.                             *)
(*                                                                         *)
(* One thread uses the tree.  A pass of a loop is an action, so that what  *)
(* holds between two passes can be stated: pc says in which loop the call  *)
(* is, and node, up and old are the local variables of the C functions     *)
(* (node, parent and old).  The C code has every case twice, once for each *)
(* side; here the side is a parameter.                                     *)
(***************************************************************************)
EXTENDS Integers, FiniteSets

CONSTANTS Nodes, Null, Key

ASSUME RbTreeAssumption ==
  Null \notin Nodes /\ IsFiniteSet(Nodes) /\ Key \in [Nodes -> Nat \ {0}]

VARIABLES tree, pc, node, up, old

vars == <<tree, pc, node, up, old>>
locals == <<node, up, old>>

OrNull == Nodes \cup {Null}
Side == {"left", "right"}
Opp(s) == IF s = "left" THEN "right" ELSE "left"

-----------------------------------------------------------------------------
(* Nodes.  The children of n are kid[n]["left"] and kid[n]["right"]; a node *)
(* is red if it is in the set red, and black otherwise.                    *)

\* rb_init_node: a node that is in no tree is its own parent.
InitNode(t, n) ==
  [t EXCEPT !.parent[n] = n, !.red = @ \cup {n},
            !.kid[n]["left"] = Null, !.kid[n]["right"] = Null]

\* RB_EMPTY_NODE
EmptyNode(t, n) == t.parent[n] = n

Members == {n \in Nodes : ~EmptyNode(tree, n)}

SetParent(t, n, p) == IF n = Null THEN t ELSE [t EXCEPT !.parent[n] = p]

SideOf(t, n, p) == IF t.kid[p]["left"] = n THEN "left" ELSE "right"

\* Let the parent p of n, or the root, point to new instead.
Hang(t, p, n, new) ==
  IF p = Null THEN [t EXCEPT !.root = new]
              ELSE [t EXCEPT !.kid[p][SideOf(t, n, p)] = new]

\* Mutant: the inner subtree keeps its old parent.
RotateKeepsParent(t, n, s) ==
  LET c == t.kid[n][Opp(s)]
      p == t.parent[n]
      g == [t EXCEPT !.kid[n][Opp(s)] = t.kid[c][s], !.kid[c][s] = n]
  IN  [Hang(g, p, n, c) EXCEPT !.parent[c] = p, !.parent[n] = c]

\* A rotation of n to the side s: its child on the other side comes up.
Rotate(t, n, s) ==
  LET c == t.kid[n][Opp(s)]
      inner == t.kid[c][s]
      p == t.parent[n]
      g == SetParent([t EXCEPT !.kid[n][Opp(s)] = inner, !.kid[c][s] = n], inner, n)
  IN  [Hang(g, p, n, c) EXCEPT !.parent[c] = p, !.parent[n] = c]

Colour(t, blacks, reds) == [t EXCEPT !.red = (@ \ blacks) \cup reds]

-----------------------------------------------------------------------------
(* rbwrap_insert *)

\* What *p is, when the descent has passed up.
Link(t, n, p) ==
  IF p = Null THEN t.root
  ELSE t.kid[p][IF Key[n] < Key[p] THEN "left" ELSE "right"]

Insert(n) ==
  /\ pc = "idle" /\ EmptyNode(tree, n)
  /\ pc' = "descend" /\ node' = n
  /\ UNCHANGED <<tree, up, old>>

\* Mutant: the link that is followed is that of the root again.
DescendFromRoot ==
  /\ pc = "descend"
  /\ Link(tree, node, up) # Null
  /\ Key[Link(tree, node, up)] # Key[node]
  /\ up' = Link(tree, node, tree.root)
  /\ UNCHANGED <<tree, pc, node, old>>

Descend ==
  /\ pc = "descend"
  /\ Link(tree, node, up) # Null
  /\ Key[Link(tree, node, up)] # Key[node]
  /\ up' = Link(tree, node, up)
  /\ UNCHANGED <<tree, pc, node, old>>

\* The key is present.
Present ==
  /\ pc = "descend"
  /\ Link(tree, node, up) # Null
  /\ Key[Link(tree, node, up)] = Key[node]
  /\ pc' = "idle" /\ node' = Null /\ up' = Null
  /\ UNCHANGED <<tree, old>>

\* A black root.
rb_root_init(t, n) ==
  [Colour([InitNode(t, n) EXCEPT !.parent[n] = Null], {n}, {}) EXCEPT !.root = n]

\* A red leaf.
rb_link_node(t, n, p) ==
  LET g == [InitNode(t, n) EXCEPT !.parent[n] = p]
  IN  [g EXCEPT !.kid[p][IF Key[n] < Key[p] THEN "left" ELSE "right"] = n]

Linked(t, n, p) == IF p = Null THEN rb_root_init(t, n) ELSE rb_link_node(t, n, p)

LinkNode ==
  /\ pc = "descend"
  /\ Link(tree, node, up) = Null
  /\ tree' = Linked(tree, node, up)
  /\ pc' = "insert_color" /\ up' = Null
  /\ UNCHANGED <<node, old>>

-----------------------------------------------------------------------------
(* rb_insert_color *)

Parent == tree.parent[node]
Gparent == tree.parent[Parent]

\* The side of the parent under the grandparent, and the grandparent's other child.
ParentSide == SideOf(tree, Parent, Gparent)
Uncle == tree.kid[Gparent][Opp(ParentSide)]

\* The condition of the loop.
RedParent == Parent # Null /\ Parent \in tree.red

\* Mutant: the grandparent stays black.
InsertRecolourBlack ==
  /\ pc = "insert_color" /\ RedParent /\ Uncle \in tree.red
  /\ tree' = Colour(tree, {Uncle, Parent}, {})
  /\ node' = Gparent
  /\ UNCHANGED <<pc, up, old>>

InsertRecolour ==
  /\ pc = "insert_color" /\ RedParent /\ Uncle \in tree.red
  /\ tree' = Colour(tree, {Uncle, Parent}, {Gparent})
  /\ node' = Gparent
  /\ UNCHANGED <<pc, up, old>>

\* An inner grandchild is first rotated to the outside and changes its part
\* with the parent.
InsertRotate ==
  /\ pc = "insert_color" /\ RedParent /\ Uncle \notin tree.red
  /\ LET s == ParentSide
         inner == tree.kid[Parent][Opp(s)] = node
         t == IF inner THEN Rotate(tree, Parent, s) ELSE tree
         p == IF inner THEN node ELSE Parent
     IN  /\ tree' = Rotate(Colour(t, {p}, {Gparent}), Gparent, Opp(s))
         /\ node' = IF inner THEN Parent ELSE node
  /\ UNCHANGED <<pc, up, old>>

\* Mutant: the root may stay red.
InsertDoneRedRoot ==
  /\ pc = "insert_color" /\ ~RedParent
  /\ pc' = "idle" /\ node' = Null
  /\ UNCHANGED <<tree, up, old>>

InsertDone ==
  /\ pc = "insert_color" /\ ~RedParent
  /\ tree' = Colour(tree, {tree.root}, {})
  /\ pc' = "idle" /\ node' = Null
  /\ UNCHANGED <<up, old>>

-----------------------------------------------------------------------------
(* rb_erase *)

\* The place of n goes to its only child, or to nobody.
Unlink(t, n, child) ==
  Hang(SetParent(t, child, t.parent[n]), t.parent[n], n, child)

\* Mutant: a left child without a sibling is lost.
EraseUnlinkRight(n) ==
  LET child == tree.kid[n]["right"]
      black == n \notin tree.red
  IN  /\ pc = "idle" /\ n \in Members
      /\ tree.kid[n]["left"] = Null \/ tree.kid[n]["right"] = Null
      /\ tree' = InitNode(Unlink(tree, n, child), n)
      /\ pc' = IF black THEN "erase_color" ELSE "idle"
      /\ node' = IF black THEN child ELSE Null
      /\ up' = IF black THEN tree.parent[n] ELSE Null
      /\ UNCHANGED old

EraseUnlink(n) ==
  LET child == IF tree.kid[n]["left"] = Null THEN tree.kid[n]["right"]
                                            ELSE tree.kid[n]["left"]
      black == n \notin tree.red
  IN  /\ pc = "idle" /\ n \in Members
      /\ tree.kid[n]["left"] = Null \/ tree.kid[n]["right"] = Null
      /\ tree' = InitNode(Unlink(tree, n, child), n)
      /\ pc' = IF black THEN "erase_color" ELSE "idle"
      /\ node' = IF black THEN child ELSE Null
      /\ up' = IF black THEN tree.parent[n] ELSE Null
      /\ UNCHANGED old

\* There are two children: the walk to the successor begins.
EraseInner(n) ==
  /\ pc = "idle" /\ n \in Members
  /\ tree.kid[n]["left"] # Null /\ tree.kid[n]["right"] # Null
  /\ pc' = "successor" /\ old' = n /\ node' = tree.kid[n]["right"]
  /\ UNCHANGED <<tree, up>>

EraseWalk ==
  /\ pc = "successor" /\ tree.kid[node]["left"] # Null
  /\ node' = tree.kid[node]["left"]
  /\ UNCHANGED <<tree, pc, up, old>>

\* Mutant: the successor is believed to have no right child.
DetachedLosesChild(t, o, n) ==
  LET p == t.parent[n]
      g == [t EXCEPT !.kid[p]["left"] = Null, !.kid[n]["right"] = t.kid[o]["right"]]
  IN  IF p = o THEN t ELSE SetParent(g, t.kid[o]["right"], n)

\* The successor n leaves its place to its right child.
Detached(t, o, n) ==
  LET p == t.parent[n]
      child == t.kid[n]["right"]
      g == [SetParent(t, child, p) EXCEPT !.kid[p]["left"] = child,
                                          !.kid[n]["right"] = t.kid[o]["right"]]
  IN  IF p = o THEN t ELSE SetParent(g, t.kid[o]["right"], n)

\* Mutant: the successor keeps its own colour.
SplicedKeepsColour(t, o, n) ==
  LET g == Detached(Hang(t, t.parent[o], o, n), o, n)
  IN  SetParent([g EXCEPT !.parent[n] = t.parent[o], !.kid[n]["left"] = t.kid[o]["left"]],
                t.kid[o]["left"], n)

\* The successor n takes the place, the colour and the children of o.
Spliced(t, o, n) ==
  LET g == Detached(Hang(t, t.parent[o], o, n), o, n)
      c == Colour(g, {n}, IF o \in t.red THEN {n} ELSE {})
  IN  SetParent([c EXCEPT !.parent[n] = t.parent[o], !.kid[n]["left"] = t.kid[o]["left"]],
                t.kid[o]["left"], n)

\* Mutant: a successor that is a child of old counts as below old.
SpliceBelowOld ==
  LET black == node \notin tree.red
  IN  /\ pc = "successor" /\ tree.kid[node]["left"] = Null
      /\ tree' = InitNode(Spliced(tree, old, node), old)
      /\ pc' = IF black THEN "erase_color" ELSE "idle"
      /\ node' = IF black THEN tree.kid[node]["right"] ELSE Null
      /\ up' = IF black THEN tree.parent[node] ELSE Null
      /\ old' = Null

Splice ==
  LET p == tree.parent[node]
      black == node \notin tree.red
  IN  /\ pc = "successor" /\ tree.kid[node]["left"] = Null
      /\ tree' = InitNode(Spliced(tree, old, node), old)
      /\ pc' = IF black THEN "erase_color" ELSE "idle"
      /\ node' = IF black THEN tree.kid[node]["right"] ELSE Null
      /\ up' = IF ~black THEN Null ELSE IF p = old THEN node ELSE p
      /\ old' = Null

-----------------------------------------------------------------------------
(* __rb_erase_color.  node may be Null: what has become too low is the      *)
(* place of node under up.                                                 *)

\* The condition of the loop.
Deficient == node \notin tree.red /\ node # tree.root

LowSide == SideOf(tree, node, up)

\* A red sibling is first turned above the parent.
Levelled ==
  LET s == LowSide
      other == tree.kid[up][Opp(s)]
  IN  IF other \in tree.red THEN Rotate(Colour(tree, {other}, {up}), up, s) ELSE tree

\* The sibling, and whether both its children are black.
Other == Levelled.kid[up][Opp(LowSide)]
BlackNephews == \A s \in Side : Levelled.kid[Other][s] \notin Levelled.red

EraseRecolour ==
  /\ pc = "erase_color" /\ Deficient /\ BlackNephews
  /\ tree' = Colour(Levelled, {}, {Other})
  /\ node' = up /\ up' = Levelled.parent[up]
  /\ UNCHANGED <<pc, old>>

\* If the outer nephew is black, the inner one comes up over the sibling.
OuterNephew(t, s) ==
  LET other == t.kid[up][Opp(s)]
  IN  IF t.kid[other][Opp(s)] \in t.red THEN t
      ELSE Rotate(Colour(t, {t.kid[other][s]}, {other}), other, Opp(s))

\* The last rotation brings the sibling, with the colour of the parent, up.
EraseRotate ==
  /\ pc = "erase_color" /\ Deficient /\ ~BlackNephews
  /\ LET s == LowSide
         t == OuterNephew(Levelled, s)
         other == t.kid[up][Opp(s)]
         c == Colour(t, {other, up, t.kid[other][Opp(s)]},
                     IF up \in t.red THEN {other} ELSE {})
         g == Rotate(c, up, s)
     IN  tree' = g /\ node' = g.root
  /\ up' = Null
  /\ UNCHANGED <<pc, old>>

EraseDone ==
  /\ pc = "erase_color" /\ ~Deficient
  /\ tree' = Colour(tree, {node}, {})
  /\ pc' = "idle" /\ node' = Null /\ up' = Null
  /\ UNCHANGED old

-----------------------------------------------------------------------------
(* rb_replace_node *)

Replaced(t, victim, new) ==
  LET g == Hang(t, t.parent[victim], victim, new)
      h == SetParent(SetParent(g, t.kid[victim]["left"], new), t.kid[victim]["right"], new)
  IN  [Colour(h, {new}, IF victim \in t.red THEN {new} ELSE {}) EXCEPT
         !.parent[new] = t.parent[victim],
         !.kid[new]["left"] = t.kid[victim]["left"],
         !.kid[new]["right"] = t.kid[victim]["right"]]

\* The replacement has the key of the victim, and is in no tree.
Replace(victim, new) ==
  /\ pc = "idle" /\ victim \in Members /\ EmptyNode(tree, new) /\ Key[new] = Key[victim]
  /\ tree' = InitNode(Replaced(tree, victim, new), victim)
  /\ UNCHANGED <<pc, locals>>

-----------------------------------------------------------------------------
(* Searches and traversal *)

rbwrap_search(t, k) ==
  LET walk[n \in OrNull] ==
        IF n = Null \/ Key[n] = k THEN n
        ELSE walk[t.kid[n][IF k < Key[n] THEN "left" ELSE "right"]]
  IN  walk[t.root]

\* The last node on the side s of the subtree of n.
Outermost(t, n, s) ==
  LET walk[m \in Nodes] == IF t.kid[m][s] = Null THEN m ELSE walk[t.kid[m][s]]
  IN  IF n = Null THEN Null ELSE walk[n]

rb_first(t) == Outermost(t, t.root, "left")
rb_last(t) == Outermost(t, t.root, "right")

\* Mutant: the climb stops at the first parent.
BesideAtParent(t, n, s) ==
  IF t.kid[n][s] # Null THEN Outermost(t, t.kid[n][s], Opp(s)) ELSE t.parent[n]

\* The node next to n on the side s, in search order.
Beside(t, n, s) ==
  LET climb[m \in Nodes] ==
        LET p == t.parent[m]
        IN  IF p = Null \/ t.kid[p][s] # m THEN p ELSE climb[p]
  IN  IF EmptyNode(t, n) THEN Null
      ELSE IF t.kid[n][s] # Null THEN Outermost(t, t.kid[n][s], Opp(s))
      ELSE climb[n]

rb_next(t, n) == Beside(t, n, "right")
rb_prev(t, n) == Beside(t, n, "left")

-----------------------------------------------------------------------------
\* rbwrap_init
Init ==
  /\ tree = [root |-> Null, parent |-> [n \in Nodes |-> n],
             kid |-> [n \in Nodes |-> [s \in Side |-> Null]], red |-> Nodes]
  /\ pc = "idle" /\ node = Null /\ up = Null /\ old = Null

Call ==
  \/ \E n \in Nodes : Insert(n) \/ EraseUnlink(n) \/ EraseInner(n)
  \/ \E victim, new \in Nodes : Replace(victim, new)

\* What a call does after it has begun.
Step ==
  \/ Descend \/ Present \/ LinkNode
  \/ InsertRecolour \/ InsertRotate \/ InsertDone
  \/ EraseWalk \/ Splice
  \/ EraseRecolour \/ EraseRotate \/ EraseDone

Next == Call \/ Step

Spec == Init /\ [][Next]_vars

-----------------------------------------------------------------------------
(* Properties *)

\* Every field has its type, and the local variables name nodes that are in
\* the tree, also after one has been taken out of it.
TypeOK ==
  /\ tree.root \in OrNull /\ tree.red \subseteq Nodes
  /\ tree.parent \in [Nodes -> OrNull] /\ tree.kid \in [Nodes -> [Side -> OrNull]]
  /\ \/ pc = "idle" /\ node = Null /\ up = Null /\ old = Null
     \/ pc = "descend" /\ node \in Nodes \ Members /\ up \in Members \cup {Null} /\ old = Null
     \/ pc = "insert_color" /\ node \in Members /\ up = Null /\ old = Null
     \/ pc = "successor" /\ node \in Members /\ up = Null /\ old \in Members \ {node}
     \/ pc = "erase_color" /\ {node, up} \subseteq Members \cup {Null} /\ old = Null

\* Between any two passes of a loop, parent and child pointers agree, no node
\* hangs in two places, and a node that is in no tree has no children.
ParentLinks ==
  /\ tree.root # Null => tree.parent[tree.root] = Null
  /\ \A n \in Members \ {tree.root} :
       tree.parent[n] \in Members /\ \E s \in Side : tree.kid[tree.parent[n]][s] = n
  /\ \A n \in Nodes, s \in Side :
       tree.kid[n][s] # Null => /\ tree.parent[tree.kid[n][s]] = n /\ n \in Members
                                /\ tree.kid[n][s] # tree.kid[n][Opp(s)]

\* The nodes of the subtree of n, n included.
Below(t) ==
  LET below[n \in OrNull] ==
        IF n = Null THEN {} ELSE {n} \cup below[t.kid[n]["left"]] \cup below[t.kid[n]["right"]]
  IN  below

\* Is the key k on the side s of the key l?
Beyond(s, k, l) == IF s = "left" THEN k < l ELSE l < k

\* The nodes that claim to be in the tree are those that can be reached in it,
\* and every key is on its side of all the keys above it.
SearchOrder ==
  /\ Below(tree)[tree.root] = Members
  /\ \A n \in Members, s \in Side : \A m \in Below(tree)[tree.kid[n][s]] : Beyond(s, Key[m], Key[n])

\* A red node has a red parent, or none, only where the loops say so: in
\* rb_insert_color one of the two is the node looked at, which is the child; in
\* __rb_erase_color it is the node that is made black at the end.
RedApart ==
  \A n \in Members \cap tree.red :
    tree.parent[n] \in tree.red \cup {Null} =>
      \/ pc = "insert_color" /\ n = node
      \/ pc = "erase_color" /\ node \in {n, tree.parent[n]} \ {Null}

\* How many black nodes a path gains by stepping from n to its child on the
\* side s: one more than there are where __rb_erase_color has to make up for one.
Blackness(n, s) ==
  (IF tree.kid[n][s] \in tree.red THEN 0 ELSE 1)
    + (IF pc = "erase_color" /\ up = n /\ s = LowSide THEN 1 ELSE 0)

\* All paths from a node down have as many black nodes; in __rb_erase_color
\* they have but for the one that is missing above node.
BlackHeights ==
  LET height[n \in OrNull] ==
        IF n = Null THEN 0 ELSE height[tree.kid[n]["left"]] + Blackness(n, "left")
  IN  \A n \in Members :
        height[tree.kid[n]["left"]] + Blackness(n, "left")
          = height[tree.kid[n]["right"]] + Blackness(n, "right")

\* The code reads gparent->rb_left, other->rb_parent_color and other->rb_left
\* without a test: the grandparent of a red child, the sibling of a place that
\* is too low, and what replaces a red sibling, exist.
NoNullDereference ==
  /\ pc = "insert_color" /\ RedParent => Gparent # Null
  /\ pc = "erase_color" /\ Deficient =>
       up # Null /\ tree.kid[up][Opp(LowSide)] # Null /\ Other # Null

Keys == {Key[n] : n \in Nodes}
Set == INSTANCE OrderedSet WITH members <- {Key[n] : n \in Below(tree)[tree.root]}

\* Linking adds one key, splicing out takes one away, and nothing else that
\* the calls do changes the set of keys.
ImplementsSet == Set!Spec

\* The node with key k, or Null for none.
WithKey(k) == IF k = Set!None THEN Null ELSE CHOOSE n \in Members : Key[n] = k

\* The search and the traversal return what the set promises.
QueriesRight ==
  pc = "idle" =>
    LET S == {Key[n] : n \in Members}
    IN  /\ \A k \in Keys : rbwrap_search(tree, k) = WithKey(Set!Find(S, k))
        /\ rb_first(tree) = WithKey(Set!Least(S)) /\ rb_last(tree) = WithKey(Set!Greatest(S))
        /\ \A n \in Members :
             /\ rb_next(tree, n) = WithKey(Set!Above(S, Key[n]))
             /\ rb_prev(tree, n) = WithKey(Set!Below(S, Key[n]))
=============================================================================
