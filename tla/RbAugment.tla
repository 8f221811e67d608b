------------------------------ MODULE RbAugment ------------------------------
(***************************************************************************)
(* The augmentation of rbtree.c: a client keeps in every node a value that *)
(* depends on the node's subtree, here the number of its nodes, and calls  *)
(* rb_augment_insert after an insertion, rb_augment_erase_begin before and *)
(* rb_augment_erase_end after an erasure.  The actions of RbTree are       *)
(* conjoined with what this adds to them.                                  *)
(***************************************************************************)
EXTENDS RbTree

VARIABLES size,   \* the value in every node
          start,  \* the node the augmentation has to begin with after the call
          at      \* the local variable node of rb_augment_path

augmentVars == <<tree, pc, node, up, old, size, start, at>>

SizeOf(v, n) == IF n = Null THEN 0 ELSE v[n]

\* The client's callback: the value of n from those of its children.
Func(v, n) ==
  IF n = Null THEN v
  ELSE [v EXCEPT ![n] = 1 + SizeOf(v, tree.kid[n]["left"]) + SizeOf(v, tree.kid[n]["right"])]

\* A child of the new node, if rotations have given it one.
rb_augment_insert(t, n) ==
  IF t.kid[n]["left"] # Null THEN t.kid[n]["left"]
  ELSE IF t.kid[n]["right"] # Null THEN t.kid[n]["right"] ELSE n

\* Mutant: a successor without children stands for itself wherever it is.
EraseBeginAtSuccessor(t, n) ==
  LET next == rb_next(t, n)
  IN  IF t.kid[n]["left"] = Null /\ t.kid[n]["right"] = Null THEN t.parent[n]
      ELSE IF t.kid[n]["right"] = Null THEN t.kid[n]["left"]
      ELSE IF t.kid[n]["left"] = Null THEN t.kid[n]["right"]
      ELSE IF t.kid[next]["right"] # Null THEN t.kid[next]["right"]
      ELSE next

\* The deepest node on the path of the rebalancing that will still be there.
rb_augment_erase_begin(t, n) ==
  LET next == rb_next(t, n)
  IN  IF t.kid[n]["left"] = Null /\ t.kid[n]["right"] = Null THEN t.parent[n]
      ELSE IF t.kid[n]["right"] = Null THEN t.kid[n]["left"]
      ELSE IF t.kid[n]["left"] = Null THEN t.kid[n]["right"]
      ELSE IF t.kid[next]["right"] # Null THEN t.kid[next]["right"]
      ELSE IF t.parent[next] # n THEN t.parent[next] ELSE next

-----------------------------------------------------------------------------
\* When the call on the tree has returned, the climb begins at the node n.
Begin(n) ==
  IF pc' = "idle" THEN at' = n /\ start' = Null ELSE start' = n /\ UNCHANGED at

InsertAugmented(n) ==
  /\ at = Null /\ Insert(n)
  /\ start' = n /\ UNCHANGED <<size, at>>

PresentAugmented ==
  /\ Present
  /\ start' = Null /\ UNCHANGED <<size, at>>

InsertDoneAugmented ==
  /\ InsertDone
  /\ at' = rb_augment_insert(tree, start) /\ start' = Null
  /\ UNCHANGED size

\* The erased node is gone, and its value with it.
EraseAugmented(n) ==
  /\ at = Null
  /\ \/ EraseUnlink(n) /\ size' = [size EXCEPT ![n] = 0]
     \/ EraseInner(n) /\ UNCHANGED size
  /\ Begin(rb_augment_erase_begin(tree, n))

SpliceAugmented ==
  /\ Splice
  /\ size' = [size EXCEPT ![old] = 0]
  /\ Begin(start)

EraseDoneAugmented ==
  /\ EraseDone
  /\ Begin(start) /\ UNCHANGED size

\* What the other passes do does not concern the client.
Pass ==
  /\ \/ Descend \/ LinkNode \/ InsertRecolour \/ InsertRotate
     \/ EraseWalk \/ EraseRecolour \/ EraseRotate
  /\ UNCHANGED <<size, start, at>>

\* The client gives the replacement the value of the victim.
ReplaceAugmented(victim, new) ==
  /\ at = Null /\ Replace(victim, new)
  /\ size' = [size EXCEPT ![new] = size[victim], ![victim] = 0]
  /\ UNCHANGED <<start, at>>

\* A pass of rb_augment_path: the node, the other child of its parent, and up.
AugmentPath ==
  LET p == tree.parent[at]
      beside == IF p = Null THEN Null
                ELSE IF tree.kid[p]["left"] = at /\ tree.kid[p]["right"] # Null
                THEN tree.kid[p]["right"] ELSE tree.kid[p]["left"]
  IN  /\ at # Null
      /\ size' = Func(Func(size, at), beside)
      /\ at' = p
      /\ UNCHANGED <<tree, pc, node, up, old, start>>

-----------------------------------------------------------------------------
AugmentedInit == Init /\ size = [n \in Nodes |-> 0] /\ start = Null /\ at = Null

AugmentedCall ==
  \/ \E n \in Nodes : InsertAugmented(n) \/ EraseAugmented(n)
  \/ \E victim, new \in Nodes : ReplaceAugmented(victim, new)

\* What a call does after it has begun.
AugmentedStep ==
  \/ PresentAugmented \/ InsertDoneAugmented \/ SpliceAugmented \/ EraseDoneAugmented
  \/ Pass \/ AugmentPath

AugmentedNext == AugmentedCall \/ AugmentedStep

AugmentedSpec == AugmentedInit /\ [][AugmentedNext]_augmentVars

\* A call that has begun is executed; nobody has to make another one.
AugmentedFairSpec == AugmentedSpec /\ WF_augmentVars(AugmentedStep)

-----------------------------------------------------------------------------
(* Properties *)

Resting == pc = "idle" /\ at = Null

\* The comments of rb_augment_insert and rb_augment_erase_end: the path of the
\* climb accounts for the new or removed entry and for all that the
\* rebalancing has moved.
Augmented ==
  Resting => \A n \in Members :
    size[n] = 1 + SizeOf(size, tree.kid[n]["left"]) + SizeOf(size, tree.kid[n]["right"])

\* No loop goes round for ever, that of rb_augment_path included: every call
\* returns.
CallsReturn == ~Resting ~> Resting
=============================================================================
