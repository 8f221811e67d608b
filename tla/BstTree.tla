------------------------------ MODULE BstTree ------------------------------
(***************************************************************************)
(* binary-tree/bst-tree.h: BstTree<K, D>, a search tree without balancing. *)
(* A tree is its root node with the trees below it, or Nil.                *)
(***************************************************************************)
EXTENDS Integers

CONSTANTS
  Keys,  \* a set of numbers
  Data   \* what D can be

VARIABLES
  tree,  \* *tree_
  out    \* history: what the last call returned, and the data that it gave out

vars == <<tree, out>>

Nil == [null |-> TRUE]
NewNode(key, data) == [key |-> key, data |-> data, lchild |-> Nil, rchild |-> Nil]

NoData == "none"
Result(ok, data) == [ok |-> ok, data |-> data]

-----------------------------------------------------------------------------
RECURSIVE Search(_, _)
Search(root, key) ==
  IF root = Nil THEN Result(FALSE, NoData)
  ELSE IF key = root.key THEN Result(TRUE, root.data)
  ELSE IF key < root.key THEN Search(root.lchild, key)
  ELSE Search(root.rchild, key)

\* A new node hangs under the last node of a search that failed.
RECURSIVE Insert(_, _, _)
Insert(root, key, data) ==
  IF root = Nil THEN NewNode(key, data)
  ELSE IF key < root.key THEN [root EXCEPT !.lchild = Insert(@, key, data)]
  ELSE [root EXCEPT !.rchild = Insert(@, key, data)]

RECURSIVE Rightmost(_)
Rightmost(root) == IF root.rchild = Nil THEN root ELSE Rightmost(root.rchild)

\* Mutant: what is left of the rightmost node is lost with it.
RECURSIVE WithoutRightmostLeft(_)
WithoutRightmostLeft(root) ==
  IF root.rchild = Nil THEN Nil ELSE [root EXCEPT !.rchild = WithoutRightmostLeft(@)]

RECURSIVE WithoutRightmost(_)
WithoutRightmost(root) ==
  IF root.rchild = Nil THEN root.lchild ELSE [root EXCEPT !.rchild = WithoutRightmost(@)]

\* del_node: a node with two children stays, with the key and the data of the
\* greatest one on its left.
DelNode(node) ==
  IF node.lchild = Nil THEN node.rchild
  ELSE IF node.rchild = Nil THEN node.lchild
  ELSE [node EXCEPT !.key = Rightmost(node.lchild).key,
                    !.data = Rightmost(node.lchild).data,
                    !.lchild = WithoutRightmost(@)]

\* The tree without the key, and what del() returns: TRUE if del_node kept the
\* node, FALSE if it took it out or the key is not there.
RECURSIVE Del(_, _)
Del(root, key) ==
  IF root = Nil THEN [tree |-> Nil, out |-> Result(FALSE, NoData)]
  ELSE IF key = root.key
  THEN [tree |-> DelNode(root),
        out |-> Result(root.lchild # Nil /\ root.rchild # Nil, root.data)]
  ELSE LET child == IF key < root.key THEN root.lchild ELSE root.rchild
           below == Del(child, key)
       IN  [tree |-> IF key < root.key THEN [root EXCEPT !.lchild = below.tree]
                     ELSE [root EXCEPT !.rchild = below.tree],
            out |-> below.out]

-----------------------------------------------------------------------------
search(key) == out' = Search(tree, key) /\ UNCHANGED tree

insert(key, data) ==
  /\ tree' = IF Search(tree, key).ok THEN tree ELSE Insert(tree, key, data)
  /\ out' = Result(~Search(tree, key).ok, NoData)

del(key) ==
  /\ tree' = Del(tree, key).tree
  /\ out' = Del(tree, key).out

Init == tree = Nil /\ out = Result(FALSE, NoData)

Next == \E key \in Keys : search(key) \/ del(key) \/ \E data \in Data : insert(key, data)

Spec == Init /\ [][Next]_vars

-----------------------------------------------------------------------------
\* Every node of the tree, wherever it hangs.
RECURSIVE Nodes(_)
Nodes(root) ==
  IF root = Nil THEN {} ELSE {root} \cup Nodes(root.lchild) \cup Nodes(root.rchild)

Entries == [key \in {n.key : n \in Nodes(tree)} |->
              (CHOOSE n \in Nodes(tree) : n.key = key).data]

Abstract == INSTANCE Dictionary WITH entries <- Entries

\* The tree is a dictionary: it loses no key and no data when a node with two
\* children takes over the key of another, search() finds exactly what is in
\* some node, and TRUE of del() means that the key was there, between two others.
ImplementsDictionary == Abstract!Spec

\* search() as its comment documents it: TRUE says that the search has failed.
SearchAsDocumented ==
  [][\A key \in Keys : search(key) => out'.ok = (key \notin DOMAIN Entries)]_vars
=============================================================================
