--------------------------- MODULE MCCollections ---------------------------
(***************************************************************************)
(* The parts of Collections and two more that are defined by recursion,    *)
(* the min-heap and the binary search tree, in one run: every step is one  *)
(* of Collections that leaves the heap and the tree alone, or the reverse. *)
(***************************************************************************)
EXTENDS Collections, Bags

VARIABLES
  heap, contents, lost,                 \* MinHeap
  tree, out                             \* BstTree

AllSubjects == {"heap", "tree", "bloom", "prefix", "module"}
TreeOnly == {"tree"}
ThreeLetters == {"a", "b", "c"}
MaxSize == 6
HeapKeys == 1 .. 4
TreeKeys == 1 .. 5
Data == {"d", "e"}
ThreeStrings == {"r", "s", "t"}
FiveSizes == {0, 1, 8, 9, 13}
Hashes == [ThreeStrings -> {3, 8, 21}]
UpToTwoFuncs == {<<>>} \cup {<<f>> : f \in Hashes} \cup {<<f, g>> : f, g \in Hashes}

H == INSTANCE MinHeap WITH Keys <- HeapKeys
T == INSTANCE BstTree WITH Keys <- TreeKeys

heapVars == <<heap, contents, lost>>
treeVars == <<tree, out>>

AllInit == Init /\ H!Init /\ T!Init

AllNext ==
  /\ Next
  /\ IF subject = "heap" THEN H!Next ELSE UNCHANGED heapVars
  /\ IF subject = "tree" THEN T!Next ELSE UNCHANGED treeVars

AllSpec == AllInit /\ [][AllNext]_<<vars, heapVars, treeVars>>

-----------------------------------------------------------------------------
\* The properties of the parts: each module says what its own means.
HeapKeepsKeys == H!HeapKeepsKeys
ImplementsDictionary == T!ImplementsDictionary
SearchAsDocumented == T!SearchAsDocumented
=============================================================================
