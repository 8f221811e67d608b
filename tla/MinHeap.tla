------------------------------ MODULE MinHeap ------------------------------
(***************************************************************************)
(* min-top-heap/min-heap.h: a binary heap in a std::vector.  heap[i] is    *)
(* the element at i - 1, and its children are those of 2 * i and 2 * i + 1. *)
(***************************************************************************)
EXTENDS Integers, Sequences, SequencesExt, Bags, BagsExt

CONSTANTS
  Keys,    \* a set of numbers
  MaxSize  \* bound: the number of elements

VARIABLES
  heap,      \* what heap_ points to
  contents,  \* history: the bag of what was inserted and not extracted,
  lost       \* until an extraction has removed equal keys

vars == <<heap, contents, lost>>

Swap(h, a, b) == [h EXCEPT ![a] = h[b], ![b] = h[a]]

\* Mutant: the parent of a right child is the slot next to its own.
ParentRoundsUp(i) == (i + 1) \div 2

Parent(i) == i \div 2

RECURSIVE SiftUp(_, _)
SiftUp(h, i) ==
  IF i > 1 /\ h[Parent(i)] > h[i] THEN SiftUp(Swap(h, Parent(i), i), Parent(i)) ELSE h

\* The left child if it is smaller, then the right one if it is smaller still.
RECURSIVE SiftDown(_, _)
SiftDown(h, i) ==
  LET l == 2 * i
      r == 2 * i + 1
      m == IF l <= Len(h) /\ h[i] > h[l] THEN l ELSE i
      least == IF r <= Len(h) /\ h[m] > h[r] THEN r ELSE m
  IN  IF least = i THEN h ELSE SiftDown(Swap(h, i, least), least)

insert(key) ==
  /\ Len(heap) < MaxSize
  /\ heap' = SiftUp(Append(heap, key), Len(heap) + 1)
  /\ contents' = IF lost THEN contents ELSE BagAdd(contents, key)
  /\ UNCHANGED lost

\* remove_if takes out every key that equals the last one, and when none is
\* left heap_[0] is written behind the end of an empty vector.
extract ==
  LET last == heap[Len(heap)]
      kept == SelectSeq(heap, LAMBDA item : item # last)
      equal == \E i \in 1 .. Len(heap) - 1 : heap[i] = last
  IN  /\ heap # <<>>
      /\ heap' = IF Len(heap) = 1 \/ kept = <<>> THEN <<>>
                 ELSE SiftDown([kept EXCEPT ![1] = last], 1)
      /\ lost' = (lost \/ equal)
      /\ contents' = IF lost' THEN EmptyBag ELSE BagRemove(contents, heap[1])

Init == heap = <<>> /\ contents = EmptyBag /\ lost = FALSE

Next == extract \/ \E key \in Keys : insert(key)

Spec == Init /\ [][Next]_vars

-----------------------------------------------------------------------------
\* As long as no extraction found the last key a second time, the heap has what
\* was inserted and not extracted, each as often, and no element is above a
\* smaller one: min() and extract() give a least key.
HeapKeepsKeys ==
  ~lost => /\ ToBag(heap) = contents
           /\ \A i \in 2 .. Len(heap) : heap[i \div 2] <= heap[i]
=============================================================================
