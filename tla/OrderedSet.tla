----------------------------- MODULE OrderedSet -----------------------------
(***************************************************************************)
(* What the search trees of the repository promise: a set of keys with an  *)
(* order, and what a query about it returns.  Keys are positive numbers    *)
(* and None, which is 0, stands for the null pointer.                      *)
(***************************************************************************)
EXTENDS Integers

CONSTANT Keys

VARIABLE members

None == 0

Init == members = {}

\* Inserting a key that is present, or removing one that is not, is a stutter.
Insert(k) == k \notin members /\ members' = members \cup {k}
Remove(k) == k \in members /\ members' = members \ {k}

Next == \E k \in Keys : Insert(k) \/ Remove(k)

Spec == Init /\ [][Next]_members

-----------------------------------------------------------------------------
(* Queries *)

Least(S) == IF S = {} THEN None ELSE CHOOSE x \in S : \A y \in S : x <= y
Greatest(S) == IF S = {} THEN None ELSE CHOOSE x \in S : \A y \in S : x >= y

Find(S, k) == IF k \in S THEN k ELSE None
AtLeast(S, k) == Least({x \in S : x >= k})
AtMost(S, k) == Greatest({x \in S : x <= k})
Above(S, k) == Least({x \in S : x > k})
Below(S, k) == Greatest({x \in S : x < k})
=============================================================================
