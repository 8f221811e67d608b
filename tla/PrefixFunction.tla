--------------------------- MODULE PrefixFunction ---------------------------
(***************************************************************************)
(* kmp.cpp: prefix_t, one pass of its loop a step.  An array is a function *)
(* on 0 .. n - 1, and prefix has no values yet where it was not written.   *)
(***************************************************************************)
EXTENDS Integers

CONSTANTS
  Letters,
  MaxLen   \* bound: the length of the pattern

VARIABLES
  p, prefix, len, i,
  passes   \* history: the passes of the loop

vars == <<p, prefix, len, i, passes>>

n == CHOOSE m \in 1 .. MaxLen : DOMAIN p = 0 .. m - 1

Init ==
  /\ p \in UNION {[0 .. m - 1 -> Letters] : m \in 1 .. MaxLen}
  /\ prefix = [j \in {0} |-> 0]
  /\ len = 0 /\ i = 1 /\ passes = 0

Write(value) == [j \in DOMAIN prefix \cup {i} |-> IF j = i THEN value ELSE prefix[j]]

Match ==
  /\ i < n /\ p[i] = p[len]
  /\ len' = len + 1
  /\ prefix' = Write(len + 1)
  /\ i' = i + 1

\* Mutant: the length falls by one instead of to the next shorter border.
FallBackByOne ==
  /\ i < n /\ p[i] # p[len] /\ len > 0
  /\ len' = len - 1
  /\ UNCHANGED <<prefix, i>>

FallBack ==
  /\ i < n /\ p[i] # p[len] /\ len > 0
  /\ len' = prefix[len - 1]
  /\ UNCHANGED <<prefix, i>>

NoBorder ==
  /\ i < n /\ p[i] # p[len] /\ len = 0
  /\ prefix' = Write(0)
  /\ i' = i + 1
  /\ UNCHANGED len

Next ==
  /\ Match \/ FallBack \/ NoBorder
  /\ passes' = passes + 1
  /\ UNCHANGED p

Spec == Init /\ [][Next]_vars

-----------------------------------------------------------------------------
\* The first k letters of p[0 .. j] are its last k, and not all of it.
Border(k, j) == k <= j /\ \A m \in 0 .. k - 1 : p[m] = p[j + 1 - k + m]

\* What is written is the length of the longest border of each beginning of the
\* pattern, the length at hand is that of a border of what was read, and the
\* loop needs fewer than two passes for each letter.
PrefixRight ==
  /\ DOMAIN prefix = 0 .. i - 1
  /\ \A j \in 0 .. i - 1 :
       Border(prefix[j], j) /\ \A k \in prefix[j] + 1 .. j : ~Border(k, j)
  /\ Border(len, i - 1)
  /\ passes <= 2 * (i - 1)
=============================================================================
