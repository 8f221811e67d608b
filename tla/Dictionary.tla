----------------------------- MODULE Dictionary -----------------------------
(***************************************************************************)
(* What a search tree with data promises: keys with their data, and what   *)
(* the calls return.                                                       *)
(***************************************************************************)
EXTENDS Integers

CONSTANTS Keys, Data

VARIABLES
  entries,  \* a function from the keys that are present to their data
  out       \* what the last call returned, and the data that it gave out

NoData == "none"
Result(ok, data) == [ok |-> ok, data |-> data]

Init == entries = [k \in {} |-> NoData] /\ out = Result(FALSE, NoData)

Search(k) ==
  /\ out' = IF k \in DOMAIN entries THEN Result(TRUE, entries[k]) ELSE Result(FALSE, NoData)
  /\ UNCHANGED entries

\* The data of a key that is present is kept.
Insert(k, d) ==
  /\ out' = Result(k \notin DOMAIN entries, NoData)
  /\ entries' = [x \in DOMAIN entries \cup {k} |->
                   IF x \in DOMAIN entries THEN entries[x] ELSE d]

\* The keys that are neither the least nor the greatest one.
Inner == {k \in DOMAIN entries : \E a, b \in DOMAIN entries : a < k /\ k < b}

\* The data is always given out.  FALSE says nothing, also not that no key was
\* removed; TRUE says that one was removed, and that it was an inner one.
Del(k) ==
  /\ IF k \in DOMAIN entries
     THEN \E ok \in BOOLEAN : (ok => k \in Inner) /\ out' = Result(ok, entries[k])
     ELSE out' = Result(FALSE, NoData)
  /\ entries' = [x \in DOMAIN entries \ {k} |-> entries[x]]

Next == \E k \in Keys : Search(k) \/ Del(k) \/ \E d \in Data : Insert(k, d)

Spec == Init /\ [][Next]_<<entries, out>>
=============================================================================
