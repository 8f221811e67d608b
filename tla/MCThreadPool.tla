---------------------------- MODULE MCThreadPool ----------------------------
(* Model values and task bodies for the runs of ThreadPool. *)
EXTENDS ThreadPool, TLC

CONSTANTS w1, w2, c1, c2, x1, x2, x3, x4, x5

TwoWorkers == <<w1, w2>>
TwoClients == {c1, c2}
AllThreads == {w1, w2, c1, c2}
ThreeTasks == {x1, x2, x3}
FourTasks == {x1, x2, x3, x4}
FiveTasks == {x1, x2, x3, x4, x5}
ListForm == {"take_list"}

NoCalls == [x \in ThreeTasks |-> {}]
NoTasks == {}
\* The same bodies for the fourth task, which makes no call.
WithFourth(calls) == [x \in FourTasks |-> IF x = x4 THEN {} ELSE calls[x]]
\* x1 submits x3.
Nested == [NoCalls EXCEPT ![x1] = {x3}]
NoCallsOfFive == [x \in FiveTasks |-> {}]
\* x1 submits x3, and x2 submits x4: with x5 in a queue of capacity 1 both
\* workers block.
BothNested == [NoCallsOfFive EXCEPT ![x1] = {x3}, ![x2] = {x4}]
\* x1 waits for x3.
FirstAwaits == [NoCalls EXCEPT ![x1] = {x3}]
NestedOfFour == WithFourth(Nested)
FirstAwaitsOfFour == WithFourth(FirstAwaits)
\* x2 calls stop().
SecondStops == {x2}
=============================================================================
