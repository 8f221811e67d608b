---------------------------- MODULE TaskExecutor ----------------------------
(***************************************************************************)
(* What wotsen::ThreadPool promises the threads that submit tasks, without *)
(* queue, batches, workers or locks: a task runs at most once, is given up *)
(* only when the pool is being stopped, and none runs once a call of stop() *)
(* has succeeded.  Nothing is promised about the order in which tasks run. *)
(***************************************************************************)
CONSTANT Items   \* the tasks

VARIABLES
  status,    \* status[x]: the life of task x
  closing,   \* some thread has begun to stop the pool
  closed     \* stop() has returned normally

executorVars == <<status, closing, closed>>

Init ==
  /\ status = [x \in Items |-> "new"]
  /\ closing = FALSE
  /\ closed = FALSE

Move(S, from, to) ==
  /\ \A x \in S : status[x] = from
  /\ status' = [x \in Items |-> IF x \in S THEN to ELSE status[x]]

Submit(x) == Move({x}, "new", "waiting") /\ UNCHANGED <<closing, closed>>

Start(x) ==
  /\ ~closed
  /\ Move({x}, "waiting", "running")
  /\ UNCHANGED <<closing, closed>>

Finish(x) == Move({x}, "running", "done") /\ UNCHANGED <<closing, closed>>

\* Whole batches are given up together.
Drop(S) ==
  /\ closing
  /\ Move(S, "waiting", "dropped")
  /\ UNCHANGED <<closing, closed>>

Close == closing' = TRUE /\ UNCHANGED <<status, closed>>

Quiesce ==
  /\ closing
  /\ \A x \in Items : status[x] # "running"
  /\ closed' = TRUE
  /\ UNCHANGED <<status, closing>>

Next ==
  \/ \E x \in Items : Submit(x) \/ Start(x) \/ Finish(x)
  \/ \E S \in SUBSET Items : Drop(S)
  \/ Close \/ Quiesce

Spec == Init /\ [][Next]_executorVars
=============================================================================
