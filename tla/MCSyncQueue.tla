---------------------------- MODULE MCSyncQueue ----------------------------
(***************************************************************************)
(* Model values for the run of SyncQueue, and a history of the overloads of *)
(* take() in use, so that one run can say what holds without take(list).   *)
(***************************************************************************)
EXTENDS SyncQueue

CONSTANTS t1, t2, t3, x1, x2, x3, x4

VARIABLE batched  \* has take(list) been called?

ThreeThreads == {t1, t2, t3}
FourItems == {x1, x2, x3, x4}

BothForms == {"take_list", "take_one"}

MCInit == Init /\ batched = FALSE

MCNext ==
  /\ Next
  /\ batched' = (batched \/ \E t \in Threads : pc'[t] = "take_list")

MCSpec == MCInit /\ [][MCNext]_<<queueVars, batched>> /\ Fairness

-----------------------------------------------------------------------------
\* Until take(list) is called, every free slot has a producer of its own that
\* is awake, while another producer sleeps: take(t) notifies often enough.
PreciseUntilBatch == ~batched => PreciseProducerWakeup
=============================================================================
