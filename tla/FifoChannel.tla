---------------------------- MODULE FifoChannel ----------------------------
(***************************************************************************)
(* What wotsen::SyncQueue<T> promises its users, without threads: elements *)
(* enter a log in some order, a cursor moves over it as they are delivered, *)
(* at most Capacity of them are undelivered, and closing the channel stops *)
(* both for good.                                                          *)
(***************************************************************************)
EXTENDS Naturals, Sequences, Functions

CONSTANTS
  Items,     \* the elements
  Capacity   \* how many accepted elements may be undelivered

VARIABLES
  log,      \* the elements accepted so far, in order
  next,     \* how many of them have been delivered
  closed    \* set once, by stop()

channelVars == <<log, next, closed>>

Init == log = <<>> /\ next = 0 /\ closed = FALSE

\* No element is accepted twice, and none when the channel is full.
Accept(x) ==
  /\ ~closed
  /\ x \notin Range(log)
  /\ Len(log) - next < Capacity
  /\ log' = Append(log, x)
  /\ UNCHANGED <<next, closed>>

\* One call may take a whole batch.
Deliver(k) ==
  /\ ~closed
  /\ k <= Len(log) - next
  /\ next' = next + k
  /\ UNCHANGED <<log, closed>>

Close == closed' = TRUE /\ UNCHANGED <<log, next>>

Next ==
  \/ \E x \in Items : Accept(x)
  \/ \E k \in 1 .. Len(log) : Deliver(k)
  \/ Close

Spec == Init /\ [][Next]_channelVars
=============================================================================
