----------------------------- MODULE SyncQueue -----------------------------
(***************************************************************************)
(* wotsen::SyncQueue<T> of src/thread-pool/sync-queue.h: a bounded blocking *)
(* queue made of a std::list, one mutex and two condition variables, used   *)
(* by an arbitrary set of threads that may make any call at any time.       *)
(*                                                                         *)
(* Every access the code makes to m_queue and m_needStop in these calls is  *)
(* under m_mutex, and a wait releases the mutex in the same instant as the  *)
(* thread goes to sleep.  A critical section is therefore one action: the   *)
(* thread acquires the mutex, evaluates the wait predicate and either goes  *)
(* to sleep or does its work and returns.  stop() notifies outside the      *)
(* mutex, so it takes three steps.                                          *)
(***************************************************************************)
EXTENDS Integers, Sequences, FiniteSets, Functions

CONSTANTS
  Threads,     \* the threads that use the queue
  Items,       \* the elements put; each is put at most once (bounds a TLC run)
  NoItem,      \* the argument of a thread that is not in put()
  m_maxSize,   \* the capacity given to the constructor
  TakeForms    \* the overloads of take() in use: "take_list", "take_one"

ASSUME SyncQueueAssumption ==
  /\ IsFiniteSet(Threads)
  /\ NoItem \notin Items
  /\ m_maxSize \in Nat \ {0}
  /\ TakeForms \subseteq {"take_list", "take_one"}

VARIABLES
  m_queue,     \* the buffer
  m_needStop,  \* the stop flag
  m_notEmpty,  \* the threads asleep on condition variable m_notEmpty
  m_notFull,   \* the threads asleep on condition variable m_notFull
  pc,          \* pc[t]: the call thread t is in, and how far it got
  arg,         \* arg[t]: the element thread t is putting
  taken        \* history: every element delivered by a take(), in order

queueVars == <<m_queue, m_needStop, m_notEmpty, m_notFull, pc, arg, taken>>

-----------------------------------------------------------------------------
(* Condition variables and calls *)

\* A thread asleep on a condition variable does nothing until it is removed.
Awake(t) == t \notin m_notEmpty \cup m_notFull

\* notify_one wakes one arbitrary sleeper, or nobody when there is none.
NotifyOne(sleepers) ==
  IF sleepers = {} THEN {{}} ELSE {sleepers \ {t} : t \in sleepers}

\* Mutant: notify_one in place of notify_all.
NotifyAllWakesOne(sleepers) ==
  IF sleepers = {} THEN {} ELSE sleepers \ {CHOOSE t \in sleepers : TRUE}

\* notify_all wakes every sleeper.
NotifyAll(sleepers) == {}

\* Mutant: > in place of >=.
notFullOffByOne == ~(Len(m_queue) > m_maxSize)

\* The wait predicates of add() and take(), without their m_needStop half.
notFull == ~(Len(m_queue) >= m_maxSize)
notEmpty == m_queue # <<>>

InCall(t, call) == pc[t] = call /\ Awake(t)

EnterCall(t, call, x) ==
  /\ pc[t] = "idle"
  /\ pc' = [pc EXCEPT ![t] = call]
  /\ arg' = [arg EXCEPT ![t] = x]
  /\ UNCHANGED <<m_queue, m_needStop, m_notEmpty, m_notFull, taken>>

ReturnFrom(t) ==
  /\ pc' = [pc EXCEPT ![t] = "idle"]
  /\ arg' = [arg EXCEPT ![t] = NoItem]

\* Each element is a distinct object: it is put by one call only.
Fresh(x) ==
  /\ x \notin Range(m_queue) \cup Range(taken)
  /\ \A t \in Threads : arg[t] # x

-----------------------------------------------------------------------------
(* put(x), which is add(x) *)

CallPut(t, x) == Fresh(x) /\ EnterCall(t, "put", x)

\* Mutant: a producer waits on the condition variable of the consumers.
PutBlockAsConsumer(t) ==
  /\ InCall(t, "put")
  /\ ~m_needStop /\ ~notFull
  /\ m_notEmpty' = m_notEmpty \cup {t}
  /\ UNCHANGED <<m_queue, m_needStop, m_notFull, pc, arg, taken>>

PutBlock(t) ==
  /\ InCall(t, "put")
  /\ ~m_needStop /\ ~notFull
  /\ m_notFull' = m_notFull \cup {t}
  /\ UNCHANGED <<m_queue, m_needStop, m_notEmpty, pc, arg, taken>>

PutRefused(t) ==
  /\ InCall(t, "put")
  /\ m_needStop
  /\ ReturnFrom(t)
  /\ UNCHANGED <<m_queue, m_needStop, m_notEmpty, m_notFull, taken>>

\* Mutant: the consumer is notified only when the queue was empty.
PutNotifiesIfEmpty(t) ==
  /\ InCall(t, "put")
  /\ ~m_needStop /\ notFull
  /\ m_queue' = Append(m_queue, arg[t])
  /\ m_notEmpty' \in IF m_queue = <<>> THEN NotifyOne(m_notEmpty) ELSE {m_notEmpty}
  /\ ReturnFrom(t)
  /\ UNCHANGED <<m_needStop, m_notFull, taken>>

PutAccepted(t) ==
  /\ InCall(t, "put")
  /\ ~m_needStop /\ notFull
  /\ m_queue' = Append(m_queue, arg[t])
  /\ m_notEmpty' \in NotifyOne(m_notEmpty)
  /\ ReturnFrom(t)
  /\ UNCHANGED <<m_needStop, m_notFull, taken>>

-----------------------------------------------------------------------------
(* take(list), which moves the whole buffer out, and take(t), which pops    *)
(* one element; on a stopped queue both leave the caller's variable alone   *)

CallTake(t, form) == form \in TakeForms /\ EnterCall(t, form, NoItem)

InTake(t) == pc[t] \in {"take_list", "take_one"}

TakeBlock(t) ==
  /\ InTake(t) /\ Awake(t)
  /\ ~m_needStop /\ ~notEmpty
  /\ m_notEmpty' = m_notEmpty \cup {t}
  /\ UNCHANGED <<m_queue, m_needStop, m_notFull, pc, arg, taken>>

TakeRefused(t) ==
  /\ InTake(t) /\ Awake(t)
  /\ m_needStop
  /\ ReturnFrom(t)
  /\ UNCHANGED <<m_queue, m_needStop, m_notEmpty, m_notFull, taken>>

\* Mutant: the buffer is emptied and no producer is told.
TakeListSilent(t) ==
  /\ InCall(t, "take_list")
  /\ ~m_needStop /\ notEmpty
  /\ taken' = taken \o m_queue
  /\ m_queue' = <<>>
  /\ ReturnFrom(t)
  /\ UNCHANGED <<m_needStop, m_notEmpty, m_notFull>>

TakeList(t) ==
  /\ InCall(t, "take_list")
  /\ ~m_needStop /\ notEmpty
  /\ taken' = taken \o m_queue
  /\ m_queue' = <<>>
  /\ m_notFull' \in NotifyOne(m_notFull)
  /\ ReturnFrom(t)
  /\ UNCHANGED <<m_needStop, m_notEmpty>>

\* Mutant: a producer is notified only when the queue was full.
TakeOneNotifiesIfFull(t) ==
  /\ InCall(t, "take_one")
  /\ ~m_needStop /\ notEmpty
  /\ taken' = Append(taken, Head(m_queue))
  /\ m_queue' = Tail(m_queue)
  /\ m_notFull' \in IF notFull THEN {m_notFull} ELSE NotifyOne(m_notFull)
  /\ ReturnFrom(t)
  /\ UNCHANGED <<m_needStop, m_notEmpty>>

\* Mutant: back() in place of front().
TakeOneFromBack(t) ==
  /\ InCall(t, "take_one")
  /\ ~m_needStop /\ notEmpty
  /\ taken' = Append(taken, m_queue[Len(m_queue)])
  /\ m_queue' = SubSeq(m_queue, 1, Len(m_queue) - 1)
  /\ m_notFull' \in NotifyOne(m_notFull)
  /\ ReturnFrom(t)
  /\ UNCHANGED <<m_needStop, m_notEmpty>>

TakeOne(t) ==
  /\ InCall(t, "take_one")
  /\ ~m_needStop /\ notEmpty
  /\ taken' = Append(taken, Head(m_queue))
  /\ m_queue' = Tail(m_queue)
  /\ m_notFull' \in NotifyOne(m_notFull)
  /\ ReturnFrom(t)
  /\ UNCHANGED <<m_needStop, m_notEmpty>>

-----------------------------------------------------------------------------
(* stop(): the flag under the mutex, then two notify_all outside it *)

CallStop(t) == EnterCall(t, "stop", NoItem)

StopSetFlag(t) ==
  /\ InCall(t, "stop")
  /\ m_needStop' = TRUE
  /\ pc' = [pc EXCEPT ![t] = "stop_notFull"]
  /\ UNCHANGED <<m_queue, m_notEmpty, m_notFull, arg, taken>>

StopNotifyFull(t) ==
  /\ InCall(t, "stop_notFull")
  /\ m_notFull' = NotifyAll(m_notFull)
  /\ pc' = [pc EXCEPT ![t] = "stop_notEmpty"]
  /\ UNCHANGED <<m_queue, m_needStop, m_notEmpty, arg, taken>>

\* Mutant: the second notify_all is missing.
StopForgetsEmpty(t) ==
  /\ InCall(t, "stop_notEmpty")
  /\ ReturnFrom(t)
  /\ UNCHANGED <<m_queue, m_needStop, m_notEmpty, m_notFull, taken>>

StopNotifyEmpty(t) ==
  /\ InCall(t, "stop_notEmpty")
  /\ m_notEmpty' = NotifyAll(m_notEmpty)
  /\ ReturnFrom(t)
  /\ UNCHANGED <<m_queue, m_needStop, m_notFull, taken>>

-----------------------------------------------------------------------------
\* A condition variable may wake a sleeper for no reason; it then evaluates
\* its predicate again.
SpuriousWakeup(t) ==
  /\ ~Awake(t)
  /\ m_notEmpty' = m_notEmpty \ {t}
  /\ m_notFull' = m_notFull \ {t}
  /\ UNCHANGED <<m_queue, m_needStop, pc, arg, taken>>

Init ==
  /\ m_queue = <<>>
  /\ m_needStop = FALSE
  /\ m_notEmpty = {}
  /\ m_notFull = {}
  /\ pc = [t \in Threads |-> "idle"]
  /\ arg = [t \in Threads |-> NoItem]
  /\ taken = <<>>

\* What thread t does of its own accord once it is in a call.
Step(t) ==
  \/ PutBlock(t) \/ PutRefused(t) \/ PutAccepted(t)
  \/ TakeBlock(t) \/ TakeRefused(t) \/ TakeList(t) \/ TakeOne(t)
  \/ StopSetFlag(t) \/ StopNotifyFull(t) \/ StopNotifyEmpty(t)

Call(t) ==
  \/ \E x \in Items : CallPut(t, x)
  \/ \E form \in TakeForms : CallTake(t, form)
  \/ CallStop(t)

Next == \E t \in Threads : Call(t) \/ Step(t) \/ SpuriousWakeup(t)

Spec == Init /\ [][Next]_queueVars

\* A thread that is not asleep runs, and gets the mutex, eventually.  Nobody
\* is obliged to make a call and no spurious wakeup ever has to come.
Fairness == \A t \in Threads : WF_queueVars(Step(t))

FairSpec == Spec /\ Fairness

-----------------------------------------------------------------------------
(* Safety *)

Calls == {"idle", "put", "take_list", "take_one",
          "stop", "stop_notFull", "stop_notEmpty"}

\* Every variable has its type, and a thread sleeps on a condition variable
\* only inside the call that waits on it.
TypeOK ==
  /\ m_queue \in Seq(Items)
  /\ taken \in Seq(Items)
  /\ m_needStop \in BOOLEAN
  /\ pc \in [Threads -> Calls]
  /\ arg \in [Threads -> Items \cup {NoItem}]
  /\ \A t \in Threads : arg[t] # NoItem <=> pc[t] = "put"
  /\ \A t \in Threads : InTake(t) => pc[t] \in TakeForms
  /\ m_notFull \subseteq {t \in Threads : pc[t] = "put"}
  /\ m_notEmpty \subseteq {t \in Threads : InTake(t)}

\* The buffer never grows past its capacity, however many producers were
\* woken for one free slot: a woken put() evaluates notFull() again.
Capacity == Len(m_queue) <= m_maxSize

AwakeTakers == {t \in Threads : InTake(t) /\ Awake(t)}
AwakePutters == {t \in Threads : pc[t] = "put" /\ Awake(t)}

\* No wakeup of a consumer is lost: while one sleeps in take(), every buffered
\* element has a consumer of its own that is awake and on its way to it.
ConsumerWakeup ==
  ~m_needStop /\ m_notEmpty # {} => Len(m_queue) <= Cardinality(AwakeTakers)

\* A producer sleeps in put() only while there is an element whose removal
\* will wake it, or another producer that is awake.  No more can be said when
\* take(list) is used: it frees every slot and notifies one producer.
ProducerWakeup ==
  ~m_needStop /\ m_notFull # {} => m_queue # <<>> \/ AwakePutters # {}

\* When elements are only taken one at a time, while a producer sleeps every
\* free slot has a producer of its own that is awake and on its way to it.
PreciseProducerWakeup ==
  ~m_needStop /\ m_notFull # {} =>
    m_maxSize - Len(m_queue) <= Cardinality(AwakePutters)

\* stop() misses no sleeper: after the flag is set a thread is asleep only
\* while some stop() has yet to notify its condition variable, although the
\* notifications are sent outside the mutex.
StopWakeup ==
  m_needStop =>
    /\ m_notFull # {} => \E t \in Threads : pc[t] = "stop_notFull"
    /\ m_notEmpty # {} =>
         \E t \in Threads : pc[t] \in {"stop_notFull", "stop_notEmpty"}

-----------------------------------------------------------------------------
(* What the queue promises: a bounded FIFO channel that can be closed *)

Channel == INSTANCE FifoChannel WITH
             Capacity <- m_maxSize,
             log <- taken \o m_queue, next <- Len(taken), closed <- m_needStop

\* The elements leave the queue in the order in which they entered it, each
\* once, none is invented, and none enters or leaves once stop() has set its
\* flag: the mutex and condition variables implement the abstract channel.
ImplementsChannel == Channel!Spec

-----------------------------------------------------------------------------
(* Liveness *)

\* After stop() has set its flag every call in progress returns.
StopReleases ==
  \A t \in Threads : (m_needStop /\ pc[t] # "idle") ~> (pc[t] = "idle")

\* An element does not stay in a running queue while a consumer is in take().
NoStuckItem ==
  \A x \in Items :
    []<>~(x \in Range(m_queue) /\ ~m_needStop /\ \E t \in Threads : InTake(t))

\* A producer does not stay blocked while the queue is empty.
NoStuckPutter ==
  \A t \in Threads : []<>~(pc[t] = "put" /\ m_queue = <<>> /\ ~m_needStop)
=============================================================================
