-------------------------- MODULE ThreadPoolProofs --------------------------
(***************************************************************************)
(* Theorems about ThreadPool, for every number of workers and clients, set  *)
(* of tasks, queue capacity and choice of what the tasks do.               *)
(***************************************************************************)
EXTENDS ThreadPool, SyncQueueProofs

-----------------------------------------------------------------------------
(* The pool uses the queue only through the queue's operations, so what is  *)
(* proved of the queue holds of the queue inside the pool.                  *)

LEMMA ThreadFacts ==
  /\ Workers \subseteq Threads
  /\ Clients \subseteq Threads
  /\ Clients \cap Workers = {}
  /\ Owner \in Clients
BY ThreadPoolAssumption DEF Workers, Range

\* Every step of the pool is a step of the queue or leaves it alone.
LEMMA PoolStepIsQueueStep == [PoolNext]_vars => [Next]_queueVars
<1> SUFFICES ASSUME [PoolNext]_vars PROVE Next \/ UNCHANGED queueVars
  OBVIOUS
<1> USE ThreadFacts
<1>1. CASE OwnerStep \/ Destructor \/ Terminated
  BY <1>1 DEF OwnerStep, StartThread, ConstructorReturns, DestroyMembers,
              Destructor, Terminated, vars
<1>2. ASSUME NEW t \in Threads, NEW x \in Items, AddTask(t, x)
      PROVE  Next
  BY <1>2 DEF AddTask, Next, Call
<1>3. ASSUME NEW t \in Threads, AddStep(t) PROVE Next
  BY <1>3 DEF AddStep, AddBlocked, AddAccepted, AddRefused, Next, Step
<1>4. ASSUME NEW t \in Threads, StopStep(t) PROVE Next \/ UNCHANGED queueVars
  <2>1. CASE OnceEnter(t)
    BY <2>1 DEF OnceEnter, Next, Call
  <2>2. CASE GroupStopsQueue(t)
    BY <2>2 DEF GroupStopsQueue, Next, Step
  <2> QED
    BY <1>4, <2>1, <2>2
       DEF StopStep, OnceSkip, GroupClearsRunning, Join, JoinThrows, GroupReturns
<1>5. ASSUME NEW t \in Threads, PoolSpurious(t) PROVE Next
  BY <1>5 DEF PoolSpurious, Next
<1>6. ASSUME NEW t \in Threads, PoolStop(t) PROVE UNCHANGED queueVars
  BY <1>6 DEF PoolStop
<1>7. ASSUME NEW w \in Workers, WorkerStep(w) PROVE Next \/ UNCHANGED queueVars
  <2>1. CASE LoopTest(w)
    BY <2>1, ThreadPoolAssumption DEF LoopTest, Next, Call
  <2>2. CASE TakeBlocked(w) \/ TakeReturns(w)
    BY <2>2 DEF TakeBlocked, TakeReturns, Next, Step
  <2>3. CASE NextTask(w) \/ DropBatch(w) \/ BatchDone(w) \/ BodyReturns(w)
    BY <2>3 DEF NextTask, DropBatch, BatchDone, BodyReturns
  <2> QED BY <1>2, <1>6, <1>7, <2>1, <2>2, <2>3 DEF WorkerStep
<1>8. ASSUME NEW c \in Clients, ClientCall(c) PROVE Next \/ UNCHANGED queueVars
  BY <1>2, <1>6, <1>8 DEF ClientCall
<1>9. CASE UNCHANGED vars
  BY <1>9 DEF vars
<1> QED BY <1>1, <1>3, <1>4, <1>5, <1>7, <1>8, <1>9 DEF PoolNext

\* The queue inside a pool behaves as a SyncQueue.
THEOREM QueueInPool == PoolSpec => Spec
<1>1. PoolInit => Init
  BY DEF PoolInit
<1> QED BY <1>1, PoolStepIsQueueStep, PTL DEF PoolSpec, Spec

\* What is proved of the queue therefore holds in the pool.
THEOREM PoolQueueSafe ==
  PoolSpec => [](TypeOK /\ Capacity /\ ConsumerWakeup /\ ProducerWakeup /\ StopWakeup)
BY QueueInPool, Typed, Bounded, NoLostConsumerWakeup, NoLostProducerWakeup,
   StopMissesNoSleeper, PTL

-----------------------------------------------------------------------------
(* Who may stop the pool, and what a completed stop means *)

\* The part of PoolTypeOK that needs no other invariant.
PoolTyped ==
  /\ m_threadgroup \in Seq(Workers)
  /\ m_flag \in {"unset", "active", "done"}
  /\ fut \in [Items -> {"none", "pending", "ready", "broken"}]
  /\ loc \in [Threads -> Locs]
  /\ list \in [Workers -> Seq(Items)]
  /\ cur \in [Workers -> Items \cup {NoItem}]
  /\ joinIdx \in Nat
  /\ pool \in {"starting", "alive", "dying", "destroyed", "aborted"}
  /\ \A t \in Threads :
       /\ pc[t] = "put" <=> loc[t] = "add"
       /\ pc[t] = "take_list" <=> loc[t] = "take"
       /\ pc[t] \in {"stop", "stop_notFull", "stop_notEmpty"} <=> loc[t] = "group"
       /\ pc[t] # "take_one"
  /\ \A w \in Workers :
       cur[w] = NoItem <=> loc[w] \in {"unborn", "loop", "take", "for", "exited"}
  /\ \A c \in Clients :
       loc[c] \in {"idle", "members", "add", "once", "group", "set_running", "join"}

\* Until the constructor returns nothing has been submitted or stopped.
StartupInv ==
  pool = "starting" =>
    /\ m_flag = "unset"
    /\ \A t \in Threads : loc[t] \in {"unborn", "idle", "loop", "take", "for", "exited"}
    /\ m_queue = <<>>
    /\ \A w \in Workers : list[w] = <<>>
    /\ Len(m_threadgroup) <= Len(WorkerList)
    /\ \A i \in 1 .. Len(WorkerList) :
         IF i <= Len(m_threadgroup) THEN m_threadgroup[i] = WorkerList[i]
                                    ELSE loc[WorkerList[i]] = "unborn"

\* The threads the join loop has passed have exited, the loop covers every
\* worker, and a worker outside its for loop holds no batch.
JoinInv ==
  /\ pool # "starting" /\ m_flag # "done" => m_threadgroup = WorkerList
  /\ (\E t \in Threads : loc[t] = "join") =>
       /\ joinIdx >= 1
       /\ \A i \in 1 .. Len(m_threadgroup) :
            i < joinIdx => loc[m_threadgroup[i]] = "exited"
  /\ m_flag = "done" => \A w \in Workers : loc[w] = "exited"
  /\ \A w \in Workers :
       loc[w] \in {"unborn", "loop", "take", "exited"} => list[w] = <<>>

\* While the destructor runs no other client is in a call on the pool.
DestructorInv ==
  /\ pool = "dying" =>
       /\ \A c \in Clients \ {Owner} : loc[c] = "idle"
       /\ loc[Owner] \in {"once", "group", "set_running", "join", "members"}
       /\ loc[Owner] = "members" => m_flag = "done"
  /\ pool \in {"starting", "alive"} => \A c \in Clients : loc[c] # "members"
  /\ pool = "destroyed" => m_flag = "done" /\ \A c \in Clients : loc[c] = "idle"

PoolInv == PoolTyped /\ StopExclusive /\ StartupInv /\ JoinInv /\ DestructorInv

LEMMA WorkerAt ==
  /\ Len(WorkerList) \in Nat
  /\ \A i \in 1 .. Len(WorkerList) : WorkerList[i] \in Workers
  /\ \A w \in Workers : \E i \in 1 .. Len(WorkerList) : w = WorkerList[i]
  /\ \A i, j \in 1 .. Len(WorkerList) : WorkerList[i] = WorkerList[j] => i = j
BY ThreadPoolAssumption DEF Workers, Range, IsInjective

LEMMA PoolInvInit == PoolInit => PoolInv
<1> SUFFICES ASSUME PoolInit PROVE PoolInv
  OBVIOUS
<1> USE ThreadFacts DEF PoolInit, Init
<1>1. PoolTyped
  <2>1. m_threadgroup \in Seq(Workers)
    OBVIOUS
  <2>2. list \in [Workers -> Seq(Items)]
    OBVIOUS
  <2> QED BY <2>1, <2>2 DEF PoolTyped, Locs
<1>2. StopExclusive /\ StartupInv /\ JoinInv /\ DestructorInv
  <2>1. /\ Len(m_threadgroup) = 0 /\ Len(WorkerList) \in Nat
        /\ \A i \in 1 .. Len(WorkerList) : WorkerList[i] \in Workers
    BY WorkerAt
  <2> QED
    BY <2>1 DEF StopExclusive, GroupLocs, StartupInv, JoinInv, DestructorInv
<1> QED BY <1>1, <1>2 DEF PoolInv

-----------------------------------------------------------------------------
(* One lemma for each action of the pool: it preserves PoolInv. *)

LEMMA StartThreadKeeps ==
  ASSUME TypeOK, PoolInv, StartThread
  PROVE  PoolInv'
<1> USE ThreadFacts DEF PoolInv
<1> DEFINE n == Len(m_threadgroup) + 1
           w == WorkerList[n]
<1>0. /\ m_threadgroup \in Seq(Workers)
      /\ pool = "starting" /\ n \in 1 .. Len(WorkerList)
      /\ ~(n <= Len(m_threadgroup))
  BY WorkerAt DEF StartThread, PoolTyped
<1>1. w \in Workers /\ loc[w] = "unborn"
  BY <1>0, WorkerAt DEF StartupInv
<1>2. /\ m_threadgroup' = Append(m_threadgroup, w)
      /\ loc' = [loc EXCEPT ![w] = "loop"]
      /\ UNCHANGED <<queueVars, m_flag, fut, list, cur, joinIdx, pool>>
  BY DEF StartThread, Goto
<1>3. \A i \in 1 .. Len(WorkerList) : i # n => WorkerList[i] # w
  BY <1>0, WorkerAt
<1>4. /\ m_threadgroup' \in Seq(Workers)
      /\ Len(m_threadgroup') = n
      /\ \A i \in 1 .. Len(m_threadgroup) : m_threadgroup'[i] = m_threadgroup[i]
      /\ m_threadgroup'[n] = w
  BY <1>0, <1>1, <1>2
<1>5. \A i \in 1 .. Len(WorkerList) :
        IF i <= n THEN m_threadgroup'[i] = WorkerList[i]
                  ELSE loc'[WorkerList[i]] = "unborn"
  <2> SUFFICES ASSUME NEW i \in 1 .. Len(WorkerList)
               PROVE  IF i <= n THEN m_threadgroup'[i] = WorkerList[i]
                                ELSE loc'[WorkerList[i]] = "unborn"
    OBVIOUS
  <2>1. CASE i < n
    BY <1>0, <1>4, <2>1 DEF StartupInv
  <2>2. CASE i = n
    BY <1>4, <2>2
  <2>3. CASE i > n
    BY <1>0, <1>1, <1>2, <1>3, <2>3, WorkerAt DEF StartupInv, PoolTyped
  <2> QED BY <1>0, <2>1, <2>2, <2>3, WorkerAt
<1> HIDE DEF w, n
<1>6. PoolTyped'
  BY <1>1, <1>2, <1>4 DEF PoolTyped, Locs, queueVars
<1>7. StopExclusive'
  BY <1>1, <1>2 DEF PoolTyped, StopExclusive, GroupLocs
<1>8. StartupInv'
  <2>1. n <= Len(WorkerList)
    BY <1>0, WorkerAt
  <2> QED BY <1>0, <1>1, <1>2, <1>4, <1>5, <2>1 DEF StartupInv, PoolTyped, queueVars
<1>9. JoinInv'
  <2>1. /\ \A t \in Threads : loc[t] # "join"
        /\ \A v \in Workers : list[v] = <<>>
        /\ m_flag # "done"
    BY <1>0 DEF StartupInv
  <2>2. \A t \in Threads : loc'[t] # "join"
    BY <1>2, <2>1 DEF PoolTyped
  <2> QED BY <1>0, <1>2, <2>1, <2>2 DEF JoinInv
<1>10. DestructorInv'
  BY <1>0, <1>1, <1>2 DEF PoolTyped, DestructorInv
<1> QED BY <1>6, <1>7, <1>8, <1>9, <1>10

LEMMA ConstructorReturnsKeeps ==
  ASSUME TypeOK, PoolInv, ConstructorReturns
  PROVE  PoolInv'
<1> USE ThreadFacts DEF PoolInv, ConstructorReturns
<1>1. PoolTyped'
  BY DEF PoolTyped, Locs, TypeOK, queueVars
<1>2. StopExclusive'
  BY DEF PoolTyped, StopExclusive, GroupLocs
<1>3. StartupInv'
  BY WorkerAt DEF PoolTyped, StartupInv, TypeOK
<1>4. JoinInv'
  <2>1. m_threadgroup = WorkerList
    <3>1. m_threadgroup \in Seq(Workers) /\ WorkerList \in Seq(Threads)
      BY ThreadPoolAssumption DEF PoolTyped
    <3>2. \A i \in 1 .. Len(WorkerList) : m_threadgroup[i] = WorkerList[i]
      BY DEF StartupInv
    <3> QED BY <3>1, <3>2
  <2> QED BY <2>1 DEF PoolTyped, StartupInv, JoinInv, StopExclusive, GroupLocs
<1>5. DestructorInv'
  BY DEF PoolTyped, DestructorInv, StartupInv, JoinInv
<1> QED BY <1>1, <1>2, <1>3, <1>4, <1>5

LEMMA AddTaskKeeps ==
  ASSUME TypeOK, PoolInv, NEW t \in Threads, NEW x \in Items, AddTask(t, x)
  PROVE  PoolInv'
<1> USE ThreadFacts DEF PoolInv, AddTask, ClientReady, CallPut, EnterCall, Goto
<1>1. PoolTyped'
  BY DEF PoolTyped, Locs, TypeOK
<1>2. StopExclusive'
  BY DEF PoolTyped, StopExclusive, GroupLocs
<1>3. StartupInv'
  BY WorkerAt DEF PoolTyped, StartupInv, TypeOK
<1>4. JoinInv'
  BY DEF PoolTyped, StartupInv, JoinInv, StopExclusive, GroupLocs
<1>5. DestructorInv'
  BY DEF PoolTyped, DestructorInv, StartupInv, JoinInv
<1> QED BY <1>1, <1>2, <1>3, <1>4, <1>5

LEMMA AddBlockedKeeps ==
  ASSUME TypeOK, PoolInv, NEW t \in Threads, AddBlocked(t)
  PROVE  PoolInv'
<1> USE ThreadFacts DEF PoolInv, AddBlocked, PutBlock, poolVars
<1>1. PoolTyped'
  BY DEF PoolTyped, Locs, TypeOK
<1>2. StopExclusive'
  BY DEF PoolTyped, StopExclusive, GroupLocs
<1>3. StartupInv'
  BY WorkerAt DEF PoolTyped, StartupInv, TypeOK
<1>4. JoinInv'
  BY DEF PoolTyped, StartupInv, JoinInv, StopExclusive, GroupLocs
<1>5. DestructorInv'
  BY DEF PoolTyped, DestructorInv, StartupInv, JoinInv
<1> QED BY <1>1, <1>2, <1>3, <1>4, <1>5

LEMMA AddAcceptedKeeps ==
  ASSUME TypeOK, PoolInv, NEW t \in Threads, AddAccepted(t)
  PROVE  PoolInv'
<1> USE ThreadFacts DEF PoolInv, AddAccepted, PutAccepted, ReturnFrom, Goto, ResumeLoc
<1>1. PoolTyped'
  BY DEF PoolTyped, Locs, TypeOK
<1>2. StopExclusive'
  BY DEF PoolTyped, StopExclusive, GroupLocs
<1>3. StartupInv'
  BY WorkerAt DEF PoolTyped, StartupInv, TypeOK
<1>4. JoinInv'
  BY DEF PoolTyped, StartupInv, JoinInv, StopExclusive, GroupLocs
<1>5. DestructorInv'
  BY DEF PoolTyped, DestructorInv, StartupInv, JoinInv
<1> QED BY <1>1, <1>2, <1>3, <1>4, <1>5

LEMMA AddRefusedKeeps ==
  ASSUME TypeOK, PoolInv, NEW t \in Threads, AddRefused(t)
  PROVE  PoolInv'
<1> USE ThreadFacts DEF PoolInv, AddRefused, PutRefused, ReturnFrom, Goto, ResumeLoc, Break
<1>1. PoolTyped'
  BY DEF PoolTyped, Locs, TypeOK
<1>2. StopExclusive'
  BY DEF PoolTyped, StopExclusive, GroupLocs
<1>3. StartupInv'
  BY WorkerAt DEF PoolTyped, StartupInv, TypeOK
<1>4. JoinInv'
  BY DEF PoolTyped, StartupInv, JoinInv, StopExclusive, GroupLocs
<1>5. DestructorInv'
  BY DEF PoolTyped, DestructorInv, StartupInv, JoinInv
<1> QED BY <1>1, <1>2, <1>3, <1>4, <1>5

LEMMA TakeBlockedKeeps ==
  ASSUME TypeOK, PoolInv, NEW t \in Workers, TakeBlocked(t)
  PROVE  PoolInv'
<1> USE ThreadFacts DEF PoolInv, TakeBlocked, TakeBlock, poolVars
<1>1. PoolTyped'
  BY DEF PoolTyped, Locs, TypeOK
<1>2. StopExclusive'
  BY DEF PoolTyped, StopExclusive, GroupLocs
<1>3. StartupInv'
  BY WorkerAt DEF PoolTyped, StartupInv, TypeOK
<1>4. JoinInv'
  BY DEF PoolTyped, StartupInv, JoinInv, StopExclusive, GroupLocs
<1>5. DestructorInv'
  BY DEF PoolTyped, DestructorInv, StartupInv, JoinInv
<1> QED BY <1>1, <1>2, <1>3, <1>4, <1>5

LEMMA TakeReturnsKeeps ==
  ASSUME TypeOK, PoolInv, NEW t \in Workers, TakeReturns(t)
  PROVE  PoolInv'
<1> USE ThreadFacts DEF PoolInv, TakeReturns, TakeList, TakeRefused, notEmpty, ReturnFrom, Goto
<1>1. PoolTyped'
  <2>1. CASE TakeList(t) /\ list' = [list EXCEPT ![t] = m_queue]
    BY <2>1 DEF PoolTyped, Locs, TypeOK
  <2>2. CASE TakeRefused(t) /\ list' = list
    BY <2>2 DEF PoolTyped, Locs, TypeOK
  <2> QED BY <2>1, <2>2
<1>2. StopExclusive'
  BY DEF PoolTyped, StopExclusive, GroupLocs
<1>3. StartupInv'
  BY WorkerAt DEF PoolTyped, StartupInv, TypeOK
<1>4. JoinInv'
  BY DEF PoolTyped, StartupInv, JoinInv, StopExclusive, GroupLocs
<1>5. DestructorInv'
  BY DEF PoolTyped, DestructorInv, StartupInv, JoinInv
<1> QED BY <1>1, <1>2, <1>3, <1>4, <1>5

LEMMA NextTaskKeeps ==
  ASSUME TypeOK, PoolInv, NEW t \in Workers, NextTask(t)
  PROVE  PoolInv'
<1> USE ThreadFacts DEF PoolInv, NextTask, Goto, queueVars
<1>1. PoolTyped'
  <2>1. Head(list[t]) \in Items /\ Tail(list[t]) \in Seq(Items)
    BY DEF PoolTyped
  <2>2. Head(list[t]) # NoItem
    BY <2>1, SyncQueueAssumption
  <2> QED BY <2>1, <2>2 DEF PoolTyped, Locs
<1>2. StopExclusive'
  BY DEF PoolTyped, StopExclusive, GroupLocs
<1>3. StartupInv'
  BY WorkerAt DEF PoolTyped, StartupInv, TypeOK
<1>4. JoinInv'
  BY DEF PoolTyped, StartupInv, JoinInv, StopExclusive, GroupLocs
<1>5. DestructorInv'
  BY DEF PoolTyped, DestructorInv, StartupInv, JoinInv
<1> QED BY <1>1, <1>2, <1>3, <1>4, <1>5

LEMMA DropBatchKeeps ==
  ASSUME TypeOK, PoolInv, NEW t \in Workers, DropBatch(t)
  PROVE  PoolInv'
<1> USE ThreadFacts DEF PoolInv, DropBatch, Goto, Break, queueVars
<1>1. PoolTyped'
  BY DEF PoolTyped, Locs, TypeOK
<1>2. StopExclusive'
  BY DEF PoolTyped, StopExclusive, GroupLocs
<1>3. StartupInv'
  BY WorkerAt DEF PoolTyped, StartupInv, TypeOK
<1>4. JoinInv'
  BY DEF PoolTyped, StartupInv, JoinInv, StopExclusive, GroupLocs
<1>5. DestructorInv'
  BY DEF PoolTyped, DestructorInv, StartupInv, JoinInv
<1> QED BY <1>1, <1>2, <1>3, <1>4, <1>5

LEMMA BatchDoneKeeps ==
  ASSUME TypeOK, PoolInv, NEW t \in Workers, BatchDone(t)
  PROVE  PoolInv'
<1> USE ThreadFacts DEF PoolInv, BatchDone, Goto, queueVars
<1>1. PoolTyped'
  BY DEF PoolTyped, Locs, TypeOK
<1>2. StopExclusive'
  BY DEF PoolTyped, StopExclusive, GroupLocs
<1>3. StartupInv'
  BY WorkerAt DEF PoolTyped, StartupInv, TypeOK
<1>4. JoinInv'
  BY DEF PoolTyped, StartupInv, JoinInv, StopExclusive, GroupLocs
<1>5. DestructorInv'
  BY DEF PoolTyped, DestructorInv, StartupInv, JoinInv
<1> QED BY <1>1, <1>2, <1>3, <1>4, <1>5

LEMMA BodyReturnsKeeps ==
  ASSUME TypeOK, PoolInv, NEW t \in Workers, BodyReturns(t)
  PROVE  PoolInv'
<1> USE ThreadFacts DEF PoolInv, BodyReturns, BodyDone, TaskEnds, Goto, queueVars
<1>1. PoolTyped'
  BY ZenonT(60) DEF PoolTyped, Locs, TypeOK
<1>2. StopExclusive'
  BY DEF PoolTyped, StopExclusive, GroupLocs
<1>3. StartupInv'
  BY WorkerAt DEF PoolTyped, StartupInv, TypeOK
<1>4. JoinInv'
  BY DEF PoolTyped, StartupInv, JoinInv, StopExclusive, GroupLocs
<1>5. DestructorInv'
  BY DEF PoolTyped, DestructorInv, StartupInv, JoinInv
<1> QED BY <1>1, <1>2, <1>3, <1>4, <1>5

LEMMA PoolStopKeeps ==
  ASSUME TypeOK, PoolInv, NEW t \in Threads, PoolStop(t)
  PROVE  PoolInv'
<1> USE ThreadFacts DEF PoolInv, PoolStop, ClientReady, BodyDone, Goto, queueVars
<1>1. PoolTyped'
  BY DEF PoolTyped, Locs, TypeOK
<1>2. StopExclusive'
  BY DEF PoolTyped, StopExclusive, GroupLocs
<1>3. StartupInv'
  BY WorkerAt DEF PoolTyped, StartupInv, TypeOK
<1>4. JoinInv'
  BY DEF PoolTyped, StartupInv, JoinInv, StopExclusive, GroupLocs
<1>5. DestructorInv'
  BY DEF PoolTyped, DestructorInv, StartupInv, JoinInv
<1> QED BY <1>1, <1>2, <1>3, <1>4, <1>5

LEMMA DestructorKeeps ==
  ASSUME TypeOK, PoolInv, Destructor
  PROVE  PoolInv'
<1> USE ThreadFacts DEF PoolInv, Destructor, ClientReady, Goto, queueVars
<1>1. PoolTyped'
  BY DEF PoolTyped, Locs, TypeOK
<1>2. StopExclusive'
  BY DEF PoolTyped, StopExclusive, GroupLocs
<1>3. StartupInv'
  BY WorkerAt DEF PoolTyped, StartupInv, TypeOK
<1>4. JoinInv'
  BY DEF PoolTyped, StartupInv, JoinInv, StopExclusive, GroupLocs
<1>5. DestructorInv'
  BY DEF PoolTyped, DestructorInv, StartupInv, JoinInv
<1> QED BY <1>1, <1>2, <1>3, <1>4, <1>5

LEMMA OnceEnterKeeps ==
  ASSUME TypeOK, PoolInv, NEW t \in Threads, OnceEnter(t)
  PROVE  PoolInv'
<1> USE ThreadFacts DEF PoolInv, OnceEnter, CallStop, EnterCall, Goto
<1>1. PoolTyped'
  BY DEF PoolTyped, Locs, TypeOK
<1>2. StopExclusive'
  BY DEF PoolTyped, StopExclusive, GroupLocs
<1>3. StartupInv'
  BY WorkerAt DEF PoolTyped, StartupInv, TypeOK
<1>4. JoinInv'
  BY DEF PoolTyped, StartupInv, JoinInv, StopExclusive, GroupLocs
<1>5. DestructorInv'
  BY DEF PoolTyped, DestructorInv, StartupInv, JoinInv
<1> QED BY <1>1, <1>2, <1>3, <1>4, <1>5

LEMMA OnceSkipKeeps ==
  ASSUME TypeOK, PoolInv, NEW t \in Threads, OnceSkip(t)
  PROVE  PoolInv'
<1> USE ThreadFacts DEF PoolInv, OnceSkip, StopEnds, TaskEnds, Goto, queueVars
<1>1. PoolTyped'
  <2>1. t \notin Workers
    BY DEF JoinInv
  <2> QED BY ZenonT(60), <2>1 DEF PoolTyped, Locs
<1>2. StopExclusive'
  BY DEF PoolTyped, StopExclusive, GroupLocs
<1>3. StartupInv'
  BY WorkerAt DEF PoolTyped, StartupInv, TypeOK
<1>4. JoinInv'
  BY DEF PoolTyped, StartupInv, JoinInv, StopExclusive, GroupLocs
<1>5. DestructorInv'
  BY DEF PoolTyped, DestructorInv, StartupInv, JoinInv
<1> QED BY <1>1, <1>2, <1>3, <1>4, <1>5

LEMMA GroupStopsQueueKeeps ==
  ASSUME TypeOK, PoolInv, NEW t \in Threads, GroupStopsQueue(t)
  PROVE  PoolInv'
<1> USE ThreadFacts DEF PoolInv, GroupStopsQueue, StopSetFlag, StopNotifyFull, StopNotifyEmpty, InCall, ReturnFrom, Goto
<1>1. PoolTyped'
  <2>1. CASE StopSetFlag(t) /\ UNCHANGED loc
    BY <2>1 DEF PoolTyped, Locs, TypeOK
  <2>2. CASE StopNotifyFull(t) /\ UNCHANGED loc
    BY <2>2 DEF PoolTyped, Locs, TypeOK
  <2>3. CASE StopNotifyEmpty(t) /\ Goto(t, "set_running")
    BY <2>3 DEF PoolTyped, Locs, TypeOK
  <2> QED BY <2>1, <2>2, <2>3
<1>2. StopExclusive'
  BY DEF PoolTyped, StopExclusive, GroupLocs
<1>3. StartupInv'
  BY WorkerAt DEF PoolTyped, StartupInv, TypeOK
<1>4. JoinInv'
  BY DEF PoolTyped, StartupInv, JoinInv, StopExclusive, GroupLocs
<1>5. DestructorInv'
  BY DEF PoolTyped, DestructorInv, StartupInv, JoinInv
<1> QED BY <1>1, <1>2, <1>3, <1>4, <1>5

LEMMA GroupClearsRunningKeeps ==
  ASSUME TypeOK, PoolInv, NEW t \in Threads, GroupClearsRunning(t)
  PROVE  PoolInv'
<1> USE ThreadFacts DEF PoolInv, GroupClearsRunning, Goto, queueVars
<1>1. PoolTyped'
  BY DEF PoolTyped, Locs, TypeOK
<1>2. StopExclusive'
  BY DEF PoolTyped, StopExclusive, GroupLocs
<1>3. StartupInv'
  BY WorkerAt DEF PoolTyped, StartupInv, TypeOK
<1>4. JoinInv'
  BY DEF PoolTyped, StartupInv, JoinInv, StopExclusive, GroupLocs
<1>5. DestructorInv'
  BY DEF PoolTyped, DestructorInv, StartupInv, JoinInv
<1> QED BY <1>1, <1>2, <1>3, <1>4, <1>5

LEMMA JoinKeeps ==
  ASSUME TypeOK, PoolInv, NEW t \in Threads, Join(t)
  PROVE  PoolInv'
<1> USE ThreadFacts DEF PoolInv, Join, AtJoin, queueVars
<1>1. PoolTyped'
  BY DEF PoolTyped, Locs, TypeOK
<1>2. StopExclusive'
  BY DEF PoolTyped, StopExclusive, GroupLocs
<1>3. StartupInv'
  BY WorkerAt DEF PoolTyped, StartupInv, TypeOK
<1>4. JoinInv'
  BY DEF PoolTyped, StartupInv, JoinInv, StopExclusive, GroupLocs
<1>5. DestructorInv'
  BY DEF PoolTyped, DestructorInv, StartupInv, JoinInv
<1> QED BY <1>1, <1>2, <1>3, <1>4, <1>5

LEMMA DestroyMembersKeeps ==
  ASSUME TypeOK, PoolInv, DestroyMembers, pool # "aborted"
  PROVE  PoolInv'
<1> USE ThreadFacts DEF PoolInv, DestroyMembers, Break, Goto, queueVars
<1>1. PoolTyped'
  BY DEF PoolTyped, Locs, TypeOK
<1>2. StopExclusive'
  BY DEF PoolTyped, StopExclusive, GroupLocs
<1>3. StartupInv'
  BY WorkerAt DEF PoolTyped, StartupInv, TypeOK
<1>4. JoinInv'
  BY DEF PoolTyped, StartupInv, JoinInv, StopExclusive, GroupLocs
<1>5. DestructorInv'
  BY DEF PoolTyped, DestructorInv, StartupInv, JoinInv
<1> QED BY <1>1, <1>2, <1>3, <1>4, <1>5

LEMMA PoolSpuriousKeeps ==
  ASSUME TypeOK, PoolInv, NEW t \in Threads, PoolSpurious(t)
  PROVE  PoolInv'
<1> USE ThreadFacts DEF PoolInv, PoolSpurious, SpuriousWakeup, poolVars
<1>1. PoolTyped'
  BY DEF PoolTyped, Locs, TypeOK
<1>2. StopExclusive'
  BY DEF PoolTyped, StopExclusive, GroupLocs
<1>3. StartupInv'
  BY WorkerAt DEF PoolTyped, StartupInv, TypeOK
<1>4. JoinInv'
  BY DEF PoolTyped, StartupInv, JoinInv, StopExclusive, GroupLocs
<1>5. DestructorInv'
  BY DEF PoolTyped, DestructorInv, StartupInv, JoinInv
<1> QED BY <1>1, <1>2, <1>3, <1>4, <1>5

LEMMA LoopTestKeeps ==
  ASSUME TypeOK, PoolInv, NEW t \in Workers, LoopTest(t)
  PROVE  PoolInv'
<1> USE ThreadFacts DEF PoolInv, Goto
<1>1. CASE m_running /\ CallTake(t, "take_list") /\ Goto(t, "take")
  <2> USE <1>1 DEF LoopTest, CallTake, EnterCall
  <2>1. PoolTyped'
    BY DEF PoolTyped, Locs, TypeOK
  <2>2. StopExclusive' /\ StartupInv'
    BY WorkerAt DEF PoolTyped, StopExclusive, GroupLocs, StartupInv
  <2>3. JoinInv'
    BY DEF PoolTyped, StartupInv, JoinInv
  <2>4. DestructorInv'
    BY DEF PoolTyped, DestructorInv
  <2> QED BY <2>1, <2>2, <2>3, <2>4
<1>2. CASE ~m_running /\ UNCHANGED queueVars /\ Goto(t, "exited")
  <2> USE <1>2 DEF LoopTest, queueVars
  <2>1. PoolTyped'
    BY DEF PoolTyped, Locs, TypeOK
  <2>2. StopExclusive' /\ StartupInv'
    BY WorkerAt DEF PoolTyped, StopExclusive, GroupLocs, StartupInv
  <2>3. JoinInv'
    BY DEF PoolTyped, StartupInv, JoinInv
  <2>4. DestructorInv'
    BY DEF PoolTyped, DestructorInv
  <2> QED BY <2>1, <2>2, <2>3, <2>4
<1> QED BY <1>1, <1>2 DEF LoopTest

LEMMA JoinThrowsKeeps ==
  ASSUME TypeOK, PoolInv, NEW t \in Threads, JoinThrows(t)
  PROVE  PoolInv'
<1> USE ThreadFacts DEF PoolInv
<1>1. /\ loc[t] = "join" /\ m_flag = "active" /\ pool # "starting"
      /\ m_flag' = "unset" /\ joinIdx' = 0 /\ StopEnds(t)
      /\ pool' = IF pool = "dying" /\ t = Owner THEN "aborted" ELSE pool
      /\ UNCHANGED <<pc, m_queue, m_threadgroup, list>>
      /\ \A u \in Threads : loc[u] \in GroupLocs => u = t
  BY DEF JoinThrows, AtJoin, StopExclusive, GroupLocs, StartupInv, queueVars
<1>2. CASE t \in Workers
  <2>1. /\ loc' = [loc EXCEPT ![t] = "for"]
        /\ cur' = [cur EXCEPT ![t] = NoItem]
        /\ fut' = [fut EXCEPT ![cur[t]] = "ready"]
        /\ pool' = pool
    BY <1>1, <1>2 DEF StopEnds, TaskEnds, Goto
  <2>2. PoolTyped'
    BY <1>1, <1>2, <2>1 DEF PoolTyped, Locs
  <2> QED
    BY <1>1, <1>2, <2>1, <2>2
       DEF PoolTyped, StopExclusive, GroupLocs, StartupInv, JoinInv, DestructorInv
<1>3. CASE t \notin Workers
  <2>1. /\ loc' = [loc EXCEPT ![t] = IF pool = "dying" THEN "members" ELSE "idle"]
        /\ UNCHANGED <<cur, fut>>
    BY <1>1, <1>3 DEF StopEnds, Goto
  <2>2. PoolTyped'
    BY <1>1, <1>3, <2>1 DEF PoolTyped, Locs
  <2>3. StopExclusive' /\ StartupInv' /\ JoinInv'
    BY <1>1, <1>3, <2>1
       DEF PoolTyped, StopExclusive, GroupLocs, StartupInv, JoinInv
  <2>4. DestructorInv'
    BY <1>1, <1>3, <2>1, ThreadPoolAssumption DEF PoolTyped, DestructorInv
  <2> QED BY <2>2, <2>3, <2>4
<1> QED BY <1>2, <1>3

LEMMA GroupReturnsKeeps ==
  ASSUME TypeOK, PoolInv, NEW t \in Threads, GroupReturns(t)
  PROVE  PoolInv' /\ \A w \in Workers : loc[w] = "exited"
<1> USE ThreadFacts DEF PoolInv
<1>1. /\ loc[t] = "join" /\ m_flag = "active" /\ pool # "starting"
      /\ joinIdx > Len(m_threadgroup)
      /\ m_threadgroup' = <<>> /\ m_flag' = "done" /\ joinIdx' = 0 /\ StopEnds(t)
      /\ UNCHANGED <<pc, m_queue, list, pool>>
      /\ \A u \in Threads : loc[u] \in GroupLocs => u = t
  BY DEF GroupReturns, StopExclusive, GroupLocs, StartupInv, queueVars
<1>2. \A w \in Workers : loc[w] = "exited"
  <2> SUFFICES ASSUME NEW w \in Workers PROVE loc[w] = "exited"
    OBVIOUS
  <2>1. m_threadgroup = WorkerList
    BY <1>1 DEF JoinInv
  <2>2. PICK i \in 1 .. Len(m_threadgroup) : w = m_threadgroup[i]
    BY <2>1, WorkerAt
  <2>3. i < joinIdx
    BY <1>1, <2>1, WorkerAt DEF PoolTyped
  <2> QED BY <1>1, <2>2, <2>3 DEF JoinInv
<1>3. t \notin Workers
  BY <1>1, <1>2
<1>4. /\ loc' = [loc EXCEPT ![t] = IF pool = "dying" THEN "members" ELSE "idle"]
      /\ UNCHANGED <<cur, fut>>
  BY <1>1, <1>3 DEF StopEnds, Goto
<1>5. PoolTyped'
  <2>1. m_threadgroup' \in Seq(Workers)
    BY <1>1
  <2> QED BY <1>1, <1>3, <1>4, <2>1 DEF PoolTyped, Locs
<1>6. StopExclusive' /\ StartupInv'
  BY <1>1, <1>3, <1>4 DEF PoolTyped, StopExclusive, GroupLocs, StartupInv
<1>7. JoinInv'
  BY <1>1, <1>2, <1>3, <1>4 DEF PoolTyped, GroupLocs, JoinInv
<1>8. DestructorInv'
  BY <1>1, <1>3, <1>4, ThreadPoolAssumption DEF PoolTyped, DestructorInv
<1> QED BY <1>2, <1>5, <1>6, <1>7, <1>8

\* The inductive invariant of the pool.
LEMMA PoolInvNext == TypeOK /\ PoolInv /\ [PoolNext]_vars => PoolInv'
<1> SUFFICES ASSUME TypeOK, PoolInv, [PoolNext]_vars PROVE PoolInv'
  OBVIOUS
<1> USE ThreadFacts
<1>1. CASE OwnerStep /\ pool # "aborted"
  BY <1>1, StartThreadKeeps, ConstructorReturnsKeeps, DestroyMembersKeeps
     DEF OwnerStep
<1>2. CASE Destructor
  BY <1>2, DestructorKeeps
<1>3. ASSUME NEW c \in Clients, ClientCall(c) PROVE PoolInv'
  BY <1>3, PoolStopKeeps, AddTaskKeeps DEF ClientCall
<1>4. ASSUME NEW w \in Workers, WorkerStep(w) PROVE PoolInv'
  BY <1>4, LoopTestKeeps, TakeBlockedKeeps, TakeReturnsKeeps, NextTaskKeeps,
     DropBatchKeeps, BatchDoneKeeps, BodyReturnsKeeps, PoolStopKeeps, AddTaskKeeps
     DEF WorkerStep
<1>5. ASSUME NEW t \in Threads, AddStep(t) PROVE PoolInv'
  BY <1>5, AddBlockedKeeps, AddAcceptedKeeps, AddRefusedKeeps DEF AddStep
<1>6. ASSUME NEW t \in Threads, StopStep(t) PROVE PoolInv'
  BY <1>6, OnceEnterKeeps, OnceSkipKeeps, GroupStopsQueueKeeps,
     GroupClearsRunningKeeps, JoinKeeps, JoinThrowsKeeps, GroupReturnsKeeps
     DEF StopStep
<1>7. ASSUME NEW t \in Threads, PoolSpurious(t) PROVE PoolInv'
  BY <1>7, PoolSpuriousKeeps
<1>8. CASE UNCHANGED vars
  BY <1>8 DEF vars, queueVars, poolVars, PoolInv, PoolTyped, StopExclusive,
              StartupInv, JoinInv, DestructorInv
<1> QED
  BY <1>1, <1>2, <1>3, <1>4, <1>5, <1>6, <1>7, <1>8 DEF PoolNext, Terminated

LEMMA PoolInvariant == PoolSpec => [](TypeOK /\ PoolInv)
<1>1. PoolSpec => []TypeOK
  BY QueueInPool, Typed, PTL
<1> QED BY <1>1, PoolInvInit, PoolInvNext, PTL DEF PoolSpec

\* At most one thread is inside stop_thread_group(), whatever clients and tasks
\* call stop() and however often a join throws out of it.
THEOREM OneStopper == PoolSpec => []StopExclusive
BY PoolInvariant, PTL DEF PoolInv

\* When stop() returns normally to a client, every worker has exited.
THEOREM StopJoinsWorkers == PoolSpec => StopJoins
<1>1. TypeOK /\ PoolInv /\ [PoolNext]_vars =>
        [\A c \in Clients : StopReturns(c) => \A w \in Workers : loc[w] = "exited"]_vars
  <2> SUFFICES ASSUME TypeOK, PoolInv, PoolNext, NEW c \in Clients, StopReturns(c)
               PROVE  \A w \in Workers : loc[w] = "exited"
    OBVIOUS
  <2> USE ThreadFacts
  <2>0. /\ loc[c] \in {"once", "join"}
        /\ loc'[c] \in {"idle", "members"}
        /\ ~(m_flag = "active" /\ m_flag' = "unset")
        /\ loc \in [Threads -> Locs]
        /\ loc[c] = "join" => m_flag = "active"
    BY DEF StopReturns, PoolInv, PoolTyped, StopExclusive, GroupLocs
  <2>1. ASSUME NEW t \in Threads, StopStep(t)
        PROVE  \A w \in Workers : loc[w] = "exited"
    <3>1. CASE GroupReturns(t)
      BY <3>1, GroupReturnsKeeps
    <3>2. CASE OnceSkip(t)
      BY <3>2 DEF OnceSkip, PoolInv, JoinInv
    <3>3. CASE JoinThrows(t)
      <4>1. m_flag = "active"
        BY <3>3 DEF JoinThrows, AtJoin, PoolInv, StopExclusive, GroupLocs
      <4> QED BY <2>0, <3>3, <4>1 DEF JoinThrows
    <3>4. CASE OnceEnter(t) \/ GroupClearsRunning(t) \/ Join(t)
      BY <2>0, <3>4 DEF OnceEnter, GroupClearsRunning, Join, Goto
    <3>5. CASE GroupStopsQueue(t)
      BY <2>0, <3>5 DEF GroupStopsQueue, Goto
    <3> QED BY <2>1, <3>1, <3>2, <3>3, <3>4, <3>5 DEF StopStep
  <2>2. CASE StartThread
    <3>1. WorkerList[Len(m_threadgroup) + 1] \in Workers
      BY <2>2, WorkerAt DEF StartThread, PoolInv, PoolTyped
    <3> QED BY <2>0, <2>2, <3>1 DEF StartThread, Goto
  <2>3. CASE ConstructorReturns \/ DestroyMembers \/ Destructor
    BY <2>0, <2>3 DEF ConstructorReturns, DestroyMembers, Destructor, Goto
  <2>4. ASSUME NEW t \in Threads, PoolStop(t) PROVE FALSE
    BY <2>0, <2>4 DEF PoolStop, Goto
  <2>5. ASSUME NEW t \in Threads, NEW x \in Items, AddTask(t, x) PROVE FALSE
    BY <2>0, <2>5 DEF AddTask, Goto
  <2>6. ASSUME NEW t \in Threads, AddStep(t) \/ PoolSpurious(t) PROVE FALSE
    BY <2>0, <2>6 DEF AddStep, AddBlocked, AddAccepted, AddRefused, PoolSpurious,
                      poolVars, Goto
  <2>7. ASSUME NEW w \in Workers, WorkerStep(w) PROVE FALSE
    <3>1. UNCHANGED loc[c]
      BY <2>4, <2>5, <2>7
         DEF WorkerStep, LoopTest, TakeBlocked, TakeReturns, NextTask, DropBatch,
             BatchDone, BodyReturns, TaskEnds, Goto, poolVars, PoolInv, PoolTyped
    <3> QED BY <2>0, <3>1
  <2>8. CASE Terminated
    BY <2>0, <2>8 DEF Terminated, vars, poolVars
  <2> QED
    BY <2>1, <2>2, <2>3, <2>4, <2>5, <2>6, <2>7, <2>8
       DEF PoolNext, OwnerStep, ClientCall
<1> QED BY <1>1, PoolInvariant, PTL DEF PoolSpec, StopJoins

\* Every variable of the pool keeps its type.
THEOREM PoolTypeCorrect == PoolSpec => []PoolTypeOK
<1> DEFINE Rest == /\ m_running \in BOOLEAN
                   /\ todo \in [Workers -> SUBSET Items]
                   /\ joined \subseteq Workers
                   /\ groupRuns \in 0 .. 2
<1>1. PoolInit => Rest
  BY DEF PoolInit
<1>2. PoolInv /\ Rest /\ [PoolNext]_vars => Rest'
  <2> SUFFICES ASSUME PoolInv, Rest, [PoolNext]_vars PROVE Rest'
    OBVIOUS
  <2> USE ThreadFacts
  <2>1. ASSUME NEW t \in Threads, Join(t) PROVE Rest'
    <3>1. m_threadgroup[joinIdx] \in Workers
      <4>1. joinIdx \in 1 .. Len(m_threadgroup)
        BY <2>1 DEF Join, AtJoin, PoolInv, JoinInv, PoolTyped
      <4> QED BY <4>1 DEF PoolInv, PoolTyped
    <3> QED BY <2>1, <3>1 DEF Join
  <2>2. ASSUME NEW w \in Workers, NextTask(w) PROVE Rest'
    <3>1. Spawns[Head(list[w])] \in SUBSET Items
      BY <2>2, ThreadPoolAssumption DEF NextTask, PoolInv, PoolTyped
    <3> QED BY <2>2, <3>1 DEF NextTask
  <2>3. ASSUME NEW t \in Threads, NEW x \in Items, AddTask(t, x) PROVE Rest'
    BY <2>3 DEF AddTask
  <2>4. ASSUME NEW t \in Threads, StopStep(t) PROVE Rest'
    <3>1. CASE OnceEnter(t)
      BY <3>1 DEF OnceEnter
    <3>2. CASE OnceSkip(t) \/ GroupStopsQueue(t) \/ GroupClearsRunning(t)
      BY <3>2 DEF OnceSkip, GroupStopsQueue, GroupClearsRunning
    <3>3. CASE JoinThrows(t) \/ GroupReturns(t)
      BY <3>3 DEF JoinThrows, GroupReturns
    <3> QED BY <2>1, <2>4, <3>1, <3>2, <3>3 DEF StopStep
  <2>5. ASSUME NEW w \in Workers, WorkerStep(w) PROVE Rest'
    BY <2>2, <2>3, <2>5
       DEF WorkerStep, LoopTest, TakeBlocked, TakeReturns, DropBatch, BatchDone,
           BodyReturns, PoolStop, poolVars
  <2>6. ASSUME NEW t \in Threads, AddStep(t) \/ PoolSpurious(t) PROVE Rest'
    BY <2>6 DEF AddStep, AddBlocked, AddAccepted, AddRefused, PoolSpurious, poolVars
  <2>7. ASSUME NEW c \in Clients, ClientCall(c) PROVE Rest'
    BY <2>3, <2>7 DEF ClientCall, PoolStop
  <2>8. CASE OwnerStep \/ Destructor
    BY <2>8 DEF OwnerStep, StartThread, ConstructorReturns, DestroyMembers, Destructor
  <2>9. CASE Terminated \/ UNCHANGED vars
    BY <2>9 DEF Terminated, vars, poolVars
  <2> QED
    BY <2>4, <2>5, <2>6, <2>7, <2>8, <2>9 DEF PoolNext
<1>3. PoolInv /\ Rest => PoolTypeOK
  BY DEF PoolInv, PoolTyped, PoolTypeOK
<1> QED BY <1>1, <1>2, <1>3, PoolInvariant, PTL DEF PoolSpec

-----------------------------------------------------------------------------
(* Every task is in one place *)

Batch(w) == Range(list[w])

Holding(x) ==
  \/ x \in Range(m_queue)
  \/ \E t \in Threads : arg[t] = x
  \/ \E w \in Workers : x \in Batch(w) \/ cur[w] = x

\* No task is in two places.
PlaceUnique ==
  /\ IsInjective(m_queue)
  /\ \A w \in Workers : IsInjective(list[w])
  /\ \A w \in Workers : Batch(w) \cap Range(m_queue) = {}
  /\ \A w, v \in Workers : w # v => Batch(w) \cap Batch(v) = {}
  /\ \A w \in Workers : cur[w] \notin Range(m_queue)
  /\ \A w, v \in Workers : cur[w] \notin Batch(v)
  /\ \A w, v \in Workers : w # v /\ cur[w] = cur[v] => cur[w] = NoItem
  /\ \A t \in Threads, w \in Workers : arg[t] \notin Batch(w)
  /\ \A t \in Threads, w \in Workers : arg[t] = cur[w] => arg[t] = NoItem

\* The places hold exactly the pending tasks.
PlacePending == \A x \in Items : fut[x] = "pending" <=> Holding(x)

PlaceInv == pool \notin {"destroyed", "aborted"} => PlaceUnique /\ PlacePending

LEMMA InjectiveTail ==
  ASSUME NEW s \in Seq(Items), IsInjective(s), s # <<>>
  PROVE  IsInjective(Tail(s)) /\ Range(Tail(s)) = Range(s) \ {Head(s)}
<1>1. /\ DOMAIN s = 1 .. Len(s) /\ Len(s) \in Nat \ {0}
      /\ DOMAIN Tail(s) = 1 .. Len(s) - 1 /\ Head(s) = s[1]
  OBVIOUS
<1>2. \A i \in 1 .. Len(s) - 1 : Tail(s)[i] = s[i + 1] /\ i + 1 \in 2 .. Len(s)
  BY <1>1
<1>3. IsInjective(Tail(s))
  BY <1>1, <1>2 DEF IsInjective
<1>4. Range(Tail(s)) \subseteq Range(s) \ {Head(s)}
  BY <1>1, <1>2 DEF Range, IsInjective
<1>5. ASSUME NEW i \in 2 .. Len(s) PROVE s[i] \in Range(Tail(s))
  <2>1. i - 1 \in DOMAIN Tail(s) /\ Tail(s)[i - 1] = s[i]
    BY <1>1, <1>2
  <2> QED BY <2>1 DEF Range
<1>6. Range(s) \ {Head(s)} \subseteq Range(Tail(s))
  BY <1>1, <1>5 DEF Range
<1> QED BY <1>3, <1>4, <1>6

LEMMA InjectiveAppend ==
  ASSUME NEW s \in Seq(Items), NEW x \in Items, IsInjective(s), x \notin Range(s)
  PROVE  IsInjective(Append(s, x))
BY DEF IsInjective, Range

LEMMA EmptyRange == Range(<<>>) = {} /\ IsInjective(<<>>)
BY DEF Range, IsInjective

LEMMA BatchesHoldTasks ==
  ASSUME PoolInv, NEW w \in Workers PROVE Batch(w) \subseteq Items
BY DEF PoolInv, PoolTyped, Batch, Range

LEMMA PlaceInvInit == PoolInit => PlaceInv
BY EmptyRange, SyncQueueAssumption DEF PoolInit, Init, PlaceInv, PlaceUnique, PlacePending, Batch, Holding

\* The steps that move no task.
LEMMA PlaceUnmoved ==
  ASSUME PlaceInv, UNCHANGED <<m_queue, arg, list, cur, fut>>,
         pool' \in {"destroyed", "aborted"} \/ pool \notin {"destroyed", "aborted"}
  PROVE  PlaceInv'
BY DEF PlaceInv, PlaceUnique, PlacePending, Batch, Holding

LEMMA PlaceAddTask ==
  ASSUME TypeOK, PoolInv, PlaceInv, NEW t \in Threads, NEW x \in Items, AddTask(t, x)
  PROVE  PlaceInv'
<1> USE ThreadFacts
<1>1. /\ arg' = [arg EXCEPT ![t] = x] /\ arg[t] = NoItem
      /\ fut' = [fut EXCEPT ![x] = "pending"] /\ fut[x] = "none"
      /\ UNCHANGED <<m_queue, list, cur, pool>>
  BY DEF AddTask, CallPut, EnterCall, TypeOK
<1>2. SUFFICES ASSUME pool \notin {"destroyed", "aborted"} PROVE PlaceInv'
  BY <1>1 DEF PlaceInv
<1>3. ~Holding(x) /\ x # NoItem
  BY <1>1, <1>2, SyncQueueAssumption DEF PlaceInv, PlacePending
<1>4. \A y \in Items : Holding(y)' <=> Holding(y) \/ y = x
  BY <1>1, SyncQueueAssumption DEF Holding, Batch, TypeOK
<1>5. PlaceUnique'
  BY <1>1, <1>2, <1>3 DEF PlaceInv, PlaceUnique, Holding, Batch, TypeOK
<1>6. PlacePending'
  BY <1>1, <1>2, <1>4 DEF PlaceInv, PlacePending, PoolInv, PoolTyped
<1> QED BY <1>5, <1>6 DEF PlaceInv

LEMMA PlaceAddAccepted ==
  ASSUME TypeOK, FreshArgs, PoolInv, PlaceInv, NEW t \in Threads, AddAccepted(t)
  PROVE  PlaceInv'
<1> USE ThreadFacts
<1>1. /\ m_queue' = Append(m_queue, arg[t]) /\ arg' = [arg EXCEPT ![t] = NoItem]
      /\ arg[t] \in Items /\ arg[t] # NoItem /\ arg[t] \notin Range(m_queue)
      /\ UNCHANGED <<fut, list, cur, pool>>
  BY DEF AddAccepted, PutAccepted, InCall, ReturnFrom, TypeOK, FreshArgs
<1>2. SUFFICES ASSUME pool \notin {"destroyed", "aborted"} PROVE PlaceInv'
  BY <1>1 DEF PlaceInv
<1>3. /\ Range(m_queue') = Range(m_queue) \cup {arg[t]}
      /\ IsInjective(m_queue')
  BY <1>1, <1>2, RangeAppend, InjectiveAppend DEF TypeOK, PlaceInv, PlaceUnique
<1>4. \A u \in Threads : arg[u] = arg[t] => u = t
  BY <1>1 DEF FreshArgs
<1>5. \A y \in Items : Holding(y)' <=> Holding(y)
  BY <1>1, <1>3, <1>4, SyncQueueAssumption DEF Holding, Batch, TypeOK
<1>6. PlaceUnique'
  <2>1. \A w \in Workers : NoItem \notin Batch(w)
    BY BatchesHoldTasks, SyncQueueAssumption
  <2>2. \A u \in Threads : arg'[u] = IF u = t THEN NoItem ELSE arg[u]
    BY <1>1 DEF TypeOK
  <2>3. \A u \in Threads, w \in Workers :
          arg'[u] \notin Batch(w)' /\ (arg'[u] = cur'[w] => arg'[u] = NoItem)
    BY <1>1, <1>2, <2>1, <2>2 DEF PlaceInv, PlaceUnique, Batch
  <2>4. \A w \in Workers : arg[t] \notin Batch(w) /\ arg[t] # cur[w]
    BY <1>1, <1>2 DEF PlaceInv, PlaceUnique
  <2> QED BY <1>1, <1>2, <1>3, <2>3, <2>4 DEF PlaceInv, PlaceUnique, Batch
<1>7. PlacePending'
  BY <1>1, <1>2, <1>5 DEF PlaceInv, PlacePending
<1> QED BY <1>6, <1>7 DEF PlaceInv

LEMMA PlaceAddRefused ==
  ASSUME TypeOK, FreshArgs, PoolInv, PlaceInv, NEW t \in Threads, AddRefused(t)
  PROVE  PlaceInv'
<1> USE ThreadFacts
<1>1. /\ arg' = [arg EXCEPT ![t] = NoItem]
      /\ arg[t] \in Items /\ arg[t] # NoItem /\ arg[t] \notin Range(m_queue)
      /\ \A u \in Threads : arg[u] = arg[t] => u = t
      /\ fut' = [x \in Items |-> IF x = arg[t] THEN "broken" ELSE fut[x]]
      /\ UNCHANGED <<m_queue, list, cur, pool>>
  BY DEF AddRefused, PutRefused, InCall, ReturnFrom, Break, TypeOK, FreshArgs
<1>2. SUFFICES ASSUME pool \notin {"destroyed", "aborted"} PROVE PlaceInv'
  BY <1>1 DEF PlaceInv
<1>3. \A y \in Items : Holding(y)' <=> Holding(y) /\ y # arg[t]
  BY <1>1, <1>2, SyncQueueAssumption DEF PlaceInv, PlaceUnique, Holding, Batch, TypeOK
<1>4. PlaceUnique'
  <2>1. \A w \in Workers : NoItem \notin Batch(w)
    BY BatchesHoldTasks, SyncQueueAssumption
  <2>2. \A u \in Threads : arg'[u] = IF u = t THEN NoItem ELSE arg[u]
    BY <1>1 DEF TypeOK
  <2>3. \A u \in Threads, w \in Workers :
          arg'[u] \notin Batch(w)' /\ (arg'[u] = cur'[w] => arg'[u] = NoItem)
    BY <1>1, <1>2, <2>1, <2>2 DEF PlaceInv, PlaceUnique, Batch
  <2> QED BY <1>1, <1>2, <2>3 DEF PlaceInv, PlaceUnique, Batch
<1>5. PlacePending'
  BY <1>1, <1>2, <1>3 DEF PlaceInv, PlacePending
<1> QED BY <1>4, <1>5 DEF PlaceInv

LEMMA PlaceTakeReturns ==
  ASSUME TypeOK, FreshArgs, PoolInv, PlaceInv, NEW w \in Workers, TakeReturns(w)
  PROVE  PlaceInv'
<1> USE ThreadFacts
<1>0. arg' = arg /\ UNCHANGED <<fut, cur, pool>> /\ loc[w] = "take" /\ cur[w] = NoItem
  BY DEF TakeReturns, TakeList, TakeRefused, ReturnFrom, TypeOK, PoolInv, PoolTyped
<1>1. CASE TakeRefused(w) /\ list' = list
  BY <1>0, <1>1, PlaceUnmoved DEF TakeRefused, PlaceInv
<1>2. CASE TakeList(w) /\ list' = [list EXCEPT ![w] = m_queue]
  <2>1. SUFFICES ASSUME pool \notin {"destroyed", "aborted"} PROVE PlaceInv'
    BY <1>0 DEF PlaceInv
  <2>2. Range(m_queue') = {} /\ IsInjective(m_queue')
    BY <1>2, EmptyRange DEF TakeList
  <2>3. Batch(w) = {} /\ list[w] = <<>>
    BY <1>0, EmptyRange DEF Batch, PoolInv, JoinInv
  <2>4. \A v \in Workers : Batch(v)' = IF v = w THEN Range(m_queue) ELSE Batch(v)
    BY <1>2 DEF Batch, PoolInv, PoolTyped
  <2>5. \A t \in Threads : arg[t] \notin Range(m_queue)
    <3>1. NoItem \notin Range(m_queue)
      BY SyncQueueAssumption DEF TypeOK, Range
    <3> QED BY <3>1 DEF FreshArgs
  <2>6. \A y \in Items : Holding(y)' <=> Holding(y)
    BY <1>0, <2>2, <2>3, <2>4 DEF Holding
  <2>7. \A v \in Workers : IsInjective(list'[v])
    BY <1>2, <2>1 DEF PlaceInv, PlaceUnique, PoolInv, PoolTyped
  <2>8. PlaceUnique'
    BY <1>0, <2>1, <2>2, <2>3, <2>4, <2>5, <2>7 DEF PlaceInv, PlaceUnique
  <2>9. PlacePending'
    BY <1>0, <2>1, <2>6 DEF PlaceInv, PlacePending
  <2> QED BY <2>8, <2>9 DEF PlaceInv
<1> QED BY <1>1, <1>2 DEF TakeReturns

LEMMA PlaceNextTask ==
  ASSUME TypeOK, PoolInv, PlaceInv, NEW w \in Workers, NextTask(w)
  PROVE  PlaceInv'
<1> USE ThreadFacts
<1> DEFINE x == Head(list[w])
<1>1. /\ list[w] # <<>> /\ loc[w] = "for" /\ cur[w] = NoItem
      /\ cur' = [cur EXCEPT ![w] = x] /\ list' = [list EXCEPT ![w] = Tail(@)]
      /\ UNCHANGED <<m_queue, arg, fut, pool>>
      /\ list[w] \in Seq(Items)
  BY DEF NextTask, queueVars, PoolInv, PoolTyped
<1>2. SUFFICES ASSUME pool \notin {"destroyed", "aborted"} PROVE PlaceInv'
  BY <1>1 DEF PlaceInv
<1>3. x \in Items /\ x \in Batch(w) /\ x # NoItem
  BY <1>1, RangePop, SyncQueueAssumption DEF Batch
<1>4. IsInjective(Tail(list[w])) /\ Range(Tail(list[w])) = Batch(w) \ {x}
  BY <1>1, <1>2, InjectiveTail DEF PlaceInv, PlaceUnique, Batch
<1>5. \A v \in Workers : /\ list'[v] = IF v = w THEN Tail(list[w]) ELSE list[v]
                         /\ cur'[v] = IF v = w THEN x ELSE cur[v]
                         /\ Batch(v)' = IF v = w THEN Batch(w) \ {x} ELSE Batch(v)
  BY <1>1, <1>4 DEF Batch, PoolInv, PoolTyped
<1> HIDE DEF x
<1>6. \A y \in Items : Holding(y)' <=> Holding(y)
  <2>1. UNCHANGED <<m_queue, arg>>
    BY <1>1
  <2> QED BY <1>1, <1>3, <1>5, <2>1, SyncQueueAssumption DEF Holding
<1>7. PlaceUnique'
  BY <1>1, <1>2, <1>3, <1>4, <1>5 DEF PlaceInv, PlaceUnique
<1>8. PlacePending'
  BY <1>1, <1>2, <1>6 DEF PlaceInv, PlacePending
<1> QED BY <1>7, <1>8 DEF PlaceInv

LEMMA PlaceDropBatch ==
  ASSUME TypeOK, PoolInv, PlaceInv, NEW w \in Workers, DropBatch(w)
  PROVE  PlaceInv'
<1> USE ThreadFacts
<1>1. /\ list' = [list EXCEPT ![w] = <<>>]
      /\ fut' = [x \in Items |-> IF x \in Batch(w) THEN "broken" ELSE fut[x]]
      /\ UNCHANGED <<m_queue, arg, cur, pool>>
  BY DEF DropBatch, Break, queueVars, Batch
<1>2. SUFFICES ASSUME pool \notin {"destroyed", "aborted"} PROVE PlaceInv'
  BY <1>1 DEF PlaceInv
<1>3. \A v \in Workers : /\ list'[v] = IF v = w THEN <<>> ELSE list[v]
                         /\ Batch(v)' = IF v = w THEN {} ELSE Batch(v)
  BY <1>1, EmptyRange DEF Batch, PoolInv, PoolTyped
<1>4. \A y \in Items : Holding(y)' <=> Holding(y) /\ y \notin Batch(w)
  BY <1>1, <1>2, <1>3 DEF Holding, PlaceInv, PlaceUnique
<1>5. PlaceUnique'
  BY <1>1, <1>2, <1>3, EmptyRange DEF PlaceInv, PlaceUnique
<1>6. PlacePending'
  BY <1>1, <1>2, <1>4 DEF PlaceInv, PlacePending
<1> QED BY <1>5, <1>6 DEF PlaceInv

LEMMA PlaceTaskEnds ==
  ASSUME TypeOK, PoolInv, PlaceInv, NEW w \in Workers, TaskEnds(w), cur[w] # NoItem,
         UNCHANGED <<m_queue, arg, list, pool>>
  PROVE  PlaceInv'
<1> USE ThreadFacts
<1>1. /\ cur[w] \in Items
      /\ \A v \in Workers : cur'[v] = IF v = w THEN NoItem ELSE cur[v]
      /\ \A x \in Items : fut'[x] = IF x = cur[w] THEN "ready" ELSE fut[x]
      /\ \A v \in Workers : Batch(v)' = Batch(v)
  BY DEF TaskEnds, PoolInv, PoolTyped, Batch
<1>2. SUFFICES ASSUME pool \notin {"destroyed", "aborted"} PROVE PlaceInv'
  BY DEF PlaceInv
<1>3. \A y \in Items : Holding(y)' <=> Holding(y) /\ y # cur[w]
  BY <1>1, <1>2, SyncQueueAssumption DEF Holding, PlaceInv, PlaceUnique
<1>4. NoItem \notin Range(m_queue) /\ \A v \in Workers : NoItem \notin Batch(v)
  <2>1. Range(m_queue) \subseteq Items
    BY DEF TypeOK, Range
  <2> QED BY <2>1, BatchesHoldTasks, SyncQueueAssumption
<1>5. PlaceUnique'
  BY <1>1, <1>2, <1>4 DEF PlaceInv, PlaceUnique
<1>6. PlacePending'
  BY <1>1, <1>2, <1>3 DEF PlaceInv, PlacePending
<1> QED BY <1>5, <1>6 DEF PlaceInv

LEMMA PlaceStopEnds ==
  ASSUME TypeOK, PoolInv, PlaceInv, NEW t \in Threads, StopEnds(t),
         loc[t] \in {"once", "join"}, UNCHANGED <<m_queue, arg, list>>,
         pool' = pool \/ pool' = "aborted"
  PROVE  PlaceInv'
<1>1. CASE pool' = "aborted"
  BY <1>1 DEF PlaceInv
<1>2. CASE pool' = pool /\ t \in Workers
  <2>1. TaskEnds(t) /\ cur[t] # NoItem
    BY <1>2 DEF StopEnds, PoolInv, PoolTyped
  <2> QED BY <1>2, <2>1, PlaceTaskEnds
<1>3. CASE pool' = pool /\ t \notin Workers
  BY <1>3, PlaceUnmoved DEF StopEnds, PlaceInv
<1> QED BY <1>1, <1>2, <1>3

LEMMA PlaceInvNext ==
  TypeOK /\ FreshArgs /\ PoolInv /\ PlaceInv /\ [PoolNext]_vars => PlaceInv'
<1> SUFFICES ASSUME TypeOK, FreshArgs, PoolInv, PlaceInv, [PoolNext]_vars
             PROVE  PlaceInv'
  OBVIOUS
<1> USE ThreadFacts
<1>1. CASE StartThread \/ ConstructorReturns \/ Destructor
  <2>1. /\ UNCHANGED <<m_queue, arg, list, cur, fut>>
        /\ pool \notin {"destroyed", "aborted"}
    BY <1>1 DEF StartThread, ConstructorReturns, Destructor, ClientReady, queueVars
  <2> QED BY <2>1, PlaceUnmoved
<1>2. CASE DestroyMembers
  BY <1>2 DEF DestroyMembers, PlaceInv
<1>3. ASSUME NEW t \in Threads, AddStep(t) PROVE PlaceInv'
  <2>1. CASE AddBlocked(t)
    BY <2>1, PlaceUnmoved DEF AddBlocked, PutBlock, poolVars, PlaceInv
  <2> QED BY <1>3, <2>1, PlaceAddAccepted, PlaceAddRefused DEF AddStep
<1>4. ASSUME NEW t \in Threads, PoolStop(t) PROVE PlaceInv'
  BY <1>4, PlaceUnmoved DEF PoolStop, queueVars, PlaceInv
<1>5. ASSUME NEW w \in Workers, WorkerStep(w) PROVE PlaceInv'
  <2>1. CASE LoopTest(w)
    <3>1. pc[w] = "idle" => arg[w] = NoItem
      BY DEF TypeOK
    <3>2. UNCHANGED <<m_queue, arg, list, cur, fut, pool>>
      BY <2>1, <3>1 DEF LoopTest, CallTake, EnterCall, queueVars, TypeOK
    <3> QED BY <3>2, PlaceUnmoved DEF PlaceInv
  <2>2. CASE TakeBlocked(w)
    BY <2>2, PlaceUnmoved DEF TakeBlocked, TakeBlock, poolVars, PlaceInv
  <2>3. CASE BatchDone(w)
    BY <2>3, PlaceUnmoved DEF BatchDone, queueVars, PlaceInv
  <2>4. CASE BodyReturns(w)
    <3>1. cur[w] # NoItem
      BY <2>4 DEF BodyReturns, BodyDone, PoolInv, PoolTyped
    <3> QED BY <2>4, <3>1, PlaceTaskEnds DEF BodyReturns, queueVars
  <2> QED
    BY <1>4, <1>5, <2>1, <2>2, <2>3, <2>4, PlaceTakeReturns, PlaceNextTask,
       PlaceDropBatch, PlaceAddTask
       DEF WorkerStep
<1>6. ASSUME NEW c \in Clients, ClientCall(c) PROVE PlaceInv'
  BY <1>4, <1>6, PlaceAddTask DEF ClientCall
<1>7. ASSUME NEW t \in Threads, StopStep(t) PROVE PlaceInv'
  <2>1. CASE OnceEnter(t)
    <3>1. UNCHANGED <<m_queue, arg, list, cur, fut, pool>>
      BY <2>1 DEF OnceEnter, CallStop, EnterCall, TypeOK
    <3> QED BY <3>1, PlaceUnmoved DEF PlaceInv
  <2>2. CASE GroupStopsQueue(t)
    <3>1. pc[t] \in {"stop", "stop_notFull", "stop_notEmpty"} /\ arg[t] = NoItem
      BY <2>2 DEF GroupStopsQueue, StopSetFlag, StopNotifyFull, StopNotifyEmpty,
                  InCall, TypeOK
    <3>2. UNCHANGED <<m_queue, arg, list, cur, fut, pool>>
      BY <2>2, <3>1 DEF GroupStopsQueue, StopSetFlag, StopNotifyFull,
                        StopNotifyEmpty, ReturnFrom, TypeOK
    <3> QED BY <3>2, PlaceUnmoved DEF PlaceInv
  <2>3. CASE GroupClearsRunning(t) \/ Join(t)
    BY <2>3, PlaceUnmoved DEF GroupClearsRunning, Join, queueVars, PlaceInv
  <2>4. CASE OnceSkip(t) \/ GroupReturns(t)
    BY <2>4, PlaceStopEnds DEF OnceSkip, GroupReturns, queueVars
  <2>5. CASE JoinThrows(t)
    BY <2>5, PlaceStopEnds DEF JoinThrows, AtJoin, queueVars
  <2> QED BY <1>7, <2>1, <2>2, <2>3, <2>4, <2>5 DEF StopStep
<1>8. ASSUME NEW t \in Threads, PoolSpurious(t) PROVE PlaceInv'
  BY <1>8, PlaceUnmoved DEF PoolSpurious, SpuriousWakeup, poolVars, PlaceInv
<1>9. CASE Terminated \/ UNCHANGED vars
  BY <1>9, PlaceUnmoved DEF Terminated, vars, queueVars, poolVars, PlaceInv
<1> QED
  BY <1>1, <1>2, <1>3, <1>4, <1>5, <1>6, <1>7, <1>8, <1>9 DEF PoolNext, OwnerStep

LEMMA PlaceInvariant == PoolSpec => []PlaceInv
<1>1. PoolSpec => []FreshArgs
  BY QueueInPool, ArgumentsFresh, PTL
<1> QED BY <1>1, PlaceInvInit, PlaceInvNext, PoolInvariant, PTL DEF PoolSpec

\* No hand-over loses or duplicates a task.
THEOREM TasksPlaced == PoolSpec => []TaskPlacement
<1>1. TypeOK /\ FreshArgs /\ PoolInv /\ PlaceInv => TaskPlacement
  <2> SUFFICES ASSUME TypeOK, FreshArgs, PoolInv, PlaceUnique, PlacePending,
                      NEW x \in Items
               PROVE  IF fut[x] = "pending"
                      THEN \E p \in Places(x) : Places(x) = {p} ELSE Places(x) = {}
    BY DEF PlaceInv, TaskPlacement
  <2>0. x # NoItem
    BY SyncQueueAssumption
  <2>1. \A p : p \in Places(x) <=>
               \/ \E t \in Threads : arg[t] = x /\ p = <<"put", t>>
               \/ \E i \in DOMAIN m_queue : m_queue[i] = x /\ p = <<"queue", i>>
               \/ \E w \in Workers : \E i \in DOMAIN list[w] :
                    list[w][i] = x /\ p = <<"batch", w, i>>
               \/ \E w \in Workers : cur[w] = x /\ p = <<"run", w>>
    <3>1. \A p : p \in PutPlaces(x) <=> \E t \in Threads : arg[t] = x /\ p = <<"put", t>>
      BY DEF PutPlaces
    <3>2. \A p : p \in QueuePlaces(x) <=>
                  \E i \in DOMAIN m_queue : m_queue[i] = x /\ p = <<"queue", i>>
      BY DEF QueuePlaces
    <3>3. \A p : p \in UNION {BatchPlaces(w, x) : w \in Workers} <=>
                  \E w \in Workers : \E i \in DOMAIN list[w] :
                    list[w][i] = x /\ p = <<"batch", w, i>>
      BY DEF BatchPlaces
    <3>4. \A p : p \in RunPlaces(x) <=> \E w \in Workers : cur[w] = x /\ p = <<"run", w>>
      BY DEF RunPlaces
    <3> QED BY <3>1, <3>2, <3>3, <3>4 DEF Places
  <2>2. ASSUME NEW p \in Places(x), NEW q \in Places(x) PROVE p = q
    <3>1. CASE \E t \in Threads : arg[t] = x /\ p = <<"put", t>>
      BY <2>0, <2>1, <3>1 DEF FreshArgs, PlaceUnique, Batch, Range
    <3>2. CASE \E i \in DOMAIN m_queue : m_queue[i] = x /\ p = <<"queue", i>>
      BY <2>0, <2>1, <3>2 DEF FreshArgs, PlaceUnique, Batch, Range, IsInjective
    <3>3. CASE \E w \in Workers : \E i \in DOMAIN list[w] :
                 list[w][i] = x /\ p = <<"batch", w, i>>
      BY <2>0, <2>1, <3>3 DEF FreshArgs, PlaceUnique, Batch, Range, IsInjective
    <3>4. CASE \E w \in Workers : cur[w] = x /\ p = <<"run", w>>
      BY <2>0, <2>1, <3>4 DEF FreshArgs, PlaceUnique, Batch, Range
    <3> QED BY <2>1, <3>1, <3>2, <3>3, <3>4
  <2>3. Holding(x) <=> Places(x) # {}
    <3>1. ASSUME Holding(x) PROVE Places(x) # {}
      <4>1. CASE x \in Range(m_queue)
        <5>1. PICK i \in DOMAIN m_queue : m_queue[i] = x
          BY <4>1 DEF Range
        <5> QED BY <2>1, <5>1
      <4>2. CASE \E t \in Threads : arg[t] = x
        BY <2>1, <4>2
      <4>3. ASSUME NEW w \in Workers, x \in Batch(w) PROVE Places(x) # {}
        <5>1. PICK i \in DOMAIN list[w] : list[w][i] = x
          BY <4>3 DEF Batch, Range
        <5>2. <<"batch", w, i>> \in Places(x)
          BY <2>1, <5>1
        <5> QED BY <5>2
      <4>4. CASE \E w \in Workers : cur[w] = x
        BY <2>1, <4>4
      <4> QED BY <3>1, <4>1, <4>2, <4>3, <4>4 DEF Holding
    <3>2. ASSUME NEW p \in Places(x) PROVE Holding(x)
      BY <2>1 DEF Holding, Batch, Range
    <3> QED BY <3>1, <3>2
  <2> QED BY <2>2, <2>3 DEF PlacePending
<1> QED BY <1>1, PlaceInvariant, PoolInvariant, QueueInPool, ArgumentsFresh, PTL

-----------------------------------------------------------------------------
(* What is left when the pool is destroyed *)

\* Nothing but a self-loop happens to a destroyed pool.
LEMMA DestroyedIsFinal ==
  ASSUME PoolInv, pool = "destroyed", [PoolNext]_vars
  PROVE  UNCHANGED <<fut, cur, m_needStop, m_flag>>
<1> USE ThreadFacts
<1>1. \A t \in Threads : loc[t] \in {"idle", "exited"}
  BY ThreadPoolAssumption DEF PoolInv, DestructorInv, JoinInv
<1>2. ASSUME NEW t \in Threads,
             \/ AddStep(t) \/ StopStep(t) \/ PoolStop(t)
             \/ \E y \in Items : AddTask(t, y)
      PROVE  FALSE
  BY <1>1, <1>2, ThreadPoolAssumption
     DEF AddStep, AddBlocked, AddAccepted, AddRefused, StopStep, OnceEnter, OnceSkip,
         GroupStopsQueue, GroupClearsRunning, Join, JoinThrows, AtJoin, GroupReturns,
         PoolStop, AddTask, ClientReady, BodyDone
<1>3. ASSUME NEW w \in Workers, WorkerStep(w) PROVE FALSE
  BY <1>1, <1>2, <1>3
     DEF WorkerStep, LoopTest, TakeBlocked, TakeReturns, NextTask, DropBatch,
         BatchDone, BodyReturns, BodyDone
<1>4. ~(OwnerStep \/ Destructor)
  BY <1>1 DEF OwnerStep, StartThread, ConstructorReturns, DestroyMembers, Destructor,
              ClientReady
<1> QED
  BY <1>2, <1>3, <1>4
     DEF PoolNext, ClientCall, PoolSpurious, SpuriousWakeup, Terminated, vars,
         queueVars, poolVars

\* Once the destructor is done no worker runs, no thread is in the queue and no
\* future is pending.
THEOREM DestructorLeavesNothing == PoolSpec => []AfterDestroy
<1> DEFINE Settled == pool = "destroyed" => \A x \in Items : fut[x] # "pending"
<1>1. PoolInit => Settled
  BY DEF PoolInit
<1>2. TypeOK /\ PoolInv /\ PlaceInv /\ Settled /\ [PoolNext]_vars => Settled'
  <2> SUFFICES ASSUME TypeOK, PoolInv, PlaceInv, Settled, [PoolNext]_vars,
                      pool' = "destroyed", NEW x \in Items
               PROVE  fut'[x] # "pending"
    OBVIOUS
  <2> USE ThreadFacts
  <2>1. CASE DestroyMembers
    <3>1. /\ fut' = [y \in Items |-> IF y \in Range(m_queue) THEN "broken" ELSE fut[y]]
          /\ loc[Owner] = "members"
      BY <2>1 DEF DestroyMembers, Break
    <3> SUFFICES ASSUME pool \notin {"destroyed", "aborted"} PROVE fut'[x] # "pending"
      BY <3>1 DEF PoolNext, PoolInv, DestructorInv, vars, poolVars
    <3>2. pool = "dying" /\ m_flag = "done"
      BY <3>1 DEF PoolInv, PoolTyped, DestructorInv
    <3>3. \A w \in Workers : loc[w] = "exited" /\ Batch(w) = {} /\ cur[w] = NoItem
      BY <3>2, EmptyRange DEF PoolInv, PoolTyped, JoinInv, Batch
    <3>4. \A t \in Threads : arg[t] = NoItem
      <4>1. \A t \in Threads : loc[t] # "add"
        BY <3>1, <3>2, <3>3, ThreadPoolAssumption DEF PoolInv, DestructorInv
      <4> QED BY <4>1 DEF PoolInv, PoolTyped, TypeOK
    <3>5. Holding(x) => x \in Range(m_queue)
      BY <3>3, <3>4, SyncQueueAssumption DEF Holding
    <3> QED BY <3>1, <3>5 DEF PlaceInv, PlacePending
  <2>2. CASE pool = "destroyed"
    BY <2>2, DestroyedIsFinal
  <2>3. CASE pool # "destroyed" /\ ~DestroyMembers
    <3>1. pool' # "destroyed"
      BY <2>3
         DEF PoolNext, OwnerStep, StartThread, ConstructorReturns, Destructor,
             ClientCall, WorkerStep, LoopTest, TakeBlocked, TakeReturns, NextTask,
             DropBatch, BatchDone, BodyReturns, PoolStop, AddTask, AddStep, AddBlocked,
             AddAccepted, AddRefused, StopStep, OnceEnter, OnceSkip, GroupStopsQueue,
             GroupClearsRunning, Join, JoinThrows, GroupReturns, PoolSpurious,
             Terminated, vars, poolVars
    <3> QED BY <3>1
  <2> QED BY <2>1, <2>2, <2>3
<1>3. TypeOK /\ PoolInv /\ Settled => AfterDestroy
  BY ZenonT(60), ThreadFacts, ThreadPoolAssumption
     DEF PoolInv, PoolTyped, TypeOK, Calls, DestructorInv, JoinInv, AfterDestroy
<1> QED BY <1>1, <1>2, <1>3, PoolInvariant, PlaceInvariant, PTL DEF PoolSpec

-----------------------------------------------------------------------------
(* The pool implements the abstract executor *)

\* Everything that follows the flag of the queue follows a stop() of the queue.
StopInv ==
  \/ ~m_running
  \/ m_flag = "done"
  \/ \E t \in Threads : loc[t] \in {"set_running", "join"}
  \/ \E t \in Threads : pc[t] \in {"stop_notFull", "stop_notEmpty"}
  => m_needStop

LEMMA StopInvNext == TypeOK /\ PoolInv /\ StopInv /\ [PoolNext]_vars => StopInv'
<1> SUFFICES ASSUME TypeOK, PoolInv, StopInv, [PoolNext]_vars PROVE StopInv'
  OBVIOUS
<1> USE ThreadFacts
<1>1. m_needStop => m_needStop'
  BY PoolStepIsQueueStep
     DEF Next, Call, CallPut, CallTake, CallStop, EnterCall, Step, PutBlock,
         PutRefused, PutAccepted, TakeBlock, TakeRefused, TakeList, TakeOne,
         StopSetFlag, StopNotifyFull, StopNotifyEmpty, SpuriousWakeup, queueVars
<1>2. SUFFICES ASSUME ~m_needStop PROVE StopInv'
  BY <1>1 DEF StopInv
<1>3. /\ m_running /\ m_flag # "done"
      /\ \A t \in Threads : /\ loc[t] \notin {"set_running", "join"}
                            /\ pc[t] \notin {"stop_notFull", "stop_notEmpty"}
  BY <1>2 DEF StopInv
<1>4. ASSUME NEW t \in Threads, StopStep(t) PROVE StopInv'
  <2>1. CASE OnceEnter(t)
    BY <1>3, <2>1 DEF OnceEnter, CallStop, EnterCall, Goto, StopInv, TypeOK, PoolInv, PoolTyped
  <2>2. CASE GroupStopsQueue(t)
    <3>1. StopSetFlag(t)
      BY <1>3, <2>2 DEF GroupStopsQueue, StopNotifyFull, StopNotifyEmpty, InCall
    <3> QED BY <3>1 DEF StopSetFlag, StopInv
  <2> QED
    BY <1>3, <1>4, <2>1, <2>2
       DEF StopStep, OnceSkip, GroupClearsRunning, Join, JoinThrows, GroupReturns,
           AtJoin
<1>5. ASSUME m_running' = m_running, m_flag' = m_flag,
             \A t \in Threads : /\ loc'[t] \notin {"set_running", "join"}
                                /\ pc'[t] \notin {"stop_notFull", "stop_notEmpty"}
      PROVE  StopInv'
  BY <1>3, <1>5 DEF StopInv
<1>6. ASSUME NEW t \in Threads, NEW x \in Items, AddTask(t, x) PROVE StopInv'
  BY <1>3, <1>5, <1>6
     DEF AddTask, CallPut, EnterCall, Goto, TypeOK, PoolInv, PoolTyped
<1>7. ASSUME NEW t \in Threads, AddStep(t) PROVE StopInv'
  <2>1. CASE AddBlocked(t)
    BY <1>3, <1>5, <2>1 DEF AddBlocked, PutBlock, poolVars
  <2>2. CASE AddAccepted(t)
    BY <1>3, <1>5, <2>2
       DEF AddAccepted, PutAccepted, ReturnFrom, Goto, ResumeLoc, TypeOK, PoolInv,
           PoolTyped
  <2>3. CASE AddRefused(t)
    BY <1>2, <2>3 DEF AddRefused, PutRefused
  <2> QED BY <1>7, <2>1, <2>2, <2>3 DEF AddStep
<1>8. ASSUME NEW t \in Threads, PoolStop(t) \/ PoolSpurious(t) PROVE StopInv'
  <2>1. loc \in [Threads -> Locs]
    BY DEF PoolInv, PoolTyped
  <2>2. CASE PoolStop(t)
    <3>1. loc' = [loc EXCEPT ![t] = "once"]
      BY <2>2 DEF PoolStop, Goto
    <3>2. UNCHANGED <<m_running, m_flag, pc>>
      BY <2>2 DEF PoolStop, queueVars
    <3> QED BY <1>3, <1>5, <2>1, <3>1, <3>2
  <2>3. CASE PoolSpurious(t)
    BY <1>3, <1>5, <2>3 DEF PoolSpurious, SpuriousWakeup, poolVars
  <2> QED BY <1>8, <2>2, <2>3
<1>9. ASSUME NEW w \in Workers, WorkerStep(w) PROVE StopInv'
  <2>1. CASE LoopTest(w)
    <3>1. CallTake(w, "take_list") /\ Goto(w, "take") /\ UNCHANGED <<m_running, m_flag>>
      BY <1>3, <2>1 DEF LoopTest
    <3> QED
      BY <1>3, <1>5, <3>1 DEF CallTake, EnterCall, Goto, TypeOK, PoolInv, PoolTyped
  <2>3. CASE TakeBlocked(w)
    BY <1>3, <1>5, <2>3 DEF TakeBlocked, TakeBlock, poolVars
  <2>4. CASE TakeReturns(w)
    <3>1. TakeList(w) /\ Goto(w, "for") /\ UNCHANGED <<m_running, m_flag>>
      BY <1>2, <2>4 DEF TakeReturns, TakeRefused
    <3> QED
      BY <1>3, <1>5, <3>1 DEF TakeList, ReturnFrom, Goto, TypeOK, PoolInv, PoolTyped
  <2>2. CASE NextTask(w) \/ DropBatch(w) \/ BatchDone(w) \/ BodyReturns(w)
    <3>1. UNCHANGED <<m_running, m_flag, pc>>
      BY <2>2 DEF NextTask, DropBatch, BatchDone, BodyReturns, TaskEnds, queueVars
    <3>2. \E l \in {"for", "body", "loop", "exited"} : Goto(w, l)
      BY <2>2 DEF NextTask, DropBatch, BatchDone, BodyReturns, TaskEnds
    <3>3. loc \in [Threads -> Locs]
      BY DEF PoolInv, PoolTyped
    <3> QED BY <1>3, <1>5, <3>1, <3>2, <3>3 DEF Goto
  <2> QED BY <1>6, <1>8, <1>9, <2>1, <2>2, <2>3, <2>4 DEF WorkerStep
<1>10. ASSUME NEW c \in Clients, ClientCall(c) PROVE StopInv'
  BY <1>6, <1>8, <1>10 DEF ClientCall
<1>11. CASE OwnerStep \/ Destructor
  <2>1. CASE StartThread
    <3>1. WorkerList[Len(m_threadgroup) + 1] \in Workers
      BY <2>1, WorkerAt DEF StartThread, PoolInv, PoolTyped
    <3> QED
      BY <1>3, <1>5, <2>1, <3>1 DEF StartThread, Goto, queueVars, PoolInv, PoolTyped
  <2>2. CASE ConstructorReturns \/ DestroyMembers \/ Destructor
    BY ZenonT(60), <1>3, <1>5, <2>2
       DEF ConstructorReturns, DestroyMembers, Destructor, Goto, queueVars, PoolInv,
           PoolTyped
  <2> QED BY <1>11, <2>1, <2>2 DEF OwnerStep
<1>12. CASE Terminated \/ UNCHANGED vars
  BY <1>3, <1>5, <1>12 DEF Terminated, vars, queueVars, poolVars
<1> QED
  BY <1>4, <1>7, <1>8, <1>9, <1>10, <1>11, <1>12 DEF PoolNext

LEMMA StopInvariant == PoolSpec => []StopInv
<1>1. PoolInit => StopInv
  BY ThreadFacts DEF PoolInit, Init, StopInv
<1> QED BY <1>1, StopInvNext, PoolInvariant, PTL DEF PoolSpec

\* A step that moves neither a future, nor a worker to or from a task, nor the
\* two flags is invisible to the clients.
LEMMA ExecutorStutter ==
  ASSUME UNCHANGED <<fut, cur, m_needStop>>, (m_flag = "done") <=> (m_flag' = "done")
  PROVE  UNCHANGED Executor!executorVars
<1>1. \A x \in Items : TaskStatus(x)' = TaskStatus(x)
  BY DEF TaskStatus
<1>2. (m_flag = "done") = (m_flag' = "done")
  OBVIOUS
<1> QED BY <1>1, <1>2 DEF Executor!executorVars

\* A step that moves the tasks in S from one status to another, and no other.
LEMMA ExecutorMove ==
  ASSUME NEW S \in SUBSET Items, NEW from, NEW to,
         \A x \in S : TaskStatus(x) = from /\ TaskStatus(x)' = to,
         \A x \in Items \ S : TaskStatus(x)' = TaskStatus(x)
  PROVE  Executor!Move(S, from, to)
BY DEF Executor!Move

LEMMA ExecutorSubmit ==
  ASSUME TypeOK, PoolInv, PlaceInv, pool \notin {"destroyed", "aborted"},
         NEW t \in Threads, NEW x \in Items, AddTask(t, x)
  PROVE  Executor!Next
<1>1. /\ fut[x] = "none" /\ fut' = [fut EXCEPT ![x] = "pending"]
      /\ UNCHANGED <<cur, m_flag, m_needStop>>
  BY DEF AddTask, CallPut, EnterCall
<1>2. \A w \in Workers : cur[w] # x
  BY <1>1 DEF PlaceInv, PlacePending, Holding
<1>3. /\ \A y \in {x} : TaskStatus(y) = "new" /\ TaskStatus(y)' = "waiting"
      /\ \A y \in Items \ {x} : TaskStatus(y)' = TaskStatus(y)
  BY <1>1, <1>2 DEF TaskStatus, PoolInv, PoolTyped
<1>4. Executor!Move({x}, "new", "waiting")
  BY <1>3, ExecutorMove
<1> QED BY <1>1, <1>4 DEF Executor!Next, Executor!Submit

LEMMA ExecutorStart ==
  ASSUME TypeOK, PoolInv, PlaceInv, pool \notin {"destroyed", "aborted"},
         NEW w \in Workers, NextTask(w)
  PROVE  Executor!Next
<1>0. PICK x \in Items : x = Head(list[w])
  BY DEF NextTask, PoolInv, PoolTyped
<1>1. /\ list[w] # <<>> /\ loc[w] = "for" /\ cur[w] = NoItem
      /\ cur' = [cur EXCEPT ![w] = x]
      /\ UNCHANGED <<fut, m_flag, m_needStop>>
      /\ list[w] \in Seq(Items) /\ m_flag # "done"
  BY <1>0 DEF NextTask, queueVars, PoolInv, PoolTyped, JoinInv
<1>2. x \in Items /\ x \in Batch(w)
  BY <1>0, <1>1, RangePop DEF Batch
<1>3. /\ fut[x] = "pending" /\ \A v \in Workers : cur[v] # x
      /\ \A v \in Workers : cur'[v] = IF v = w THEN x ELSE cur[v]
  BY <1>1, <1>2 DEF PlaceInv, PlacePending, PlaceUnique, Holding, PoolInv, PoolTyped
<1>4. /\ \A y \in {x} : TaskStatus(y) = "waiting" /\ TaskStatus(y)' = "running"
      /\ \A y \in Items \ {x} : TaskStatus(y)' = TaskStatus(y)
  BY <1>1, <1>2, <1>3, SyncQueueAssumption DEF TaskStatus, PoolInv, PoolTyped
<1>5. Executor!Move({x}, "waiting", "running")
  BY <1>2, <1>4, ExecutorMove
<1> QED BY <1>1, <1>2, <1>5 DEF Executor!Next, Executor!Start

LEMMA ExecutorFinish ==
  ASSUME TypeOK, PoolInv, PlaceInv, pool \notin {"destroyed", "aborted"},
         NEW w \in Workers, TaskEnds(w), cur[w] # NoItem,
         UNCHANGED m_needStop, (m_flag = "done") <=> (m_flag' = "done")
  PROVE  Executor!Next
<1>0. PICK x \in Items : x = cur[w]
  BY DEF PoolInv, PoolTyped
<1>1. /\ x \in Items /\ x # NoItem /\ fut[x] = "pending"
      /\ \A v \in Workers : cur[v] = x => v = w
      /\ \A v \in Workers : cur'[v] = IF v = w THEN NoItem ELSE cur[v]
      /\ fut' = [fut EXCEPT ![x] = "ready"]
  BY <1>0 DEF TaskEnds, PlaceInv, PlacePending, PlaceUnique, Holding, PoolInv, PoolTyped
<1>2. /\ \A y \in {x} : TaskStatus(y) = "running" /\ TaskStatus(y)' = "done"
      /\ \A y \in Items \ {x} : TaskStatus(y)' = TaskStatus(y)
  <2>1. /\ cur[w] = x /\ fut'[x] = "ready"
        /\ \A y \in Items \ {x} : fut'[y] = fut[y]
    BY <1>0, <1>1 DEF PoolInv, PoolTyped
  <2>2. ASSUME NEW y \in Items \ {x}
        PROVE  (\E v \in Workers : cur'[v] = y) <=> (\E v \in Workers : cur[v] = y)
    BY <1>1, <2>1, SyncQueueAssumption
  <2>3. TaskStatus(x) = "running" /\ TaskStatus(x)' = "done"
    BY <1>1, <2>1 DEF TaskStatus
  <2>4. \A y \in Items \ {x} : TaskStatus(y)' = TaskStatus(y)
    BY <2>1, <2>2 DEF TaskStatus
  <2> QED BY <2>3, <2>4
<1>3. Executor!Move({x}, "running", "done")
  BY <1>1, <1>2, ExecutorMove
<1>4. UNCHANGED <<m_needStop, m_flag = "done">>
  OBVIOUS
<1> QED BY <1>1, <1>3, <1>4 DEF Executor!Next, Executor!Finish

LEMMA ExecutorDrop ==
  ASSUME TypeOK, PoolInv, PlaceInv, pool \notin {"destroyed", "aborted"},
         NEW S \in SUBSET Items, Break(S), m_needStop,
         \A x \in S : Holding(x) /\ \A w \in Workers : cur[w] # x,
         UNCHANGED <<cur, m_needStop, m_flag>>
  PROVE  Executor!Next
<1>1. /\ \A y \in S : TaskStatus(y) = "waiting" /\ TaskStatus(y)' = "dropped"
      /\ \A y \in Items \ S : TaskStatus(y)' = TaskStatus(y)
  BY DEF Break, TaskStatus, PlaceInv, PlacePending
<1>2. Executor!Move(S, "waiting", "dropped")
  BY <1>1, ExecutorMove
<1>3. Executor!Drop(S)
  BY <1>2 DEF Executor!Drop
<1> QED BY <1>3 DEF Executor!Next

LEMMA ExecutorStopEnds ==
  ASSUME TypeOK, PoolInv, PlaceInv, StopInv, NEW t \in Threads, StopStep(t),
         pool \notin {"destroyed", "aborted"}
  PROVE  Executor!Next \/ UNCHANGED Executor!executorVars
<1> USE ThreadFacts
<1>1. CASE OnceEnter(t)
  BY <1>1, ExecutorStutter DEF OnceEnter, CallStop, EnterCall
<1>2. CASE OnceSkip(t)
  <2>1. t \notin Workers
    BY <1>2 DEF OnceSkip, PoolInv, JoinInv
  <2> QED BY <1>2, <2>1, ExecutorStutter DEF OnceSkip, StopEnds, queueVars
<1>3. CASE GroupStopsQueue(t)
  <2>1. CASE StopSetFlag(t)
    <3>1. UNCHANGED <<fut, cur, m_flag>> /\ m_needStop' = TRUE
      BY <1>3, <2>1 DEF GroupStopsQueue, StopSetFlag
    <3>2. \A x \in Items : TaskStatus(x)' = TaskStatus(x)
      BY <3>1 DEF TaskStatus
    <3> QED BY <3>1, <3>2 DEF Executor!Next, Executor!Close
  <2>2. CASE StopNotifyFull(t) \/ StopNotifyEmpty(t)
    BY <1>3, <2>2, ExecutorStutter DEF GroupStopsQueue, StopNotifyFull, StopNotifyEmpty
  <2> QED BY <1>3, <2>1, <2>2 DEF GroupStopsQueue
<1>4. CASE GroupClearsRunning(t) \/ Join(t)
  BY <1>4, ExecutorStutter DEF GroupClearsRunning, Join, queueVars
<1>5. CASE JoinThrows(t)
  <2>1. /\ m_flag = "active" /\ m_flag' = "unset" /\ StopEnds(t) /\ loc[t] = "join"
        /\ UNCHANGED m_needStop
    BY <1>5 DEF JoinThrows, AtJoin, queueVars, PoolInv, StopExclusive, GroupLocs
  <2>2. CASE t \in Workers
    <3>1. TaskEnds(t) /\ cur[t] # NoItem
      BY <2>1, <2>2 DEF StopEnds, PoolInv, PoolTyped
    <3> QED BY <2>1, <2>2, <3>1, ExecutorFinish
  <2>3. CASE t \notin Workers
    BY <2>1, <2>3, ExecutorStutter DEF StopEnds
  <2> QED BY <2>2, <2>3
<1>6. CASE GroupReturns(t)
  <2>1. \A w \in Workers : loc[w] = "exited" /\ cur[w] = NoItem
    BY <1>6, GroupReturnsKeeps DEF PoolInv, PoolTyped
  <2>2. /\ UNCHANGED <<fut, cur, m_needStop>> /\ m_needStop /\ m_flag' = "done"
    <3>1. loc[t] = "join" /\ t \notin Workers
      BY <1>6, <2>1 DEF GroupReturns
    <3> QED BY <1>6, <3>1 DEF GroupReturns, StopEnds, StopInv, queueVars
  <2>3. \A x \in Items : TaskStatus(x)' = TaskStatus(x) /\ TaskStatus(x) # "running"
    BY <2>1, <2>2, SyncQueueAssumption DEF TaskStatus, PoolInv, PoolTyped
  <2> QED BY <2>2, <2>3 DEF Executor!Next, Executor!Quiesce
<1> QED BY <1>1, <1>2, <1>3, <1>4, <1>5, <1>6 DEF StopStep

\* Seen from the clients the pool is an executor.
THEOREM RefinesExecutor == PoolSpec => ImplementsExecutor
<1>1. PoolInit => Executor!Init
  BY DEF PoolInit, Init, Executor!Init, TaskStatus
<1>2. /\ TypeOK /\ FreshArgs /\ PoolInv /\ PlaceInv /\ StopInv /\ AfterDestroy
      /\ [PoolNext]_vars
      => [Executor!Next]_Executor!executorVars
  <2> SUFFICES ASSUME TypeOK, FreshArgs, PoolInv, PlaceInv, StopInv, AfterDestroy,
                      [PoolNext]_vars
               PROVE  Executor!Next \/ UNCHANGED Executor!executorVars
    OBVIOUS
  <2> USE ThreadFacts
  <2>1. CASE UNCHANGED vars \/ Terminated
    BY <2>1, ExecutorStutter DEF Terminated, vars, queueVars, poolVars
  <2>2. CASE pool = "destroyed" /\ PoolNext
    BY <2>2, DestroyedIsFinal, ExecutorStutter
  <2> SUFFICES ASSUME pool \notin {"destroyed", "aborted"}, PoolNext
               PROVE  Executor!Next \/ UNCHANGED Executor!executorVars
    BY <2>1, <2>2 DEF PoolNext
  <2>3. CASE StartThread \/ ConstructorReturns \/ Destructor
    BY <2>3, ExecutorStutter DEF StartThread, ConstructorReturns, Destructor, queueVars
  <2>4. CASE DestroyMembers
    <3>1. /\ Break(Range(m_queue)) /\ UNCHANGED <<cur, m_needStop, m_flag>>
          /\ m_flag = "done" /\ Range(m_queue) \subseteq Items
      BY <2>4 DEF DestroyMembers, queueVars, PoolInv, PoolTyped, DestructorInv, TypeOK, Range
    <3>2. \A x \in Range(m_queue) : Holding(x) /\ \A w \in Workers : cur[w] # x
      BY DEF Holding, PlaceInv, PlaceUnique
    <3> QED BY <3>1, <3>2, ExecutorDrop DEF StopInv
  <2>5. ASSUME NEW t \in Threads, PoolStop(t) \/ PoolSpurious(t)
        PROVE  UNCHANGED Executor!executorVars
    BY <2>5, ExecutorStutter
       DEF PoolStop, PoolSpurious, SpuriousWakeup, queueVars, poolVars
  <2>6. ASSUME NEW t \in Threads, AddStep(t)
        PROVE  Executor!Next \/ UNCHANGED Executor!executorVars
    <3>1. CASE AddBlocked(t) \/ AddAccepted(t)
      BY <3>1, ExecutorStutter
         DEF AddBlocked, PutBlock, AddAccepted, PutAccepted, poolVars
    <3>2. CASE AddRefused(t)
      <4>1. /\ Break({arg[t]}) /\ UNCHANGED <<cur, m_needStop, m_flag>> /\ m_needStop
            /\ arg[t] \in Items
        BY <3>2 DEF AddRefused, PutRefused, InCall, TypeOK
      <4>2. Holding(arg[t]) /\ \A w \in Workers : cur[w] # arg[t]
        BY <4>1, SyncQueueAssumption DEF Holding, PlaceInv, PlaceUnique
      <4> QED BY <4>1, <4>2, ExecutorDrop
    <3> QED BY <2>6, <3>1, <3>2 DEF AddStep
  <2>7. ASSUME NEW w \in Workers, WorkerStep(w)
        PROVE  Executor!Next \/ UNCHANGED Executor!executorVars
    <3>1. CASE LoopTest(w) \/ TakeBlocked(w) \/ TakeReturns(w) \/ BatchDone(w)
      BY <3>1, ExecutorStutter
         DEF LoopTest, CallTake, EnterCall, TakeBlocked, TakeBlock, TakeReturns,
             TakeList, TakeRefused, BatchDone, queueVars, poolVars
    <3>2. CASE DropBatch(w)
      <4>1. /\ Break(Batch(w)) /\ UNCHANGED <<cur, m_needStop, m_flag>> /\ m_needStop
        BY <3>2 DEF DropBatch, queueVars, Batch, StopInv
      <4>2. \A x \in Batch(w) : Holding(x) /\ \A v \in Workers : cur[v] # x
        BY DEF Holding, PlaceInv, PlaceUnique
      <4> QED BY <4>1, <4>2, ExecutorDrop, BatchesHoldTasks
    <3>3. CASE BodyReturns(w)
      <4>1. TaskEnds(w) /\ cur[w] # NoItem /\ UNCHANGED <<m_needStop, m_flag>>
        BY <3>3 DEF BodyReturns, BodyDone, queueVars, PoolInv, PoolTyped
      <4> QED BY <4>1, ExecutorFinish
    <3> QED
      BY <2>5, <2>7, <3>1, <3>2, <3>3, ExecutorStart, ExecutorSubmit DEF WorkerStep
  <2>8. ASSUME NEW c \in Clients, ClientCall(c)
        PROVE  Executor!Next \/ UNCHANGED Executor!executorVars
    BY <2>5, <2>8, ExecutorSubmit DEF ClientCall
  <2> QED
    BY <2>1, <2>3, <2>4, <2>5, <2>6, <2>7, <2>8, ExecutorStopEnds
       DEF PoolNext, OwnerStep
<1> QED
  BY <1>1, <1>2, PoolInvariant, PlaceInvariant, StopInvariant,
     DestructorLeavesNothing, QueueInPool, ArgumentsFresh, PTL
     DEF PoolSpec, ImplementsExecutor, Executor!Spec
=============================================================================
