-------------------------- MODULE SyncQueueProofs --------------------------
(***************************************************************************)
(* Theorems about SyncQueue, for every set of threads, set of elements,     *)
(* capacity and choice of take() overloads.                                *)
(***************************************************************************)
EXTENDS SyncQueue, FiniteSetTheorems, TLAPS

-----------------------------------------------------------------------------
(* Type correctness *)

\* A notify_one only ever shrinks the set of sleepers.
LEMMA NotifyOneShrinks ==
  ASSUME NEW S, NEW R \in NotifyOne(S) PROVE R \subseteq S
BY DEF NotifyOne

\* Entering a call keeps the types: it moves an idle, hence awake, thread.
LEMMA EnterCallTyped ==
  ASSUME TypeOK, NEW t \in Threads,
         NEW call \in Calls \ {"idle"}, NEW x \in Items \cup {NoItem},
         call = "put" <=> x # NoItem,
         call \in {"take_list", "take_one"} => call \in TakeForms,
         EnterCall(t, call, x)
  PROVE  TypeOK'
BY DEF TypeOK, Calls, EnterCall, InTake

\* What is common to the steps that end a call.
LEMMA ReturnTyped ==
  ASSUME TypeOK, NEW t \in Threads, ReturnFrom(t), Awake(t),
         m_notEmpty' \subseteq m_notEmpty, m_notFull' \subseteq m_notFull,
         m_queue' \in Seq(Items), taken' \in Seq(Items),
         m_needStop' \in BOOLEAN
  PROVE  TypeOK'
BY DEF TypeOK, Calls, ReturnFrom, InTake, Awake

\* Every variable keeps its type and a thread sleeps only inside a call that
\* waits: put() on m_notFull, take() on m_notEmpty.
THEOREM Typed == Spec => []TypeOK
<1>1. Init => TypeOK
  <2> SUFFICES ASSUME Init PROVE TypeOK
    OBVIOUS
  <2>1. m_queue \in Seq(Items) /\ taken \in Seq(Items)
    BY DEF Init
  <2>2. pc \in [Threads -> Calls] /\ arg \in [Threads -> Items \cup {NoItem}]
    BY DEF Init, Calls
  <2>3. \A t \in Threads : arg[t] # NoItem <=> pc[t] = "put"
    BY DEF Init
  <2> QED BY <2>1, <2>2, <2>3 DEF Init, TypeOK, InTake
<1>2. TypeOK /\ [Next]_queueVars => TypeOK'
  <2> SUFFICES ASSUME TypeOK, [Next]_queueVars PROVE TypeOK'
    OBVIOUS
  <2>1. ASSUME NEW t \in Threads, Call(t) PROVE TypeOK'
    <3>1. CASE \E x \in Items : CallPut(t, x)
      BY <3>1, EnterCallTyped, SyncQueueAssumption DEF CallPut, Calls
    <3>2. CASE \E form \in TakeForms : CallTake(t, form)
      BY <3>2, EnterCallTyped, SyncQueueAssumption DEF CallTake, Calls
    <3>3. CASE CallStop(t)
      BY <3>3, EnterCallTyped DEF CallStop, Calls
    <3> QED BY <2>1, <3>1, <3>2, <3>3 DEF Call
  <2>2. ASSUME NEW t \in Threads, PutBlock(t) PROVE TypeOK'
    BY <2>2 DEF TypeOK, PutBlock, InCall, InTake
  <2>3. ASSUME NEW t \in Threads, PutRefused(t) PROVE TypeOK'
    BY <2>3, ReturnTyped DEF TypeOK, PutRefused, InCall
  <2>4. ASSUME NEW t \in Threads, PutAccepted(t) PROVE TypeOK'
    <3>1. arg[t] \in Items
      BY <2>4 DEF TypeOK, PutAccepted, InCall
    <3>2. m_queue' \in Seq(Items)
      BY <2>4, <3>1 DEF TypeOK, PutAccepted
    <3>3. m_notEmpty' \subseteq m_notEmpty
      BY <2>4, NotifyOneShrinks DEF PutAccepted
    <3> QED BY <2>4, <3>2, <3>3, ReturnTyped DEF TypeOK, PutAccepted, InCall
  <2>5. ASSUME NEW t \in Threads, TakeBlock(t) PROVE TypeOK'
    BY <2>5 DEF TypeOK, TakeBlock, InTake
  <2>6. ASSUME NEW t \in Threads, TakeRefused(t) PROVE TypeOK'
    BY <2>6, ReturnTyped DEF TypeOK, TakeRefused
  <2>7. ASSUME NEW t \in Threads, TakeList(t) PROVE TypeOK'
    <3>1. m_queue' \in Seq(Items) /\ taken' \in Seq(Items)
      BY <2>7 DEF TypeOK, TakeList
    <3>2. m_notFull' \subseteq m_notFull
      BY <2>7, NotifyOneShrinks DEF TakeList
    <3> QED BY <2>7, <3>1, <3>2, ReturnTyped DEF TypeOK, TakeList, InCall
  <2>8. ASSUME NEW t \in Threads, TakeOne(t) PROVE TypeOK'
    <3>1. m_queue' \in Seq(Items) /\ taken' \in Seq(Items)
      BY <2>8 DEF TypeOK, TakeOne, notEmpty
    <3>2. m_notFull' \subseteq m_notFull
      BY <2>8, NotifyOneShrinks DEF TakeOne
    <3> QED BY <2>8, <3>1, <3>2, ReturnTyped DEF TypeOK, TakeOne, InCall
  <2>9. ASSUME NEW t \in Threads, StopSetFlag(t) PROVE TypeOK'
    BY <2>9 DEF TypeOK, StopSetFlag, InCall, Calls, InTake
  <2>10. ASSUME NEW t \in Threads, StopNotifyFull(t) PROVE TypeOK'
    BY <2>10 DEF TypeOK, StopNotifyFull, NotifyAll, InCall, Calls, InTake
  <2>11. ASSUME NEW t \in Threads, StopNotifyEmpty(t) PROVE TypeOK'
    BY <2>11, ReturnTyped DEF TypeOK, StopNotifyEmpty, NotifyAll, InCall
  <2>12. ASSUME NEW t \in Threads, SpuriousWakeup(t) PROVE TypeOK'
    BY <2>12 DEF TypeOK, SpuriousWakeup, InTake
  <2>13. CASE UNCHANGED queueVars
    BY <2>13 DEF TypeOK, queueVars, InTake
  <2> QED
    BY <2>1, <2>2, <2>3, <2>4, <2>5, <2>6, <2>7, <2>8, <2>9, <2>10, <2>11,
       <2>12, <2>13 DEF Next, Step
<1> QED BY <1>1, <1>2, PTL DEF Spec

-----------------------------------------------------------------------------
(* Capacity *)

\* The buffer never grows past its capacity.
THEOREM Bounded == Spec => []Capacity
<1>1. Init => Capacity
  BY SyncQueueAssumption DEF Init, Capacity
<1>2. TypeOK /\ Capacity /\ [Next]_queueVars => Capacity'
  <2> SUFFICES ASSUME TypeOK, Capacity, [Next]_queueVars PROVE Capacity'
    OBVIOUS
  <2> USE SyncQueueAssumption DEF Capacity, TypeOK
  <2>1. ASSUME NEW t \in Threads, PutAccepted(t) PROVE Capacity'
    <3>1. arg[t] \in Items
      BY <2>1 DEF PutAccepted, InCall
    <3>2. Len(m_queue') = Len(m_queue) + 1
      BY <2>1, <3>1 DEF PutAccepted
    <3> QED BY <2>1, <3>2 DEF PutAccepted, notFull
  <2>2. ASSUME NEW t \in Threads, TakeList(t) PROVE Capacity'
    BY <2>2 DEF TakeList
  <2>3. ASSUME NEW t \in Threads, TakeOne(t) PROVE Capacity'
    <3>1. Len(m_queue') = Len(m_queue) - 1
      BY <2>3 DEF TakeOne, notEmpty
    <3> QED BY <3>1
  <2>4. ASSUME m_queue' = m_queue PROVE Capacity'
    BY <2>4
  <2>5. ASSUME NEW t \in Threads, Call(t) PROVE m_queue' = m_queue
    BY <2>5 DEF Call, CallPut, CallTake, CallStop, EnterCall
  <2>6. ASSUME NEW t \in Threads,
               \/ PutBlock(t) \/ PutRefused(t) \/ TakeBlock(t) \/ TakeRefused(t)
               \/ StopSetFlag(t) \/ StopNotifyFull(t) \/ StopNotifyEmpty(t)
               \/ SpuriousWakeup(t)
        PROVE m_queue' = m_queue
    BY <2>6 DEF PutBlock, PutRefused, TakeBlock, TakeRefused, StopSetFlag,
                StopNotifyFull, StopNotifyEmpty, SpuriousWakeup
  <2>7. CASE UNCHANGED queueVars
    BY <2>7 DEF queueVars
  <2> QED BY <2>1, <2>2, <2>3, <2>4, <2>5, <2>6, <2>7 DEF Next, Step
<1> QED BY <1>1, <1>2, Typed, PTL DEF Spec

-----------------------------------------------------------------------------
(* stop() misses no sleeper *)

\* A thread enters a wait only while the flag is clear, so a sleeper seen
\* after the flag is set went to sleep before, and the notify_all of the stop()
\* that set the flag is still to come.
THEOREM StopMissesNoSleeper == Spec => []StopWakeup
<1>1. Init => StopWakeup
  BY DEF Init, StopWakeup
<1>2. TypeOK /\ StopWakeup /\ [Next]_queueVars => StopWakeup'
  <2> SUFFICES ASSUME TypeOK, StopWakeup, [Next]_queueVars PROVE StopWakeup'
    OBVIOUS
  <2> USE DEF TypeOK, StopWakeup
  <2>1. ASSUME NEW t \in Threads, Call(t) PROVE StopWakeup'
    BY <2>1 DEF Call, CallPut, CallTake, CallStop, EnterCall
  <2>2. ASSUME NEW t \in Threads, PutBlock(t) \/ TakeBlock(t) PROVE StopWakeup'
    BY <2>2 DEF PutBlock, TakeBlock
  <2>3. ASSUME NEW t \in Threads,
               \/ PutRefused(t) \/ PutAccepted(t)
               \/ TakeRefused(t) \/ TakeList(t) \/ TakeOne(t)
        PROVE StopWakeup'
    BY <2>3, NotifyOneShrinks
       DEF PutRefused, PutAccepted, TakeRefused, TakeList, TakeOne, ReturnFrom,
           InCall, InTake
  <2>4. ASSUME NEW t \in Threads, StopSetFlag(t) PROVE StopWakeup'
    <3>1. pc'[t] = "stop_notFull"
      BY <2>4 DEF StopSetFlag
    <3> QED BY <3>1
  <2>5. ASSUME NEW t \in Threads, StopNotifyFull(t) PROVE StopWakeup'
    <3>1. pc'[t] = "stop_notEmpty" /\ m_notFull' = {}
      BY <2>5 DEF StopNotifyFull, NotifyAll
    <3> QED BY <3>1
  <2>6. ASSUME NEW t \in Threads, StopNotifyEmpty(t) PROVE StopWakeup'
    BY <2>6 DEF StopNotifyEmpty, NotifyAll, ReturnFrom, InCall
  <2>7. ASSUME NEW t \in Threads, SpuriousWakeup(t) PROVE StopWakeup'
    BY <2>7 DEF SpuriousWakeup
  <2>8. CASE UNCHANGED queueVars
    BY <2>8 DEF queueVars
  <2> QED
    BY <2>1, <2>2, <2>3, <2>4, <2>5, <2>6, <2>7, <2>8 DEF Next, Step
<1> QED BY <1>1, <1>2, Typed, PTL DEF Spec

-----------------------------------------------------------------------------
(* No lost wakeup of a consumer *)

LEMMA ThreadSets ==
  ASSUME NEW P \in SUBSET Threads
  PROVE  IsFiniteSet(P) /\ Cardinality(P) \in Nat
BY SyncQueueAssumption, FS_Subset, FS_CardinalityType

\* Adding a thread that was not there adds one, removing one that was there
\* removes one, and a larger set has no smaller cardinality.
LEMMA ThreadSetsGrow ==
  ASSUME NEW P \in SUBSET Threads, NEW Q \in SUBSET Threads, P \subseteq Q
  PROVE  Cardinality(P) <= Cardinality(Q)
BY ThreadSets, FS_Subset

LEMMA ThreadSetsAdd ==
  ASSUME NEW P \in SUBSET Threads, NEW u \in Threads \ P
  PROVE  Cardinality(P \cup {u}) = Cardinality(P) + 1
BY ThreadSets, FS_AddElement

LEMMA ThreadSetsRemove ==
  ASSUME NEW P \in SUBSET Threads, NEW u \in P
  PROVE  Cardinality(P \ {u}) = Cardinality(P) - 1
BY ThreadSets, FS_RemoveElement

\* A step that leaves the buffer alone, puts no consumer to sleep and takes
\* none out of its call preserves the invariant.
LEMMA ConsumerMonotone ==
  ASSUME TypeOK, ConsumerWakeup, m_queue' = m_queue, m_needStop' = m_needStop,
         m_notEmpty' \subseteq m_notEmpty, AwakeTakers \subseteq AwakeTakers'
  PROVE  ConsumerWakeup'
<1>1. Cardinality(AwakeTakers) <= Cardinality(AwakeTakers')
  BY ThreadSetsGrow DEF AwakeTakers
<1>2. /\ Cardinality(AwakeTakers) \in Nat
      /\ Cardinality(AwakeTakers') \in Nat
      /\ Len(m_queue) \in Nat
  BY ThreadSets DEF AwakeTakers, TypeOK
<1> QED BY <1>1, <1>2 DEF ConsumerWakeup

\* While a consumer sleeps in take(), every buffered element has an awake
\* consumer of its own.
THEOREM NoLostConsumerWakeup == Spec => []ConsumerWakeup
<1>1. Init => ConsumerWakeup
  BY DEF Init, ConsumerWakeup
<1>2. TypeOK /\ ConsumerWakeup /\ [Next]_queueVars => ConsumerWakeup'
  <2> SUFFICES ASSUME TypeOK, ConsumerWakeup, [Next]_queueVars
               PROVE  ConsumerWakeup'
    OBVIOUS
  <2>0. /\ Cardinality(AwakeTakers) \in Nat
        /\ Cardinality(AwakeTakers') \in Nat
        /\ Len(m_queue) \in Nat
    BY ThreadSets DEF AwakeTakers, TypeOK
  <2>1. ASSUME NEW t \in Threads, Call(t) PROVE ConsumerWakeup'
    <3>1. AwakeTakers \subseteq AwakeTakers'
      BY <2>1 DEF TypeOK, Call, CallPut, CallTake, CallStop, EnterCall,
                  AwakeTakers, InTake, Awake
    <3> QED
      BY <2>1, <3>1, ConsumerMonotone
         DEF Call, CallPut, CallTake, CallStop, EnterCall
  <2>2. ASSUME NEW t \in Threads, PutBlock(t) PROVE ConsumerWakeup'
    <3>1. AwakeTakers \subseteq AwakeTakers'
      BY <2>2 DEF TypeOK, PutBlock, AwakeTakers, InCall, InTake, Awake
    <3> QED BY <2>2, <3>1, ConsumerMonotone DEF PutBlock
  <2>3. ASSUME NEW t \in Threads, PutAccepted(t) PROVE ConsumerWakeup'
    <3>1. CASE m_notEmpty = {}
      BY <2>3, <3>1, NotifyOneShrinks DEF PutAccepted, ConsumerWakeup
    <3>2. CASE m_notEmpty # {}
      <4>1. PICK u \in m_notEmpty : m_notEmpty' = m_notEmpty \ {u}
        BY <2>3, <3>2 DEF PutAccepted, NotifyOne
      <4>2. u \in Threads \ AwakeTakers
        BY <4>1 DEF TypeOK, AwakeTakers, Awake
      <4>3. AwakeTakers \cup {u} \subseteq AwakeTakers'
        BY <2>3, <4>1 DEF TypeOK, PutAccepted, ReturnFrom, InCall,
                          AwakeTakers, InTake, Awake
      <4>4. Cardinality(AwakeTakers) + 1 <= Cardinality(AwakeTakers')
        <5>1. AwakeTakers \cup {u} \in SUBSET Threads
          BY <4>2 DEF AwakeTakers
        <5>2. AwakeTakers' \in SUBSET Threads
          BY DEF AwakeTakers
        <5>3. AwakeTakers \in SUBSET Threads
          BY DEF AwakeTakers
        <5> QED
          BY <4>2, <4>3, <5>1, <5>2, <5>3, ThreadSetsGrow, ThreadSetsAdd
      <4>5. Len(m_queue') = Len(m_queue) + 1
        BY <2>3 DEF TypeOK, PutAccepted, InCall
      <4> QED BY <2>0, <2>3, <3>2, <4>4, <4>5 DEF ConsumerWakeup, PutAccepted
    <3> QED BY <3>1, <3>2
  <2>4. ASSUME NEW t \in Threads, TakeBlock(t) PROVE ConsumerWakeup'
    BY <2>0, <2>4 DEF TakeBlock, notEmpty, ConsumerWakeup
  <2>5. ASSUME NEW t \in Threads, PutRefused(t) \/ TakeRefused(t) \/ StopSetFlag(t)
        PROVE  ConsumerWakeup'
    BY <2>5 DEF PutRefused, TakeRefused, StopSetFlag, ConsumerWakeup
  <2>6. ASSUME NEW t \in Threads, TakeList(t) PROVE ConsumerWakeup'
    BY <2>0, <2>6 DEF TakeList, ConsumerWakeup
  <2>7. ASSUME NEW t \in Threads, TakeOne(t) PROVE ConsumerWakeup'
    <3>1. t \in AwakeTakers
      BY <2>7 DEF TakeOne, InCall, AwakeTakers, InTake
    <3>2. AwakeTakers \ {t} \subseteq AwakeTakers'
      BY <2>7, NotifyOneShrinks
         DEF TypeOK, TakeOne, ReturnFrom, AwakeTakers, InTake, Awake
    <3>3. Cardinality(AwakeTakers) - 1 <= Cardinality(AwakeTakers')
      <4>1. /\ AwakeTakers \in SUBSET Threads
            /\ AwakeTakers' \in SUBSET Threads
            /\ AwakeTakers \ {t} \in SUBSET Threads
        BY DEF AwakeTakers
      <4> QED BY <3>1, <3>2, <4>1, ThreadSetsGrow, ThreadSetsRemove
    <3>4. Len(m_queue') = Len(m_queue) - 1
      BY <2>7 DEF TypeOK, TakeOne, notEmpty
    <3> QED BY <2>0, <2>7, <3>3, <3>4 DEF ConsumerWakeup, TakeOne
  <2>8. ASSUME NEW t \in Threads, StopNotifyFull(t) PROVE ConsumerWakeup'
    <3>1. AwakeTakers \subseteq AwakeTakers'
      BY <2>8 DEF TypeOK, StopNotifyFull, NotifyAll, InCall, AwakeTakers, InTake,
                  Awake
    <3> QED BY <2>8, <3>1, ConsumerMonotone DEF StopNotifyFull
  <2>9. ASSUME NEW t \in Threads, StopNotifyEmpty(t) PROVE ConsumerWakeup'
    BY <2>9 DEF StopNotifyEmpty, NotifyAll, ConsumerWakeup
  <2>10. ASSUME NEW t \in Threads, SpuriousWakeup(t) PROVE ConsumerWakeup'
    <3>1. AwakeTakers \subseteq AwakeTakers'
      BY <2>10 DEF SpuriousWakeup, AwakeTakers, InTake, Awake
    <3> QED BY <2>10, <3>1, ConsumerMonotone DEF SpuriousWakeup
  <2>11. CASE UNCHANGED queueVars
    <3>1. AwakeTakers \subseteq AwakeTakers'
      BY <2>11 DEF queueVars, AwakeTakers, InTake, Awake
    <3> QED BY <2>11, <3>1, ConsumerMonotone DEF queueVars
  <2> QED
    BY <2>1, <2>2, <2>3, <2>4, <2>5, <2>6, <2>7, <2>8, <2>9, <2>10, <2>11
       DEF Next, Step
<1> QED BY <1>1, <1>2, Typed, PTL DEF Spec

-----------------------------------------------------------------------------
(* No lost wakeup of a producer *)

\* A sleeping producer has an element to wait for or an awake fellow producer,
\* whichever overloads of take() are used.
THEOREM NoLostProducerWakeup == Spec => []ProducerWakeup
<1>1. Init => ProducerWakeup
  BY DEF Init, ProducerWakeup
<1>2. TypeOK /\ ProducerWakeup /\ [Next]_queueVars => ProducerWakeup'
  <2> SUFFICES ASSUME TypeOK, ProducerWakeup, [Next]_queueVars
               PROVE  ProducerWakeup'
    OBVIOUS
  <2> USE DEF TypeOK, ProducerWakeup, AwakePutters, Awake
  <2>1. ASSUME NEW t \in Threads, Call(t) PROVE ProducerWakeup'
    BY <2>1 DEF Call, CallPut, CallTake, CallStop, EnterCall
  <2>2. ASSUME NEW t \in Threads, PutBlock(t) PROVE ProducerWakeup'
    <3>1. m_queue # <<>>
      BY <2>2, SyncQueueAssumption DEF PutBlock, notFull
    <3> QED BY <2>2, <3>1 DEF PutBlock
  <2>3. ASSUME NEW t \in Threads, PutAccepted(t) PROVE ProducerWakeup'
    <3>1. Len(m_queue') = Len(m_queue) + 1
      BY <2>3 DEF PutAccepted, InCall
    <3>2. m_queue' # <<>>
      BY <3>1
    <3> QED BY <3>2
  <2>4. ASSUME NEW t \in Threads, TakeBlock(t) PROVE ProducerWakeup'
    BY <2>4 DEF TakeBlock, InTake
  <2>5. ASSUME NEW t \in Threads, PutRefused(t) \/ TakeRefused(t) \/ StopSetFlag(t)
        PROVE  ProducerWakeup'
    BY <2>5 DEF PutRefused, TakeRefused, StopSetFlag
  <2>6. ASSUME NEW t \in Threads, TakeList(t) \/ TakeOne(t)
        PROVE  ProducerWakeup'
    <3>1. m_notFull' \in NotifyOne(m_notFull) /\ m_notEmpty' = m_notEmpty
      BY <2>6 DEF TakeList, TakeOne
    <3>2. CASE m_notFull = {}
      BY <3>1, <3>2, NotifyOneShrinks
    <3>3. CASE m_notFull # {}
      <4>1. PICK u \in m_notFull : m_notFull' = m_notFull \ {u}
        BY <3>1, <3>3 DEF NotifyOne
      <4>2. u \in Threads /\ pc[u] = "put" /\ u \notin m_notEmpty
        BY <4>1 DEF InTake
      <4>3. pc'[u] = "put"
        BY <2>6, <4>2 DEF TakeList, TakeOne, ReturnFrom, InCall
      <4>4. u \in AwakePutters'
        BY <3>1, <4>1, <4>2, <4>3
      <4> QED BY <4>4
    <3> QED BY <3>2, <3>3
  <2>7. ASSUME NEW t \in Threads, StopNotifyFull(t) PROVE ProducerWakeup'
    BY <2>7 DEF StopNotifyFull, NotifyAll
  <2>8. ASSUME NEW t \in Threads, StopNotifyEmpty(t) PROVE ProducerWakeup'
    <3>1. AwakePutters \subseteq AwakePutters'
      BY <2>8 DEF StopNotifyEmpty, NotifyAll, ReturnFrom, InCall
    <3> QED BY <2>8, <3>1 DEF StopNotifyEmpty
  <2>9. ASSUME NEW t \in Threads, SpuriousWakeup(t) PROVE ProducerWakeup'
    <3>1. AwakePutters \subseteq AwakePutters'
      BY <2>9 DEF SpuriousWakeup
    <3> QED BY <2>9, <3>1 DEF SpuriousWakeup
  <2>10. CASE UNCHANGED queueVars
    BY <2>10 DEF queueVars
  <2> QED
    BY <2>1, <2>2, <2>3, <2>4, <2>5, <2>6, <2>7, <2>8, <2>9, <2>10
       DEF Next, Step
<1> QED BY <1>1, <1>2, Typed, PTL DEF Spec

\* A step that leaves the buffer alone, puts no producer to sleep and takes
\* none out of its call preserves the precise invariant.
LEMMA ProducerMonotone ==
  ASSUME TypeOK, PreciseProducerWakeup, m_queue' = m_queue,
         m_needStop' = m_needStop, m_notFull' \subseteq m_notFull,
         AwakePutters \subseteq AwakePutters'
  PROVE  PreciseProducerWakeup'
<1>1. Cardinality(AwakePutters) <= Cardinality(AwakePutters')
  BY ThreadSetsGrow DEF AwakePutters
<1>2. /\ Cardinality(AwakePutters) \in Nat
      /\ Cardinality(AwakePutters') \in Nat
      /\ Len(m_queue) \in Nat /\ m_maxSize \in Nat
  BY ThreadSets, SyncQueueAssumption DEF AwakePutters, TypeOK
<1> QED BY <1>1, <1>2 DEF PreciseProducerWakeup

\* Where only take(t) is used, while a producer sleeps every free slot has an
\* awake producer of its own.
THEOREM NoLostSlot ==
  ASSUME TakeForms = {"take_one"}
  PROVE  Spec => []PreciseProducerWakeup
<1>1. Init => PreciseProducerWakeup
  BY DEF Init, PreciseProducerWakeup
<1>2. TypeOK /\ PreciseProducerWakeup /\ [Next]_queueVars => PreciseProducerWakeup'
  <2> SUFFICES ASSUME TypeOK, PreciseProducerWakeup, [Next]_queueVars
               PROVE  PreciseProducerWakeup'
    OBVIOUS
  <2>0. /\ Cardinality(AwakePutters) \in Nat
        /\ Cardinality(AwakePutters') \in Nat
        /\ Len(m_queue) \in Nat /\ m_maxSize \in Nat
    BY ThreadSets, SyncQueueAssumption DEF AwakePutters, TypeOK
  <2>00. /\ AwakePutters \in SUBSET Threads
         /\ AwakePutters' \in SUBSET Threads
    BY DEF AwakePutters
  <2>1. ASSUME NEW t \in Threads, Call(t) PROVE PreciseProducerWakeup'
    <3>1. AwakePutters \subseteq AwakePutters'
      BY <2>1 DEF TypeOK, Call, CallPut, CallTake, CallStop, EnterCall,
                  AwakePutters, Awake
    <3> QED
      BY <2>1, <3>1, ProducerMonotone
         DEF Call, CallPut, CallTake, CallStop, EnterCall
  <2>2. ASSUME NEW t \in Threads, PutBlock(t) PROVE PreciseProducerWakeup'
    BY <2>0, <2>2 DEF PutBlock, notFull, PreciseProducerWakeup
  <2>3. ASSUME NEW t \in Threads, PutAccepted(t) PROVE PreciseProducerWakeup'
    <3>1. t \in AwakePutters
      BY <2>3 DEF PutAccepted, InCall, AwakePutters
    <3>2. AwakePutters \ {t} \subseteq AwakePutters'
      BY <2>3, NotifyOneShrinks
         DEF TypeOK, PutAccepted, ReturnFrom, AwakePutters, Awake
    <3>3. Cardinality(AwakePutters) - 1 <= Cardinality(AwakePutters')
      <4>1. AwakePutters \ {t} \in SUBSET Threads
        BY <2>00
      <4> QED BY <2>00, <3>1, <3>2, <4>1, ThreadSetsGrow, ThreadSetsRemove
    <3>4. Len(m_queue') = Len(m_queue) + 1
      BY <2>3 DEF TypeOK, PutAccepted, InCall
    <3> QED BY <2>0, <2>3, <3>3, <3>4 DEF PreciseProducerWakeup, PutAccepted
  <2>4. ASSUME NEW t \in Threads, TakeBlock(t) PROVE PreciseProducerWakeup'
    <3>1. AwakePutters \subseteq AwakePutters'
      BY <2>4 DEF TypeOK, TakeBlock, AwakePutters, InTake, Awake
    <3> QED BY <2>4, <3>1, ProducerMonotone DEF TakeBlock
  <2>5. ASSUME NEW t \in Threads, PutRefused(t) \/ TakeRefused(t) \/ StopSetFlag(t)
        PROVE  PreciseProducerWakeup'
    BY <2>5 DEF PutRefused, TakeRefused, StopSetFlag, PreciseProducerWakeup
  <2>6. ASSUME NEW t \in Threads, TakeList(t) PROVE FALSE
    BY <2>6 DEF TypeOK, TakeList, InCall, InTake
  <2>7. ASSUME NEW t \in Threads, TakeOne(t) PROVE PreciseProducerWakeup'
    <3>1. CASE m_notFull = {}
      BY <2>7, <3>1, NotifyOneShrinks DEF TakeOne, PreciseProducerWakeup
    <3>2. CASE m_notFull # {}
      <4>1. PICK u \in m_notFull : m_notFull' = m_notFull \ {u}
        BY <2>7, <3>2 DEF TakeOne, NotifyOne
      <4>2. u \in Threads \ AwakePutters
        BY <4>1 DEF TypeOK, AwakePutters, Awake
      <4>3. AwakePutters \cup {u} \subseteq AwakePutters'
        BY <2>7, <4>1 DEF TypeOK, TakeOne, ReturnFrom, InCall, InTake,
                          AwakePutters, Awake
      <4>4. Cardinality(AwakePutters) + 1 <= Cardinality(AwakePutters')
        <5>1. AwakePutters \cup {u} \in SUBSET Threads
          BY <2>00, <4>2
        <5> QED BY <2>00, <4>2, <4>3, <5>1, ThreadSetsGrow, ThreadSetsAdd
      <4>5. Len(m_queue') = Len(m_queue) - 1
        BY <2>7 DEF TypeOK, TakeOne, notEmpty
      <4> QED
        BY <2>0, <2>7, <3>2, <4>4, <4>5 DEF PreciseProducerWakeup, TakeOne
    <3> QED BY <3>1, <3>2
  <2>8. ASSUME NEW t \in Threads, StopNotifyFull(t) PROVE PreciseProducerWakeup'
    BY <2>8 DEF StopNotifyFull, NotifyAll, PreciseProducerWakeup
  <2>9. ASSUME NEW t \in Threads, StopNotifyEmpty(t) PROVE PreciseProducerWakeup'
    <3>1. AwakePutters \subseteq AwakePutters'
      BY <2>9 DEF TypeOK, StopNotifyEmpty, NotifyAll, ReturnFrom, InCall,
                  AwakePutters, Awake
    <3> QED BY <2>9, <3>1, ProducerMonotone DEF StopNotifyEmpty
  <2>10. ASSUME NEW t \in Threads, SpuriousWakeup(t) PROVE PreciseProducerWakeup'
    <3>1. AwakePutters \subseteq AwakePutters'
      BY <2>10 DEF SpuriousWakeup, AwakePutters, Awake
    <3> QED BY <2>10, <3>1, ProducerMonotone DEF SpuriousWakeup
  <2>11. CASE UNCHANGED queueVars
    <3>1. AwakePutters \subseteq AwakePutters'
      BY <2>11 DEF queueVars, AwakePutters, Awake
    <3> QED BY <2>11, <3>1, ProducerMonotone DEF queueVars
  <2> QED
    BY <2>1, <2>2, <2>3, <2>4, <2>5, <2>6, <2>7, <2>8, <2>9, <2>10, <2>11
       DEF Next, Step
<1> QED BY <1>1, <1>2, Typed, PTL DEF Spec

-----------------------------------------------------------------------------
(* The queue implements the abstract channel *)

\* An element a thread is putting has not been accepted before, and no other
\* thread is putting it.
FreshArgs ==
  \A t \in Threads :
    arg[t] # NoItem =>
      /\ arg[t] \notin Range(m_queue) \cup Range(taken)
      /\ \A u \in Threads : arg[u] = arg[t] => u = t

LEMMA RangeAppend ==
  ASSUME NEW s \in Seq(Items), NEW x \in Items
  PROVE  Range(Append(s, x)) = Range(s) \cup {x}
<1>1. /\ DOMAIN s = 1 .. Len(s) /\ DOMAIN Append(s, x) = 1 .. Len(s) + 1
      /\ Len(s) \in Nat
  OBVIOUS
<1>2. \A i \in 1 .. Len(s) : Append(s, x)[i] = s[i]
  OBVIOUS
<1>3. Append(s, x)[Len(s) + 1] = x
  OBVIOUS
<1>4. 1 .. Len(s) + 1 = (1 .. Len(s)) \cup {Len(s) + 1}
  BY <1>1
<1> QED BY <1>1, <1>2, <1>3, <1>4 DEF Range

LEMMA RangeConcat ==
  ASSUME NEW s \in Seq(Items), NEW r \in Seq(Items)
  PROVE  Range(s \o r) = Range(s) \cup Range(r)
<1>1. Range(s \o r) \subseteq Range(s) \cup Range(r)
  BY DEF Range
<1>2. Range(s) \subseteq Range(s \o r)
  BY DEF Range
<1>3. Range(r) \subseteq Range(s \o r)
  <2> SUFFICES ASSUME NEW i \in 1 .. Len(r) PROVE r[i] \in Range(s \o r)
    BY DEF Range
  <2>1. Len(s) + i \in DOMAIN (s \o r) /\ (s \o r)[Len(s) + i] = r[i]
    OBVIOUS
  <2> QED BY <2>1 DEF Range
<1> QED BY <1>1, <1>2, <1>3

LEMMA RangePop ==
  ASSUME NEW s \in Seq(Items), s # <<>>
  PROVE  Range(Tail(s)) \subseteq Range(s) /\ Head(s) \in Range(s)
<1>1. \A i \in 1 .. Len(Tail(s)) : i + 1 \in DOMAIN s /\ Tail(s)[i] = s[i + 1]
  OBVIOUS
<1>2. 1 \in DOMAIN s /\ Head(s) = s[1] /\ DOMAIN Tail(s) = 1 .. Len(Tail(s))
  OBVIOUS
<1> QED BY <1>1, <1>2 DEF Range

\* Elements only ever move from the argument of a put() to the buffer, and
\* from there to a consumer.
THEOREM ArgumentsFresh == Spec => []FreshArgs
<1>1. Init => FreshArgs
  BY DEF Init, FreshArgs
<1>2. TypeOK /\ FreshArgs /\ [Next]_queueVars => FreshArgs'
  <2> SUFFICES ASSUME TypeOK, FreshArgs, [Next]_queueVars PROVE FreshArgs'
    OBVIOUS
  <2>1. ASSUME NEW t \in Threads, Call(t) PROVE FreshArgs'
    BY <2>1 DEF TypeOK, FreshArgs, Call, CallPut, CallTake, CallStop, EnterCall,
                Fresh
  <2>2. ASSUME NEW t \in Threads, PutAccepted(t) PROVE FreshArgs'
    <3>1. arg[t] \in Items
      BY <2>2 DEF TypeOK, PutAccepted, InCall
    <3>2. Range(m_queue') = Range(m_queue) \cup {arg[t]}
      BY <2>2, <3>1, RangeAppend DEF TypeOK, PutAccepted
    <3> QED BY <2>2, <3>2 DEF TypeOK, FreshArgs, PutAccepted, ReturnFrom
  <2>3. ASSUME NEW t \in Threads, TakeList(t) PROVE FreshArgs'
    <3>1. Range(taken') = Range(taken) \cup Range(m_queue)
      BY <2>3, RangeConcat DEF TypeOK, TakeList
    <3>2. Range(m_queue') = {}
      BY <2>3 DEF TakeList, Range
    <3> QED BY <2>3, <3>1, <3>2 DEF TypeOK, FreshArgs, TakeList, ReturnFrom
  <2>4. ASSUME NEW t \in Threads, TakeOne(t) PROVE FreshArgs'
    <3>1. Range(m_queue') \subseteq Range(m_queue) /\ Head(m_queue) \in Range(m_queue)
      BY <2>4, RangePop DEF TypeOK, TakeOne, notEmpty
    <3>2. Range(taken') = Range(taken) \cup {Head(m_queue)}
      BY <2>4, RangeAppend DEF TypeOK, TakeOne, notEmpty
    <3> QED BY <2>4, <3>1, <3>2 DEF TypeOK, FreshArgs, TakeOne, ReturnFrom
  <2>5. ASSUME NEW t \in Threads,
               \/ PutBlock(t) \/ PutRefused(t) \/ TakeBlock(t) \/ TakeRefused(t)
               \/ StopSetFlag(t) \/ StopNotifyFull(t) \/ StopNotifyEmpty(t)
               \/ SpuriousWakeup(t)
        PROVE  FreshArgs'
    BY <2>5 DEF TypeOK, FreshArgs, PutBlock, PutRefused, TakeBlock, TakeRefused,
                StopSetFlag, StopNotifyFull, StopNotifyEmpty, SpuriousWakeup,
                ReturnFrom
  <2>6. CASE UNCHANGED queueVars
    BY <2>6 DEF FreshArgs, queueVars
  <2> QED BY <2>1, <2>2, <2>3, <2>4, <2>5, <2>6 DEF Next, Step
<1> QED BY <1>1, <1>2, Typed, PTL DEF Spec

LEMMA ConcatAppend ==
  ASSUME NEW s \in Seq(Items), NEW r \in Seq(Items), NEW x \in Items
  PROVE  s \o Append(r, x) = Append(s \o r, x)
OBVIOUS

LEMMA ConcatShift ==
  ASSUME NEW s \in Seq(Items), NEW r \in Seq(Items), r # <<>>
  PROVE  Append(s, Head(r)) \o Tail(r) = s \o r
OBVIOUS

LEMMA ConcatEmpty ==
  ASSUME NEW s \in Seq(Items)
  PROVE  s \o <<>> = s
OBVIOUS

\* The steps of put(), take() and stop() that do their work are steps of the
\* channel; all others leave what its users see unchanged.
THEOREM RefinesChannel == Spec => ImplementsChannel
<1>1. Init => Channel!Init
  BY ConcatEmpty DEF Init, Channel!Init
<1>2. TypeOK /\ FreshArgs /\ [Next]_queueVars => [Channel!Next]_Channel!channelVars
  <2> SUFFICES ASSUME TypeOK, FreshArgs, [Next]_queueVars
               PROVE  Channel!Next \/ UNCHANGED Channel!channelVars
    OBVIOUS
  <2>0. /\ m_queue \in Seq(Items) /\ taken \in Seq(Items)
        /\ Len(taken \o m_queue) = Len(taken) + Len(m_queue)
        /\ Len(taken) \in Nat /\ Len(m_queue) \in Nat
    BY DEF TypeOK
  <2>1. ASSUME NEW t \in Threads, PutAccepted(t) PROVE Channel!Accept(arg[t])
    <3>1. arg[t] \in Items /\ arg[t] # NoItem
      BY <2>1 DEF TypeOK, PutAccepted, InCall
    <3>2. arg[t] \notin Range(taken \o m_queue)
      BY <2>0, <3>1, RangeConcat DEF FreshArgs
    <3>3. taken' \o m_queue' = Append(taken \o m_queue, arg[t])
      BY <2>0, <2>1, <3>1, ConcatAppend DEF PutAccepted
    <3>4. Len(taken \o m_queue) - Len(taken) < m_maxSize
      BY <2>0, <2>1, SyncQueueAssumption DEF PutAccepted, notFull
    <3>5. arg[t] \notin Channel!Range(taken \o m_queue)
      BY <3>2 DEF Range, Channel!Range
    <3>6. UNCHANGED <<Len(taken), m_needStop>> /\ ~m_needStop
      BY <2>1 DEF PutAccepted
    <3> QED BY <3>3, <3>4, <3>5, <3>6 DEF Channel!Accept
  <2>2. ASSUME NEW t \in Threads, TakeList(t) PROVE Channel!Deliver(Len(m_queue))
    <3>1. taken' \o m_queue' = taken \o m_queue
      BY <2>0, <2>2, ConcatEmpty DEF TakeList
    <3>2. Len(taken') = Len(taken) + Len(m_queue)
      BY <2>0, <2>2 DEF TakeList
    <3> QED BY <2>0, <2>2, <3>1, <3>2 DEF TakeList, Channel!Deliver
  <2>3. ASSUME NEW t \in Threads, TakeOne(t) PROVE Channel!Deliver(1)
    <3>1. taken' \o m_queue' = taken \o m_queue
      BY <2>0, <2>3, ConcatShift DEF TakeOne, notEmpty
    <3>2. Len(taken') = Len(taken) + 1 /\ Len(m_queue) >= 1
      BY <2>0, <2>3 DEF TakeOne, notEmpty
    <3>3. 1 <= Len(taken \o m_queue) - Len(taken)
      BY <2>0, <3>2
    <3>4. ~m_needStop /\ UNCHANGED m_needStop
      BY <2>3 DEF TakeOne
    <3> QED BY <3>1, <3>2, <3>3, <3>4 DEF Channel!Deliver
  <2>4. ASSUME NEW t \in Threads, StopSetFlag(t) PROVE Channel!Close
    BY <2>4 DEF StopSetFlag, Channel!Close
  <2>5. ASSUME NEW t \in Threads, Call(t) PROVE UNCHANGED Channel!channelVars
    BY <2>5 DEF Call, CallPut, CallTake, CallStop, EnterCall, Channel!channelVars
  <2>6. ASSUME NEW t \in Threads,
               \/ PutBlock(t) \/ PutRefused(t) \/ TakeBlock(t) \/ TakeRefused(t)
               \/ StopNotifyFull(t) \/ StopNotifyEmpty(t) \/ SpuriousWakeup(t)
        PROVE  UNCHANGED Channel!channelVars
    BY <2>6 DEF PutBlock, PutRefused, TakeBlock, TakeRefused, StopNotifyFull,
                StopNotifyEmpty, SpuriousWakeup, Channel!channelVars
  <2>7. CASE UNCHANGED queueVars
    BY <2>7 DEF queueVars, Channel!channelVars
  <2>8. ASSUME NEW t \in Threads, PutAccepted(t) PROVE Channel!Next
    <3>1. arg[t] \in Items
      BY <2>8 DEF TypeOK, PutAccepted, InCall
    <3> QED BY <2>1, <2>8, <3>1 DEF Channel!Next
  <2>9. ASSUME NEW t \in Threads, TakeList(t) \/ TakeOne(t) PROVE Channel!Next
    <3>1. Len(m_queue) >= 1
      BY <2>0, <2>9 DEF TakeList, TakeOne, notEmpty
    <3>2. Len(m_queue) \in 1 .. Len(taken \o m_queue) /\ 1 \in 1 .. Len(taken \o m_queue)
      BY <2>0, <3>1
    <3> QED BY <2>2, <2>3, <2>9, <3>2 DEF Channel!Next
  <2>10. ASSUME NEW t \in Threads, StopSetFlag(t) PROVE Channel!Next
    BY <2>4, <2>10 DEF Channel!Next
  <2> QED BY <2>5, <2>6, <2>7, <2>8, <2>9, <2>10 DEF Next, Step
<1> QED BY <1>1, <1>2, Typed, ArgumentsFresh, PTL
        DEF Spec, ImplementsChannel, Channel!Spec
=============================================================================
