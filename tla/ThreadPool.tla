----------------------------- MODULE ThreadPool -----------------------------
(***************************************************************************)
(* wotsen::ThreadPool of src/thread-pool/thread-pool.h: workers that share  *)
(* one SyncQueue, the clients that submit tasks and stop the pool, and the  *)
(* owner that destroys it.                                                 *)
(*                                                                         *)
(* The queue's variables and actions are those of SyncQueue: an action of   *)
(* the pool that touches the queue is an action of SyncQueue conjoined with *)
(* what it does to the pool.  The elements of the queue are tasks.  A task  *)
(* is client code, and all the pool can tell of it is which calls it makes: *)
(* it submits the tasks in Spawns, waits for the futures of those in        *)
(* Awaits, and then, if it is in Stops, calls stop().                       *)
(***************************************************************************)
EXTENDS SyncQueue

CONSTANTS
  WorkerList,   \* the workers, in the order the constructor creates them
  Clients,      \* the other threads that use the pool
  Owner,        \* the client that constructs and destroys it
  Spawns,       \* Spawns[x]: the tasks that task x submits
  Awaits,       \* Awaits[x]: the tasks for whose futures x then waits
  Stops         \* the tasks that end by calling stop() on their own pool

Workers == Range(WorkerList)

ASSUME ThreadPoolAssumption ==
  /\ WorkerList \in Seq(Threads)
  /\ IsInjective(WorkerList)
  /\ Owner \in Clients
  /\ Clients = Threads \ Workers
  /\ "take_list" \in TakeForms
  /\ Spawns \in [Items -> SUBSET Items]
  /\ Awaits \in [Items -> SUBSET Items]
  /\ Stops \subseteq Items

VARIABLES
  m_threadgroup,  \* the list of threads to join
  m_running,      \* the flag the workers' loops test
  m_flag,         \* the once_flag of stop(): "unset", "active" or "done"
  fut,            \* fut[x]: the future of task x
  loc,            \* loc[t]: where thread t is in the pool's code
  list,           \* list[w]: the batch worker w has taken and not yet run
  cur,            \* cur[w]: the task worker w runs
  todo,           \* todo[w]: the tasks cur[w] has yet to submit
  joinIdx,        \* the position of the join loop of stop_thread_group()
  joined,         \* the threads that are no longer joinable
  pool,           \* the life of the pool object
  groupRuns       \* history: entries into stop_thread_group(), capped at 2

poolVars == <<m_threadgroup, m_running, m_flag, fut, loc, list, cur, todo,
              joinIdx, joined, pool, groupRuns>>
vars == <<queueVars, poolVars>>

Goto(t, l) == loc' = [loc EXCEPT ![t] = l]

\* The shared state of a promise is abandoned when the last reference to its
\* packaged_task goes away and it has not run.
Break(S) == fut' = [x \in Items |-> IF x \in S THEN "broken" ELSE fut[x]]

-----------------------------------------------------------------------------
(* ThreadPool(numThreads) and start(): workers run while others are created *)

StartThread ==
  /\ pool = "starting" /\ Len(m_threadgroup) < Len(WorkerList)
  /\ LET w == WorkerList[Len(m_threadgroup) + 1]
     IN  m_threadgroup' = Append(m_threadgroup, w) /\ Goto(w, "loop")
  /\ UNCHANGED <<queueVars, m_running, m_flag, fut, list, cur, todo, joinIdx,
                 joined, pool, groupRuns>>

ConstructorReturns ==
  /\ pool = "starting" /\ Len(m_threadgroup) = Len(WorkerList)
  /\ pool' = "alive"
  /\ UNCHANGED <<queueVars, m_threadgroup, m_running, m_flag, fut, loc, list,
                 cur, todo, joinIdx, joined, groupRuns>>

-----------------------------------------------------------------------------
(* add_task(x), by a client or by the task a worker runs *)

ResumeLoc(t) == IF t \in Workers THEN "body" ELSE "idle"

ClientReady(c) == c \in Clients /\ loc[c] = "idle" /\ pool = "alive"

\* A task that some task submits is not submitted by a client.
ClientTasks == Items \ UNION Range(Spawns)

AddTask(t, x) ==
  /\ \/ ClientReady(t) /\ x \in ClientTasks /\ todo' = todo
     \/ /\ t \in Workers /\ loc[t] = "body" /\ x \in todo[t]
        /\ todo' = [todo EXCEPT ![t] = @ \ {x}]
  /\ fut[x] = "none"
  /\ CallPut(t, x)
  /\ fut' = [fut EXCEPT ![x] = "pending"]
  /\ Goto(t, "add")
  /\ UNCHANGED <<m_threadgroup, m_running, m_flag, list, cur, joinIdx, joined,
                 pool, groupRuns>>

AddBlocked(t) == loc[t] = "add" /\ PutBlock(t) /\ UNCHANGED poolVars

AddAccepted(t) ==
  /\ loc[t] = "add" /\ PutAccepted(t)
  /\ Goto(t, ResumeLoc(t))
  /\ UNCHANGED <<m_threadgroup, m_running, m_flag, fut, list, cur, todo,
                 joinIdx, joined, pool, groupRuns>>

\* Mutant: the closure of a refused task is kept alive.
AddRefusedSilently(t) ==
  /\ loc[t] = "add" /\ PutRefused(t)
  /\ Goto(t, ResumeLoc(t))
  /\ UNCHANGED <<m_threadgroup, m_running, m_flag, fut, list, cur, todo,
                 joinIdx, joined, pool, groupRuns>>

\* put() says nothing of a refusal: the task is destroyed with the closure and
\* add_task() returns the future of a broken promise.
AddRefused(t) ==
  /\ loc[t] = "add" /\ PutRefused(t)
  /\ Break({arg[t]})
  /\ Goto(t, ResumeLoc(t))
  /\ UNCHANGED <<m_threadgroup, m_running, m_flag, list, cur, todo, joinIdx,
                 joined, pool, groupRuns>>

-----------------------------------------------------------------------------
(* run_in_thread(): the loop of worker w *)

\* while (m_running), then the call of m_queue.take(list)
LoopTest(w) ==
  /\ loc[w] = "loop"
  /\ \/ m_running /\ CallTake(w, "take_list") /\ Goto(w, "take")
     \/ ~m_running /\ UNCHANGED queueVars /\ Goto(w, "exited")
  /\ UNCHANGED <<m_threadgroup, m_running, m_flag, fut, list, cur, todo,
                 joinIdx, joined, pool, groupRuns>>

TakeBlocked(w) == loc[w] = "take" /\ TakeBlock(w) /\ UNCHANGED poolVars

\* The whole queue becomes the batch of one worker; after stop() the batch is
\* empty and the worker goes round its loop.
TakeReturns(w) ==
  /\ loc[w] = "take"
  /\ \/ TakeList(w) /\ list' = [list EXCEPT ![w] = m_queue]
     \/ TakeRefused(w) /\ list' = list
  /\ Goto(w, "for")
  /\ UNCHANGED <<m_threadgroup, m_running, m_flag, fut, cur, todo, joinIdx,
                 joined, pool, groupRuns>>

\* Mutant: the task is not removed from the batch.
NextTaskKept(w) ==
  /\ loc[w] = "for" /\ list[w] # <<>> /\ m_running
  /\ cur' = [cur EXCEPT ![w] = Head(list[w])]
  /\ todo' = [todo EXCEPT ![w] = Spawns[Head(list[w])]]
  /\ Goto(w, "body")
  /\ UNCHANGED <<queueVars, m_threadgroup, m_running, m_flag, fut, list,
                 joinIdx, joined, pool, groupRuns>>

NextTask(w) ==
  /\ loc[w] = "for" /\ list[w] # <<>> /\ m_running
  /\ cur' = [cur EXCEPT ![w] = Head(list[w])]
  /\ todo' = [todo EXCEPT ![w] = Spawns[Head(list[w])]]
  /\ list' = [list EXCEPT ![w] = Tail(@)]
  /\ Goto(w, "body")
  /\ UNCHANGED <<queueVars, m_threadgroup, m_running, m_flag, fut, joinIdx,
                 joined, pool, groupRuns>>

\* return from inside the for loop: the rest of the batch is destroyed.
DropBatch(w) ==
  /\ loc[w] = "for" /\ list[w] # <<>> /\ ~m_running
  /\ Break(Range(list[w]))
  /\ list' = [list EXCEPT ![w] = <<>>]
  /\ Goto(w, "exited")
  /\ UNCHANGED <<queueVars, m_threadgroup, m_running, m_flag, cur, todo,
                 joinIdx, joined, pool, groupRuns>>

BatchDone(w) ==
  /\ loc[w] = "for" /\ list[w] = <<>>
  /\ Goto(w, "loop")
  /\ UNCHANGED <<queueVars, m_threadgroup, m_running, m_flag, fut, list, cur,
                 todo, joinIdx, joined, pool, groupRuns>>

-----------------------------------------------------------------------------
(* task(): the packaged_task stores the result or the exception *)

Resolved(x) == fut[x] \in {"ready", "broken"}

BodyDone(w) ==
  /\ loc[w] = "body" /\ todo[w] = {}
  /\ \A y \in Awaits[cur[w]] : Resolved(y)

\* Mutant: the worker keeps the task it has run.
TaskEndsHolding(w) ==
  /\ fut' = [fut EXCEPT ![cur[w]] = "ready"]
  /\ cur' = cur
  /\ Goto(w, "for")

TaskEnds(w) ==
  /\ fut' = [fut EXCEPT ![cur[w]] = "ready"]
  /\ cur' = [cur EXCEPT ![w] = NoItem]
  /\ Goto(w, "for")

BodyReturns(w) ==
  /\ BodyDone(w) /\ cur[w] \notin Stops
  /\ TaskEnds(w)
  /\ UNCHANGED <<queueVars, m_threadgroup, m_running, m_flag, list, todo,
                 joinIdx, joined, pool, groupRuns>>

-----------------------------------------------------------------------------
(* stop(), ~ThreadPool() and stop_thread_group() *)

\* A client, or the task of a worker, calls stop().
PoolStop(t) ==
  /\ \/ ClientReady(t)
     \/ t \in Workers /\ BodyDone(t) /\ cur[t] \in Stops
  /\ Goto(t, "once")
  /\ UNCHANGED <<queueVars, m_threadgroup, m_running, m_flag, fut, list, cur,
                 todo, joinIdx, joined, pool, groupRuns>>

\* An object is destroyed when no other client is in a call on it.
Destructor ==
  /\ ClientReady(Owner)
  /\ \A c \in Clients : loc[c] = "idle"
  /\ pool' = "dying"
  /\ Goto(Owner, "once")
  /\ UNCHANGED <<queueVars, m_threadgroup, m_running, m_flag, fut, list, cur,
                 todo, joinIdx, joined, groupRuns>>

\* call_once: one caller at a time runs the function; the others wait.
\* Mutant: no call_once: whoever finds the group not yet stopped stops it.
OnceEnterAny(t) ==
  /\ loc[t] = "once" /\ m_flag # "done"
  /\ m_flag' = "active"
  /\ CallStop(t)
  /\ Goto(t, "group")
  /\ groupRuns' = IF groupRuns = 2 THEN 2 ELSE groupRuns + 1
  /\ UNCHANGED <<m_threadgroup, m_running, fut, list, cur, todo, joinIdx,
                 joined, pool>>

OnceEnter(t) ==
  /\ loc[t] = "once" /\ m_flag = "unset"
  /\ m_flag' = "active"
  /\ CallStop(t)
  /\ Goto(t, "group")
  /\ groupRuns' = IF groupRuns = 2 THEN 2 ELSE groupRuns + 1
  /\ UNCHANGED <<m_threadgroup, m_running, fut, list, cur, todo, joinIdx,
                 joined, pool>>

\* The call of stop() by t is over.
StopEnds(t) ==
  IF t \in Workers
  THEN TaskEnds(t)
  ELSE /\ Goto(t, IF pool = "dying" THEN "members" ELSE "idle")
       /\ UNCHANGED <<fut, cur>>

\* Mutant: an atomic exchange in place of call_once: the loser does not wait.
OnceSkipNoWait(t) ==
  /\ loc[t] = "once" /\ m_flag # "unset"
  /\ StopEnds(t)
  /\ UNCHANGED <<queueVars, m_threadgroup, m_running, m_flag, list, todo,
                 joinIdx, joined, pool, groupRuns>>

OnceSkip(t) ==
  /\ loc[t] = "once" /\ m_flag = "done"
  /\ StopEnds(t)
  /\ UNCHANGED <<queueVars, m_threadgroup, m_running, m_flag, list, todo,
                 joinIdx, joined, pool, groupRuns>>

GroupStopsQueue(t) ==
  /\ loc[t] = "group"
  /\ \/ StopSetFlag(t) /\ UNCHANGED loc
     \/ StopNotifyFull(t) /\ UNCHANGED loc
     \/ StopNotifyEmpty(t) /\ Goto(t, "set_running")
  /\ UNCHANGED <<m_threadgroup, m_running, m_flag, fut, list, cur, todo,
                 joinIdx, joined, pool, groupRuns>>

GroupClearsRunning(t) ==
  /\ loc[t] = "set_running"
  /\ m_running' = FALSE
  /\ joinIdx' = 1
  /\ Goto(t, "join")
  /\ UNCHANGED <<queueVars, m_threadgroup, m_flag, fut, list, cur, todo,
                 joined, pool, groupRuns>>

AtJoin(t) == loc[t] = "join" /\ joinIdx <= Len(m_threadgroup)

Join(t) ==
  /\ AtJoin(t)
  /\ LET w == m_threadgroup[joinIdx]
     IN  w \notin joined /\ loc[w] = "exited" /\ joined' = joined \cup {w}
  /\ joinIdx' = joinIdx + 1
  /\ UNCHANGED <<queueVars, m_threadgroup, m_running, m_flag, fut, loc, list,
                 cur, todo, pool, groupRuns>>

\* join() throws when a thread joins itself or one that is not joinable.  The
\* exception leaves call_once, which resets the flag; it ends a task like any
\* other result, and out of the destructor it terminates the program.
JoinThrows(t) ==
  /\ AtJoin(t)
  /\ m_threadgroup[joinIdx] \in joined \cup {t}
  /\ m_flag' = "unset"
  /\ joinIdx' = 0
  /\ StopEnds(t)
  /\ pool' = IF pool = "dying" /\ t = Owner THEN "aborted" ELSE pool
  /\ UNCHANGED <<queueVars, m_threadgroup, m_running, list, todo, joined,
                 groupRuns>>

\* Mutant: the last thread of the group is not joined.
GroupReturnsEarly(t) ==
  /\ loc[t] = "join" /\ joinIdx >= Len(m_threadgroup)
  /\ m_threadgroup' = <<>>
  /\ m_flag' = "done"
  /\ joinIdx' = 0
  /\ StopEnds(t)
  /\ UNCHANGED <<queueVars, m_running, list, todo, joined, pool, groupRuns>>

GroupReturns(t) ==
  /\ loc[t] = "join" /\ joinIdx > Len(m_threadgroup)
  /\ m_threadgroup' = <<>>
  /\ m_flag' = "done"
  /\ joinIdx' = 0
  /\ StopEnds(t)
  /\ UNCHANGED <<queueVars, m_running, list, todo, joined, pool, groupRuns>>

\* The destructor of the queue destroys the tasks left in it.
DestroyMembers ==
  /\ loc[Owner] = "members"
  /\ Break(Range(m_queue))
  /\ pool' = "destroyed"
  /\ Goto(Owner, "idle")
  /\ UNCHANGED <<queueVars, m_threadgroup, m_running, m_flag, list, cur, todo,
                 joinIdx, joined, groupRuns>>

-----------------------------------------------------------------------------
PoolInit ==
  /\ Init
  /\ m_threadgroup = <<>>
  /\ m_running = TRUE
  /\ m_flag = "unset"
  /\ fut = [x \in Items |-> "none"]
  /\ loc = [t \in Threads |-> IF t \in Workers THEN "unborn" ELSE "idle"]
  /\ list = [w \in Workers |-> <<>>]
  /\ cur = [w \in Workers |-> NoItem]
  /\ todo = [w \in Workers |-> {}]
  /\ joinIdx = 0
  /\ joined = {}
  /\ pool = "starting"
  /\ groupRuns = 0

AddStep(t) == AddBlocked(t) \/ AddAccepted(t) \/ AddRefused(t)

StopStep(t) ==
  \/ OnceEnter(t) \/ OnceSkip(t)
  \/ GroupStopsQueue(t) \/ GroupClearsRunning(t)
  \/ Join(t) \/ JoinThrows(t) \/ GroupReturns(t)

WorkerStep(w) ==
  \/ LoopTest(w) \/ TakeBlocked(w) \/ TakeReturns(w)
  \/ NextTask(w) \/ DropBatch(w) \/ BatchDone(w)
  \/ BodyReturns(w)
  \/ PoolStop(w) \/ \E x \in Items : AddTask(w, x)

OwnerStep == StartThread \/ ConstructorReturns \/ DestroyMembers

ClientCall(c) == PoolStop(c) \/ \E x \in Items : AddTask(c, x)

PoolSpurious(t) == SpuriousWakeup(t) /\ UNCHANGED poolVars

\* The end of the program, which is not a deadlock.
Terminated == pool = "destroyed" /\ UNCHANGED vars

PoolNext ==
  /\ pool # "aborted"
  /\ \/ OwnerStep \/ Destructor
     \/ \E c \in Clients : ClientCall(c)
     \/ \E w \in Workers : WorkerStep(w)
     \/ \E t \in Threads : AddStep(t) \/ StopStep(t) \/ PoolSpurious(t)
     \/ Terminated

PoolSpec == PoolInit /\ [][PoolNext]_vars

\* Every thread that can take a step takes one eventually, the bodies of the
\* tasks included, unless the program is terminated; no client is obliged to
\* call anything.
PoolFairness ==
  /\ WF_vars(pool # "aborted" /\ OwnerStep)
  /\ \A w \in Workers : WF_vars(pool # "aborted" /\ WorkerStep(w))
  /\ \A t \in Threads : WF_vars(pool # "aborted" /\ (AddStep(t) \/ StopStep(t)))

PoolFairSpec == PoolSpec /\ PoolFairness

-----------------------------------------------------------------------------
(* Safety *)

Locs == {"unborn", "loop", "take", "for", "body", "exited", "idle", "members",
         "add", "once", "group", "set_running", "join"}

GroupLocs == {"group", "set_running", "join"}

\* Every variable has its type, a thread is in a call of the queue exactly
\* when the pool's code says so, and a worker holds a task exactly while it is
\* inside task().
PoolTypeOK ==
  /\ m_threadgroup \in Seq(Workers)
  /\ m_running \in BOOLEAN
  /\ m_flag \in {"unset", "active", "done"}
  /\ fut \in [Items -> {"none", "pending", "ready", "broken"}]
  /\ loc \in [Threads -> Locs]
  /\ list \in [Workers -> Seq(Items)]
  /\ cur \in [Workers -> Items \cup {NoItem}]
  /\ todo \in [Workers -> SUBSET Items]
  /\ joinIdx \in Nat
  /\ joined \subseteq Workers
  /\ pool \in {"starting", "alive", "dying", "destroyed", "aborted"}
  /\ groupRuns \in 0 .. 2
  /\ \A t \in Threads :
       /\ pc[t] = "put" <=> loc[t] = "add"
       /\ pc[t] = "take_list" <=> loc[t] = "take"
       /\ pc[t] \in {"stop", "stop_notFull", "stop_notEmpty"} <=> loc[t] = "group"
       /\ pc[t] # "take_one"
  /\ \A w \in Workers :
       cur[w] = NoItem <=>
         loc[w] \in {"unborn", "loop", "take", "for", "exited"}

\* The places a task can be in between its submission and its result.
PutPlaces(x) == {<<"put", t>> : t \in {u \in Threads : arg[u] = x}}
QueuePlaces(x) == {<<"queue", i>> : i \in {j \in DOMAIN m_queue : m_queue[j] = x}}
BatchPlaces(w, x) ==
  {<<"batch", w, i>> : i \in {j \in DOMAIN list[w] : list[w][j] = x}}
RunPlaces(x) == {<<"run", w>> : w \in {v \in Workers : cur[v] = x}}

Places(x) ==
  PutPlaces(x) \cup QueuePlaces(x) \cup RunPlaces(x)
    \cup UNION {BatchPlaces(w, x) : w \in Workers}

\* While the pool exists, a task whose future is pending is in exactly one
\* place, and any other task in none: no hand-over from add_task() to queue,
\* batch and worker loses or duplicates a task, at whatever point stop() comes.
TaskPlacement ==
  pool \notin {"destroyed", "aborted"} =>
    \A x \in Items :
      IF fut[x] = "pending" THEN \E p \in Places(x) : Places(x) = {p}
                            ELSE Places(x) = {}

\* Once the destructor is done no worker runs, no thread is inside the queue,
\* and nobody can be left waiting for a future.
AfterDestroy ==
  pool = "destroyed" =>
    /\ \A w \in Workers : loc[w] = "exited"
    /\ \A t \in Threads : pc[t] = "idle"
    /\ \A x \in Items : fut[x] # "pending"

StopReturns(c) ==
  /\ loc[c] \in {"once", "join"} /\ loc'[c] \in {"idle", "members"}
  /\ ~(m_flag = "active" /\ m_flag' = "unset")

\* Whichever client's stop() returns normally, whether it ran the group's stop
\* or waited for another caller to, every worker has left its loop by then.
StopJoins ==
  [][\A c \in Clients : StopReturns(c) => \A w \in Workers : loc[w] = "exited"]_vars

\* At most one thread is inside stop_thread_group(), and the once_flag knows.
StopExclusive ==
  /\ \A t, u \in Threads : loc[t] \in GroupLocs /\ loc[u] \in GroupLocs => t = u
  /\ m_flag = "active" <=> \E t \in Threads : loc[t] \in GroupLocs

\* The comment on stop(): stop_thread_group() is called only once.
StopGroupOnce == groupRuns <= 1

-----------------------------------------------------------------------------
(* Refinement *)

TaskStatus(x) ==
  CASE fut[x] = "none" -> "new"
    [] fut[x] = "ready" -> "done"
    [] fut[x] = "broken" -> "dropped"
    [] fut[x] = "pending" ->
         IF \E w \in Workers : cur[w] = x THEN "running" ELSE "waiting"

Executor == INSTANCE TaskExecutor WITH
              status <- [x \in Items |-> TaskStatus(x)],
              closing <- m_needStop,
              closed <- m_flag = "done"

\* Seen from the clients, queue, batches and workers are an executor: a task
\* runs at most once, is dropped only after a stop has begun, and none starts,
\* or is still running, when a stop has been completed.
ImplementsExecutor == Executor!Spec

-----------------------------------------------------------------------------
(* Liveness *)

\* In add_task() on a full queue, in get(), in call_once while another thread
\* stops the group, or in the join of a worker that has not left its loop.
BlockedWorker(w) ==
  \/ loc[w] = "add" /\ ~Awake(w)
  \/ /\ loc[w] = "body" /\ todo[w] = {}
     /\ \E y \in Awaits[cur[w]] : ~Resolved(y)
  \/ loc[w] = "once" /\ m_flag = "active"
  \/ AtJoin(w) /\ loc[m_threadgroup[joinIdx]] # "exited"

\* The four reasons for which a task may wait for ever.
Excused(x) ==
  \/ ~m_needStop /\ \A w \in Workers : BlockedWorker(w)
  \/ m_needStop /\ x \in Range(m_queue)
  \/ \E w \in Workers :
       BlockedWorker(w) /\ x \in Range(list[w]) \cup {cur[w]}
  \/ pool = "aborted"

\* A future stays pending for ever only if every worker is blocked in a task,
\* or the task was left in the queue of a stopped pool that nobody destroys,
\* or it is in the batch of a worker that is blocked in a task, or that task
\* itself, or the destructor has terminated the program.
PendingOnlyIfExcused ==
  \A x \in Items : <>[](fut[x] = "pending") => <>[]Excused(x)

\* If no task waits for another, stop() and the destructor return, although
\* workers may be blocked in add_task() on a full queue when they are called.
StopTerminates ==
  \A c \in Clients :
    loc[c] \in {"once", "members"} \cup GroupLocs ~> loc[c] = "idle"

\* The comments in stop_thread_group(): clearing m_running makes the threads
\* leave their loops and exit, and the join loop waits for their end.
StopEndsWorkers == ~m_running ~> \A w \in Workers : loc[w] = "exited"
=============================================================================
