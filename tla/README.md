# TLA+ models of code-collections

The repository is a collection of independent C and C++ libraries: a thread
pool, balanced search trees, a slab memory pool, a module manager, and some
small data structures and algorithms.  Nothing calls across the directories, so
the project has one group of modules per library.

- [Inventory](#inventory)
- [Modules](#modules)
- [The thread pool](#the-thread-pool)
- [The AVL tree](#the-avl-tree)
- [The red-black tree](#the-red-black-tree)
- [The memory pool](#the-memory-pool)
- [The small parts](#the-small-parts)
- [Runs](#runs)
- [Proofs](#proofs)
- [Not modelled](#not-modelled)
- [Plan](#plan)

## Inventory

| component | state | operations | what makes it correct |
|---|---|---|---|
| `thread-pool/sync-queue.h` SyncQueue | buffer, stop flag, a mutex, two condition variables | put, take (two overloads), stop, size queries | bounded; FIFO, each element once; no wakeup lost; stop releases everybody |
| `thread-pool/thread-pool.h` ThreadPool | list of threads, queue, running flag, once_flag; per worker a batch and a running task; futures | constructor, add_task, stop, destructor; worker loop | a task runs at most once and is never lost silently; stop joins every worker; the destructor leaves nothing behind |
| `binary-tree/new/avltree` | root, per node left/right/parent and a balance factor packed in two bits of the parent pointer | insert, remove, search (exact, greater, smaller), first/last/next/prev | search order, parent links, balance factors equal to height differences in -1..1 |
| `binary-tree/new/rbtree` | root, per node left/right/parent and colour | link + insert_color, erase, next/prev/first/last, replace_node, augment callbacks, the wrapper's insert/search | search order, parent links, no red node with a red child, equal black heights |
| `memory-pool` | page bitmap, page heads, slab lists per size, per-slab chunk bitmap, list of used page runs, list of oversize blocks | create, alloc, free, destroy | live allocations do not overlap; the pool never believes to have pages that it has not; no call ends the program |
| `module/src` | per module a status and seven callbacks; a list of modules | init, run, change, stop, exit, run_status, destructor; register | init/exit and run/stop callbacks pair up |
| `bst-tree.h`, `avl-tree.h`, `binary-tree.h` | templates for search trees | insert, search, del | search order; the key that is searched is found and the one that is deleted is gone, with the data given out |
| `min-heap.h` | vector | insert, extract, min | heap order, one element per extract |
| `bloom_filter.cpp` | bit array | create, add, check | no false negative |
| `kmp.cpp` | - | prefix function | longest proper border of every prefix |

Components interact in two places only: ThreadPool calls SyncQueue (and its
callers' tasks call back into ThreadPool), and `rbwrap.c` calls `rbtree.c`.
Threads exist in the thread pool alone (`module.h` declares mutexes that nothing
locks); nothing is persisted, nothing is sent over a network.  What is hard is
therefore: in the thread pool, the order of lock sections, wakeups and stops of
several threads; elsewhere, long sequences of legal calls on pointer structures.

## Modules

| module | what it is |
|---|---|
| `SyncQueue` | the queue, one action per critical section |
| `FifoChannel` | what the queue promises: a closable bounded FIFO channel |
| `ThreadPool` | the pool; EXTENDS `SyncQueue` and conjoins the queue's actions with its own |
| `TaskExecutor` | what the pool promises the submitters of tasks |
| `MCSyncQueue`, `MCThreadPool` | model values and task bodies for TLC; `MCSyncQueue` has the history variable `batched` too |
| `SyncQueueProofs`, `ThreadPoolProofs` | theorems and their proofs |
| `OrderedSet` | what a search tree promises: a set with ordered queries |
| `AvlNodes` | nodes, rotations and `_balance_tree` of avltree.c |
| `AvlTree` | its calls, pass by pass; EXTENDS `AvlNodes`, implements `OrderedSet` |
| `AvlTreeProofs` | lemmas on rotations and rebalancing, the inductive invariants of `AvlTree`, and theorems on it |
| `RbTree` | rbtree.c and the insertion of rbwrap.c, pass by pass; implements `OrderedSet` |
| `RbAugment` | the augmentation calls with a client; EXTENDS `RbTree` and conjoins with its actions |
| `MCRbAugment` | keys for TLC |
| `RbLinksProofs` | lemmas: what rotating, linking, unlinking, splicing and replacing do to links and subtrees, and what walks through a tree return |
| `RbTreeProofs` | lemmas on colours and heights, the inductive invariant of `RbTree`, and theorems on it |
| `RbClientProofs` | theorems about queries and about the augmentation |
| `MemoryPool` | memory-pool.cpp: pages, slabs, chunks, blocks of malloc |
| `MCMemoryPool` | the clients of the pool for TLC |
| `MemoryPoolProofs` | the inductive invariant of `MemoryPool`, and theorems on it |
| `MinHeap` | min-heap.h |
| `Dictionary` | what a search tree with data promises |
| `BstTree` | bst-tree.h; implements `Dictionary` |
| `BloomFilter` | bloom_filter.cpp |
| `PrefixFunction` | kmp.cpp |
| `ModuleLifecycle` | `AppModuleConfigure` of module/src |
| `Collections` | the last three side by side |
| `MCCollections` | and the heap and the tree beside them, for one run |
| `CollectionsProofs` | theorems about `PrefixFunction`, `ModuleLifecycle` and `BloomFilter` |

## The thread pool

**SyncQueue.**  Every access that put, take and stop make to `m_queue` and
`m_needStop` is under `m_mutex`, and `condition_variable::wait` releases the
mutex in the same instant as the thread goes to sleep.  A critical section is
therefore one action: acquire the mutex, evaluate the wait predicate, and either
sleep (`PutBlock`, `TakeBlock`), return because of the stop flag (`PutRefused`,
`TakeRefused`), or do the work, notify and return (`PutAccepted`, `TakeList`,
`TakeOne`).  A thread that is woken is simply no longer in the set of sleepers
and evaluates the predicate again.  `stop()` sets the flag under the mutex and
notifies twice after releasing it, so it takes three actions.  `notify_one`
wakes an arbitrary sleeper, and a sleeper may wake spuriously.  A thread that
has made no call is `"idle"`; calls are made in any order by any thread.
`Items` are distinct and each is put once, which bounds a run and lets FIFO
order be stated; `taken` is a history variable.

Two facts of the code shape the properties.  `take(list)` frees every slot and
calls `notify_one` once, so with several sleeping producers only one is told:
`ProducerWakeup` and `NoStuckPutter` say what still holds, and
`PreciseProducerWakeup` holds for `take(t)` alone.  `MCSyncQueue` records in
`batched` whether `take(list)` has been called, and `PreciseUntilBatch` checks the
property until then.
And the capacity is an `int` compared with a `size_t`: the assumption
`m_maxSize > 0` is that of the only caller, which passes 100.

**ThreadPool.**  `loc[t]` is the place of a thread in the pool's code and
`pc[t]` its place in the queue's.  Clients submit tasks (`AddTask`), stop the
pool (`PoolStop`) and one of them, the owner, destroys it (`Destructor`), when
no other client is in a call on it, as the language requires of any object.
Workers loop: test `m_running`, take the whole queue as a batch, run the tasks
in order and test `m_running` before each.  A task is client code: it submits
the tasks in `Spawns`, waits for the futures in `Awaits`, and may call `stop()`
on its own pool (`Stops`); its exceptions end up in the future, like a result.
A future is `"broken"` when the closure that owns its promise is destroyed
before it ran: a refused put, the rest of a batch dropped by the `return` in the
loop, the queue destroyed with the pool.

`stop()` is `call_once` of `stop_thread_group()`.  While one caller runs it the
others wait (`OnceEnter`, `OnceSkip`).  `thread::join` throws when a worker joins
itself or a thread is no longer joinable; the exception leaves `call_once`,
which, as the standard says of an exceptional execution, resets the flag
(`JoinThrows`), and out of the destructor it terminates the program
(`pool = "aborted"`).  `list[w]` holds what worker `w` has still to run.

The hazards of this component and the properties on them are in
`PROJECT.json`.  The main ones: `TaskPlacement` (a pending task is in exactly
one of: the argument of a put, the queue, a batch, a worker), `StopJoins` (a
stop that returns normally has seen every worker leave, also for the caller
that merely waited in `call_once`), `AfterDestroy`, `StopExclusive`,
`ImplementsExecutor`, and `PendingOnlyIfExcused`.

`PendingOnlyIfExcused` does not exclude deadlocks, which the code allows its clients
to bring about; it says which they are.  A future stays pending for ever for four
reasons only: every worker of a running pool is blocked; the task was left in the
queue of a stopped pool; its worker, or the one whose batch it is in, is blocked; or the
destructor has terminated the program.  And a worker is blocked in four places only
(`BlockedWorker`): in `add_task()` on a full queue, in `get()`, in a `stop()` that
waits in `call_once` (for a thread that may be joining this very worker), and in a
`stop()` that joins another blocked worker.  The last two need a task that calls
`stop()`, and the run has one.

## The AVL tree

A tree is a record: its root and one function per field of `struct avl_node`.  A
node is named by its key, which is what `cmp_func` compares.  A single thread uses
the tree.  What a call does up to its loop is one action (`Insert`, `Remove`), and
every pass of the loop with which both functions end is one more: `Climb` for a
pass that goes on to the parent, `Stop` for the last.  Between two actions `pc` says
which of the two functions is in its loop, and `node` and `lean` are its locals
(`node` or `cur`, and `bf`).  The two loops differ only in when they go on
(`HeightChanged`) and to which side the parent then leans (`Lean`), and for both `pc`
is the parameter.  The operators keep the division of the C code: `RotateLL` ..
`RotateRL` and `BalanceTree` are `_rotate_LL` .. `_balance_tree`; `Settled` is the
assignment of its result to a field of the parent or to the root.

`TypeOK`, `SearchTree` and the second half of `Balanced` speak of every state, those
between two passes included; that the stored factors are the differences of the heights, and
`QueriesRight`, are for the states between two calls.

- The balance factor shares a word with the parent pointer.  `checked` becomes
  FALSE when a factor out of -1..1 is stored: that is what the assertion in
  `avl_set_bf` tests in a build with `__AVL_DEBUG`, and without it the factor would run over
  into the pointer (`Balanced` demands
  that it stays TRUE).
- The fields `prev` and `next` exist with `_AVL_NEXT_POINTER` only, and then
  `avl_next` reads them instead of climbing.  Both are modelled side by side:
  `QueriesRight` says that they agree.
- `Cleared` is what `avl_insert` writes into a new node.  After a removal the
  caller owns the node again and its fields are no longer looked at
  (`Forgotten`), so that states that differ in them only are one state.

## The red-black tree

Here too every pass of the descent, of
`rb_insert_color`, of the walk to the successor and of `__rb_erase_color` is an
action, and `node`, `up` and `old` are the C locals `node`, `parent` and `old`.
This is what makes the loop invariants statable.  `RedApart` names the one place
where a red node may have a red parent in each loop; `BlackHeights` the one place
that is a black node short; `NoNullDereference` says that what the code dereferences
untested is there: the grandparent of a node with a red parent, the sibling of the place that is
a black node short, and the sibling that takes its place after a rotation.

The C text has each case twice, mirrored.  Here the side is a parameter
(`Rotate(t, n, s)`, `LowSide`, `Opp`), and the map names both copies.  The C code
decides the side by one comparison with a child pointer, `SideOf` by one too; that
a node never is both children of its parent is part of `ParentLinks`.

Nodes and keys are apart: `Key` may give two nodes the same key, so that an
insertion can find its key present and `rb_replace_node` has a replacement.  A node
outside the tree is as `rb_init_node` leaves it, also after it has been erased,
when its owner may do with it what he likes.

`RbAugment` adds a client of `rb_augment_insert`, `rb_augment_erase_begin` and
`rb_augment_erase_end` that keeps the size of every subtree.  The client calls them
around the tree's own calls as their comments ask, and the climb of
`rb_augment_path` is one action per level.

## The memory pool

A call is an action, for one thread uses a pool.  Addresses are bytes from the
first page, so `b.at < 0` and `b.at > End(pool)` are the two comparisons that
`free` begins with, and a block of malloc may be on either side.  `pool` has the
fields of `mm_pool_s`; `pool.heads` is the array at `page_head_addr`, with an entry
for every page at which a slab was made and not yet overlaid by another one, so
that a stale pointer into it reads what the code would read.  `listed` is the
`slab_ptr` of the used list, which the code sets to null.  `ext` has the nodes of
`pool->ex`; a node that is freed leaves `ext` and may remain in the list.

Three simplifications follow from the code.  The used list is only its first
element, because the loop over it never advances.  The links between the slabs of
a size are written and never followed.  The contents of blocks are left out, also
where the zeroing of page heads (line 261) reaches behind their array.  Reading a freed
node, a null `slab_ptr` or dividing by 0 ends a behaviour (`status = "wild"`): the
language says nothing of what comes then.

The code does not stand all that its interface allows, and `strains` records what
of this the client has done: a `min_chunk` that is no power of two
(`"min_chunk"`), chunks that are more than an eighth of their slab or so small
that the assertion in line 328 fails (`"size"`), the release of the newest block of
malloc (`"newest ext"`), and releases of chunks (`"release"`) other than a single
one of the newest slab that does not empty it (`"once"`).  `GentleClientsSafe` says
that this list is complete, and each entry is needed: without it TLC finds
two blocks that overlap, an assertion that fails (with the default sizes a
request of 8 bytes does it), or a release that never returns.  `FreePagesKnown` holds for every client: the count of
free pages errs on the low side only, although slabs overlap, pages are given
back without being counted, and the last slab has a page too many.

## The small parts

`MinHeap`, `BstTree`, `BloomFilter`, `PrefixFunction` and `ModuleLifecycle` have
nothing to do with each other.  `MCCollections` has the variables of all five, and
`subject` says which of them moves, so that one run checks them.  Its steps are those of
`Collections`, which has the three parts without recursive operators and is what
the proofs are about, in conjunction with those of the heap and the tree.

- **MinHeap.** `extract` removes all elements equal to the last one.  `lost`
  becomes TRUE when there is such an element, and `HeapKeepsKeys` says that until then
  the heap has the keys it should have, in heap order.
- **BstTree.** A tree is a nested record and the operators recurse as the methods
  do.  What the results of the calls mean, `Dictionary` takes from the code.  The
  comment of `search()` (`bst-tree.h:75`) has TRUE for a failed search and FALSE for
  success, the reverse of what it returns: the run `SearchDoc` shows it.  `del()` has no
  documented result.  It returns TRUE only when the node had two children (273), and so
  also returns FALSE (276) for a leaf or a node with one child that it has removed.  The
  set of keys does not determine how many children a node has, but a least or a greatest
  key never has two: `Dictionary` has FALSE for every key that is absent, least or
  greatest, and either result for the others.
- **BloomFilter.** The hash functions are the caller's: `Funcs` has all pairs of
  functions from three strings to three hashes.  With size 0 the first `bloom_add`
  divides by zero.
- **PrefixFunction.** A step is a pass of the loop, so `PrefixRight` is its loop
  invariant.  `passes` bounds it: the loop ends, in linear time.
- **ModuleLifecycle.** `up` is what the module's own functions have set up,
  `status` what the manager believes.  They agree if the functions are called in
  order and `stop_` and `exit_` do not fail; `init_` and `run_` may.  The
  constructor initialises `stop_` with itself, so that its value is arbitrary.  The
  code as it stands does not compile: `module.h:23` uses `AppModuleConfigure` before it is
  declared, and `module_def.h:20-21` are typedefs of enumerations that are defined
  later, which C++ does not have.  The model is of the functions as they are written, as
  if these declarations were in order.

## Runs

Threads may legitimately all be blocked in `take()`, so runs in which nobody has
to stop the pool say `CHECK_DEADLOCK FALSE`; `PoolStop` checks deadlock.

| run | instance | shows |
|---|---|---|
| `SyncQueue` | 3 threads, 4 items, capacity 2, both `take` forms, fair | type, capacity, no lost wakeup, no sleeper missed by stop, every free slot has an awake producer until `take(list)` is called; the queue implements `FifoChannel`; stop releases all; nothing stuck |
| `PoolSafety` | 2 workers, 2 clients, 4 tasks, capacity 2, a task that submits and awaits another, one that calls `stop()` | placement of tasks, refinement of `TaskExecutor`, exclusion of stops, joins, destruction |
| `PoolStop` | 5 tasks, two of which submit another, capacity 1, fair, deadlock checked | `stop()` and the destructor return, also when both workers block on a full queue |
| `PoolAwaits` | as `PoolSafety`, fair | futures stay pending for ever for the four stated reasons only |
| `PoolStopOnce` | 3 tasks without nesting, one calls `stop()` | violation: a stop from a task makes `stop_thread_group()` run again |
| `PoolStopHangs` | 3 tasks, one submits and awaits another, fair | violation: a worker that awaits a task left in the stopped queue never exits |
| `AvlTree` | 12 keys | links and order between any two passes, balance factors equal to height differences after every call, no factor out of range ever stored; searches, traversal in both builds, refinement of `OrderedSet`, in which a pass of the loop changes nothing |
| `RbTree` | 10 nodes with 10 keys, with the client of the augmentation | the loop invariants above, links, order, types of the locals; the client's values are right after every call |
| `RbSet` | 8 nodes with 7 keys, the same client, fair | search, traversal, refinement of `OrderedSet`, also when the key is present and when nodes are replaced; every call returns |
| `MemoryPool` | 7 clients (sizes, requests, bounds on blocks and releases), 4 places for malloc | the free pages are never overcounted; a gentle client is safe |
| `Collections` | heap: 6 elements of 4 keys; tree: 5 keys, 2 data; filter: 5 sizes, up to 2 hash functions on 3 strings; patterns of up to 6 of 3 letters; a module with failing functions | the five properties above |
| `SearchDoc` | the tree of `Collections` | violation: `search()` returns TRUE when it has found the key, and its comment says FALSE |

Bounds.  Capacity 2 with 3 threads has two producers asleep on a full buffer
before a batch of two is taken, and two consumers asleep before two puts; for
any number of threads the invariants are proved; with capacity 1 and five
tasks, two running, two being submitted and one in the queue, both workers block.  Two workers and two clients give every pair of
roles: two concurrent stops, a stop by a client and one by a task, a stop
against the destructor.  Three tasks allow a batch of two behind a running task;
the fourth lets clients fill the queue and block on it.  Twelve nodes are the
least an AVL tree needs to have height 5, and so the least for a removal that
rotates at two levels of the climb.  With ten keys `__rb_erase_color` passes the
deficit on to an inner node and then rotates; with nine it never does.  That a
red sibling is met after passing the deficit on needs more keys than a run of a
few minutes can have.  The clients of the memory pool are listed with their
purpose in `MCMemoryPool`: one fills all 32 pages with slabs of two, one asks for so
much that half of it has to do, one has slabs of two chunks (8192 bytes by 512, of which
the code counts an eighth) and gives back enough of them for the index to go astray, and one takes blocks of malloc on both sides
of the pool.  Six elements give the heap three levels and equal keys in different
subtrees; five keys give the search tree every shape in which the greatest node on the left
has a left subtree and a parent of its own.

Fairness.  In the pool, weak fairness of each thread's own steps: a runnable thread runs, and
gets the mutex when it wants it (the critical sections are finite).  No thread is
obliged to make a call, no spurious wakeup has to come, and no fairness of
`notify_one`'s choice is assumed.  Once an exception out of the destructor has
terminated the program, nothing has to run.  In the pool the bodies of tasks are steps of
their worker: a task that does not wait for another one ends.  `RbSet` assumes
that the one thread goes on with a call it has begun.

## Proofs

`SyncQueueProofs` proves, for any finite set of threads, any items, any capacity
greater than 0 and any subset of the two `take` forms: `Typed`, `Bounded`,
`StopMissesNoSleeper`, `NoLostConsumerWakeup`, `NoLostProducerWakeup`,
`NoLostSlot` (under `TakeForms = {"take_one"}`) and `RefinesChannel`.  Each of
the invariants is inductive together with `TypeOK`; the wakeup invariants count
threads, so they rest on lemmas about the cardinality of the awake takers and
putters when one thread starts, sleeps, wakes or returns.  The refinement rests on
`ArgumentsFresh`: an element that is being put is neither buffered nor taken.

`ThreadPoolProofs` starts from `PoolStepIsQueueStep`: every step of the pool is a
step of the queue or leaves the queue alone, so (`QueueInPool`) all that is
proved of the queue holds inside the pool.  The inductive invariant `PoolInv` is
the conjunction of `PoolTyped` (types, agreement of `loc` with `pc` and with
`cur`), `StopExclusive`, `StartupInv` (which workers exist while the constructor
runs, and that the group holds exactly the created ones until it is cleared),
`JoinInv` (behind the position of the join loop everybody has exited and is
joined, `m_flag = "done"` only when all have) and `DestructorInv` (who may be
where once the destructor has begun).  `JoinInv` is needed because `StopJoins`
and `AfterDestroy` speak of a caller that only waited in `call_once`: what it can
conclude from `m_flag = "done"` has to be carried by the invariant.  One lemma per
action shows that it preserves `PoolInv`.  `TasksPlaced` adds the placement
invariant, proved the same way; `RefinesExecutor` uses both.

`AvlTreeProofs` begins with the part of the AVL tree in which the arithmetic is.
`LLBalanceExact` and `RRBalanceExact`: the factors that `_rotate_LL` and
`_rotate_RR` compute from two factors and the presence of two children are those
that the heights imply, for all heights.  `BalanceTreeRebalances`: a subtree, given
by any set of nodes and any height function that fits its links (`Measured`), whose
two children are AVL trees and whose root leans by at most 2 becomes, by
`BalanceTree`, an AVL tree of the same nodes, hung where it was, with every factor
right, nothing outside touched and `checked` still true.  `InsertionStops` and
`RemovalStops`: the comparison of two factors with which the loops decide whether to
go on is TRUE exactly if the height of the subtree has changed.  Together they
are one pass of the climb, and the rest of the module is built on them.

**The AVL tree** is then proved as a whole, for any finite set of nodes:
`TypeOK`, `SearchTree`, `Balanced`, `QueriesRight` and `ImplementsSet`, so every property of its run.
There are two inductive invariants.

- `LinksInv`: the tree is `Ordered`, `pc` and `lean` have their types and `node` is in the tree
  during a call.  `Ordered` says that the links upwards and downwards agree and that there is a map from
  nodes to the sets of nodes below them, in search order (`Grown`), and that `next`
  and `prev` of every node are its neighbours in the set (`Threaded`).  An AVL tree has the
  links of a red-black tree without its colours, so the module instantiates
  `RbLinksProofs` on a view of it (`View`) and takes from there what a
  rotation, a new leaf, an unlinking and an exchange do to such a map.  What is
  shown here is that `RotateLL`, .., `ReplaceBySuccessor` and `ReplaceByLeft` are
  those operations, field by field, including the order in which `avl_remove` reads
  and writes the links when the successor is the right child of the node and when it is not.
- `HeightInv`: there is a function `hv` from nodes to heights such that every node but
  `node` stores the difference of the heights of its subtrees and is as high as
  they make it (`Believes`), and at `node` one subtree has grown or shrunk by one,
  on the side that `lean` says, while `hv` still has the height from before
  (`Awaits`).  It is what makes `lean` right: the loop never measures a height, it compares two
  stored factors, which `InsertionStops` and `RemovalStops` turn into a statement about heights.
  The case that makes the induction delicate is `Grew`: in an insertion the child that
  has grown either leans or is the new leaf, for otherwise a double
  rotation would leave a wrong factor.

`AvlBalanced` and `AvlSearchTree` then show that the recursive functions of the
properties, `Height` and `Under`, are the `hv` and the map of the invariants.

**The red-black tree** is proved as a whole: for any finite set of nodes and any
keys, `TypeOK`, `ParentLinks`, `SearchOrder`, `RedApart`, `BlackHeights`,
`NoNullDereference`, `ImplementsSet`, `QueriesRight` and `Augmented`; of its
properties only `CallsReturn`, a liveness property, stays with TLC.

The inductive invariant `RbInv` says that there are a map `b` and a function `h`
such that

- `Grown(tree, b)`: the fields have their types, the links agree (`Joined`), and
  `b` maps every node to the set of the nodes of its subtree (`Spanned`): the root to
  all nodes in the tree, a node to itself and the disjoint sets of its children, whose
  keys are on their sides of its own;
- `Level(tree, h, ...)`: `h` fits as a black height along every link, but for the
  one place that is a black node short;
- `Apart(tree, ...)`: no red node has a red parent, but for the one the loop says;
- and, one case per value of `pc`, which exceptions there are and where the locals
  point to: `Descended`, `Inserting`, `Succeeds`, `Erasing`.

`b` and `h` are bound by an existential quantifier, where the properties have recursive functions
(`Below`, and the heights of `BlackHeights`).  An action changes the tree at a few nodes
and the new `b` and `h` can be written down from the old ones (`TurnedSpan`,
`UnlinkedGrown`, `PlacedGrown`); a recursive function would have to be unfolded along a
path of unknown length.  That the recursive functions of the properties are
those of the invariant is proved once, about trees, by taking a smallest or a largest
subtree in which they would differ (`TreeMin`, `TreeMax`, which rest on the finiteness of
`Nodes`).  In the same way `RbQueriesRight` gets at the loops of `rbwrap_search`,
`rb_first` and `rb_next`: `SearchIs`, `OutermostIs` and `ClimbIs` say what they
return in a tree of any shape.

`RbLinksProofs` describes the tree after each helper of the code field by field
(`Turned` after a rotation, `Leafed`, `Unlinked`, `Placing`) and then shows that
`Grown` holds of it; `RbTreeProofs` does the same for heights and colours, and
has one lemma per case of the C code (`InsertOuterStep`,
`InsertInnerStep`, `LevelledStep`, `OuterNephewStep`, ...), and then one per action.  The
refinement maps the state to the set of the keys in the tree, which `Placed` and the
uniqueness of keys in `Spanned` give; during a call the key that is removed
leaves at the moment the node does.

`AugmentedRefines` carries all of this over to `AugmentedSpec`, which is what the runs
check: the client's steps are steps of `Spec` or leave the tree alone.
`RbAugmented` needs an invariant of its own, `AugInv`: between two passes the
values that may be wrong are those on the way from the node `start` to the
root (`Line`) and, once a rotation has moved them, of the nodes next to it (`Path`), which is
what `rb_augment_path` recomputes.  The delicate part is that `start` is chosen
before the erasure: `UnlinkedSized` and `SplicedSized` show that it is on the
way of everything the unlinking touches, `LevelledSized`, `OuterNephewSized` and
`EraseRotateSized` that the rotations make values wrong only next to that way.

**The memory pool.**  `MemoryPoolProofs` proves `FreePagesKnown` and
`GentleClientsSafe`, the two properties of the run, for any set of clients, any sizes
of pools, slabs and requests up to the bounds below, and any number of requests and releases.
`MemoryInv`, the inductive invariant, has three parts.

- `CountInv`, for every client: no more pages are counted as free than are clear in
  the map, also after the slab at the head of the used list is given back (`Counted`), which
  clears its pages and counts those that are behind the end of the pool.
- `NoneInv`: before the pool is created there are no blocks.
- `GentleInv`, for a client whose strains are none or `"once"`: the program goes on, and
  `GentlePool`, `Held` and `Chained` hold.  `GentlePool` says that the sizes are powers of two
  (`Regular`); that slabs have one or two pages which no other slab has (`Apart`); that
  their chunks, and the place behind the last one, are in the first of these pages, and are
  taken in order but for the one that was given back (`Cut`); and that two free pages in a row are
  behind all that are in use, so that at most one page is ever lost to the count
  (`Packed`).  `Held` says that every block is a chunk in use or a block of malloc, and no two are
  at the same place; `Chained` that the list `pool->ex` leads through the nodes of malloc and ends.

The argument is that a slab begins late, at the last page of the run that was found, and
yet does no harm with a gentle client: its chunks fill an eighth of it at
most, and so lie in its first page; and the second page that it takes behind the run is free or
behind the pool, which is what `Packed` is for.  `FirstFit` says where `_alloc_slab` finds the run.  Each action
has its lemmas, and `AllocAborts` is shown to be impossible.
`RoundUpPower` is about `ROUND_UP`: with a power of two it gives the least multiple
that is not below its argument.  `&` and `~` are a recursive function over the bits
(`AndNot`), whose few values the proof follows one after the other.

**Three of the small parts** are proved in `CollectionsProofs`.  `PrefixCorrect` has the
loop invariant of `prefix_t` (`PrefixInv`): what was written is right, `len` is a
border of what was read, every longer border was tried and does not go on with
the letter at `i`, and each pass is paid for by a letter or by the length of `len`.  It needs
that a border of a border is a border (`BorderOfBorder`) and that a border of `i + 1` letters
is one of `i` letters that goes on (`BorderStep`); no induction over data is needed, as the
loop is the induction.  `StatusCorrect` shows that the status of a module
tells which functions were called and not undone, for every order of calls; the
excuses of `StatusTells` are part of its invariant, because they are never taken back.
`BloomCorrect` holds for any size, also 0 and sizes that are no multiple of the bits of
a byte, and any number of any hash functions (`CollectionsAssumption`:
sizes and hashes are natural numbers, as `size_t` and `unsigned int` are).

The assumptions are `SyncQueueAssumption`, `ThreadPoolAssumption`,
`AvlNodesAssumption` (null is not a node, keys are positive numbers), `AvlTreeAssumption` (there are
finitely many nodes), `RbTreeAssumption` (the same of the nodes and keys of the red-black tree),
`CollectionsAssumption` and `MemoryPoolAssumption` (the least and the greatest size of chunks are at most 2^17,
the size of the pool and of a request at most 2^18, so that no sum that is rounded has more than
the 19 bits of `AndNot`; numbers of calls and `MaxExt` are natural numbers); TLC evaluates them in the runs of their modules.  What is
model-checked only:

- liveness (`StopReleases`, `NoStuck...`, `StopTerminates`, `PendingOnlyIfExcused`,
  `CallsReturn`), which needs fairness and ENABLED, and these the prover does not handle;
- `HeapKeepsKeys` and `ImplementsDictionary`: `MinHeap` and `BstTree` are written with
  recursive operators, about which the prover knows nothing.

## Not modelled

- `SyncQueue::count()` reads the size without the mutex and is called by nobody; it
  changes no state.  A thread that cannot be created (`std::thread` throws in
  `start()`) ends the program.
- `binary-tree/avl-tree.h`: `del()` refers to an undeclared name and cannot be
  compiled, so that there is no behaviour to model (and `l_rotate` assigns
  `rchild` where it would have to assign `lchild`).  The C implementation is modelled.
- `AppModule`: of its eleven operations four are defined, and two of these do
  nothing or lack their return statement.
- Of `BstTree`: the move constructor and the functions with empty bodies.
- `bplustree-db` has declarations only.  The `main()` functions, benchmark, debug
  printers and empty directories hold no behaviour to check.

## Plan

1. (done) SyncQueue, ThreadPool, their abstract specifications, runs, proofs.
2. (done) `AvlNodes`, `AvlTree`, `OrderedSet`; proofs about rotations and rebalancing.
3. (done) `RbTree`, `RbAugment`; runs.
4. (done) `MemoryPool`, with the clients that it stands.
5. (done) `ModuleLifecycle`.
6. (done) `MinHeap`, `BstTree` with `Dictionary`, `BloomFilter`, `PrefixFunction`.
7. (done) Proofs about `RbTree` and `RbAugment`: every safety property of the runs.
8. (done) The AVL tree as a whole, with `BalanceTreeRebalances` as one pass of the climb and
   the subtree maps of `RbLinksProofs` for its links and its search order.
9. (done) Proofs of `PrefixRight` as a loop invariant, of `StatusTells` and `BloomRight`.
10. (done) Proofs of both properties of `MemoryPool`, with lemmas about `RoundUp`.
