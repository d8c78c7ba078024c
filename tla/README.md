# A TLA+ verification development for Code-Collect

Code-Collect is a collection: next to a library of POSIX threads for Windows
it keeps vendored releases of other projects (log4cxx, APR, OpenPano), image
processing experiments in C++ and Matlab, and pre-built binaries. The one part
with a concurrent core of its own is the library, pthreads-win32, in
`src/pthreads/pthreads.2`. This development is about that library: how it builds
mutexes, semaphores, condition variables, barriers, read-write locks, spin locks
and `pthread_once` from interlocked operations and Win32 events and semaphores,
how threads live, are canceled and leave structures that are used again, and how
thread-specific data is taken down.

Paths below are relative to `src/pthreads/pthreads.2` unless they begin with `src/`.

1. Inventory
2. Modules, and how they correspond to the code
3. Runs, bounds and fairness
4. Proofs
5. Findings
6. Noted while modelling
7. What is not modelled

## 1. Inventory

Everything is shared memory: a call of a POSIX function runs in the caller's
thread, on an object that other threads use at the same time. Components call
each other directly; there are no messages, no persistent state and no process
that restarts. What is hard is the order in which the steps of several calls
interleave, and what a timeout, a cancelation or the end of a thread leaves
behind in the middle of a call.

| Component | State | Operations | Uses | Hard behaviour | What makes it correct |
|---|---|---|---|---|---|
| MCS queue lock (`ptw32_MCS_lock.c`) | lock word (last node), per node `next`, `nextFlag`, `readyFlag` | acquire, try_acquire, release, node_transfer | interlocked exchange, events | a successor that has queued but not linked itself; flags that are set while somebody publishes an event in them; reuse of nodes in stack frames | one owner, first come first served, every claim served, no handoff lost |
| Mutex, non-robust (`pthread_mutex_*.c`) | `lock_idx` (0, 1, -1), `event`, `ownerThread`, `recursive_count` | lock, trylock, timedlock, unlock, destroy | one auto-reset event | new attempts overwrite -1; timeouts race with SetEvent; owner and count are read without the lock | one owner, no lost wakeup, owner and count right |
| Mutex, robust (same files, `pthread_mutex_consistent.c`, `pthread_win32_attach_detach_np.c`) | the same, `stateInconsistent`, the thread's list of robust mutexes | the same, consistent, end of an owner | MCS lock of the list | an owner ends at any point between calls; several candidates to inherit; a state that is checked and then stale | death reported to exactly one heir, which alone decides the mutex's fate |
| Semaphore (`sem_*.c`, `ptw32_semwait.c`) | `value` (or minus the waiters), Win32 semaphore `sem` | wait, timedwait, trywait, post, post_multiple, destroy, non-cancelable wait | mutex `lock`, Win32 semaphore | a post between a timeout or cancelation and its cleanup | every waiter counted once, no unit lost or made up |
| Condition variable (`pthread_cond_*.c`) | `nWaitersBlocked`, `nWaitersGone`, `nWaitersToUnblock`, semaphores `semBlockLock` (gate), `semBlockQueue`, mutex `mtxUnblockLock` | wait, timedwait, signal, broadcast, destroy | semaphore, mutex | a late waiter that steals a wakeup; waiters that give up while they are being unblocked; the limit of the gone count | counters count, the gate has one key, a broadcast reaches all, destroy touches nothing in use |
| Barrier (`pthread_barrier_*.c`) | height counter, semaphore, MCS lock and proxy node | wait, destroy | MCS lock, semaphore | the next group arrives while the last one leaves, on one counter | groups do not mix, one serial thread, all leave |
| Once (`pthread_once.c`) | `done`, MCS lock | pthread_once | MCS lock, cleanup handlers | `done` read outside the lock; cancelation in the init routine | the routine completes once, before anybody returns |
| Read-write lock (`pthread_rwlock_*.c`, `ptw32_rwlock_cancelwrwait.c`) | three counts, two mutexes, a condition variable | rdlock, wrlock, their try and timed forms, unlock, destroy | mutex, condition variable | a writer that gives up while the last reader signals; a count read without a mutex; INT_MAX | a writer is alone, counts right, a waiting writer gets out |
| Spin lock (`pthread_spin_*.c`) | `*lock`, its object: an interlock word, or a mutex on one processor | init, lock, trylock, unlock, destroy | mutex, test-init lock | `*lock` is read several times without a lock | one owner, which has locked what `*lock` points to |
| Static initialisation (`ptw32_*_check_need_init.c`) | the handle, global test-init locks | first use, destroy | MCS lock | several first users against each other and against destroy | one object, and none after destroy; modelled with the spin lock |
| Thread life cycle (`create.c`, `pthread_join.c`, `pthread_detach.c`, `ptw32_new.c`, `ptw32_reuse.c`, ...) | thread structures, reuse list and counters, states | create, exit, join, detach, kill | MCS locks | a stale handle meets a structure that is used again; detach against the thread's own end | a structure is destroyed once, a join finds its own thread, structures come back |
| Cancelation (`pthread_cancel.c`, ...) | state, type, cancel event of a thread | cancel, testcancel, set state and type | MCS lock of the thread | a request against the start, the waits and the end of its thread | `pthread_testcancel` and the waits see the same requests; a request that is not turned away ends the thread |
| Thread-specific data (`pthread_key_*.c`, `ptw32_tkAssoc*.c`, `ptw32_callUserDestroyRoutines.c`) | associations in two chains each | key create and delete, setspecific, destructors | MCS locks of key and thread, taken in both orders | key deletion against the end of a thread; destructors that use keys | nothing left behind, no freed key used, every end comes to its end |
| Attributes, scheduling, time, process set-up | plain fields | getters, setters | Win32 | none | not modelled |
| OLL lock, QueueUserAPCEx, pre-built library, log4cxx/APR, OpenPano, blob and Matlab code | - | - | - | third-party, experimental, numerical | not modelled |

Who builds on whom:

```
interlocked ops, events ── MCSLock ── Barrier, Once, robust lists, Thread, Keys,
                        │             static initialisation (Spin)
                        └─ Mutex ──── Semaphore ── CondVar ── RWLock
                              └─ Spin     └─────── Barrier
```

## 2. Modules, and how they correspond to the code

Every action is the code between two points at which another thread can see a
difference. In the two modules at the bottom (`MCSLock`, `Mutex`, also
`RobustMutex`) that is one interlocked operation, one access to a shared field
or one event call. Above them, what is done under a lock without waiting is one
step, because the module of that lock shows that it excludes; reads and writes
outside of the lock remain steps of their own. A call that fails at once and
changes nothing is left out, or is a disjunct with a comment that names the
error. `pc` is where a thread is. A history variable is marked as such where it
is declared; a guard reads one only to say what the application does (only a
thread that has locked unlocks, recursion is bounded) and, in `RWLock`, to end
the calls after `abandoned`; `fault` in `Thread` and `Spin` ends the model where
what happens next is undefined. Operators whose comment begins with "Wrong variant" are
faulty forms of the definition after them; no specification uses them.

`PROJECT.json` maps every definition to its lines.

### MCSLock, FifoLock

`MCSLock` is `ptw32_MCS_lock.c` in full. Thread t's node is named t, the
barrier's `proxynode` is `Proxy`. `lock`, `next`, `flag` and `signaled` are
memory; `pred`, `succ`, `node` are the locals of the functions. A flag is `Zero`,
`Set` (-1) or `Event` (a handle). `ptw32_mcs_flag_wait` is two steps
(`FlagWaitCas`, `FlagWaitEvent`), so is `ptw32_mcs_flag_set` when it finds an
event. `queue` is the history of exchanges that the pointers encode.
`ptw32_mcs_node_transfer` (`Transfer`, `TransferLink`) gives the place of the
owner to `Proxy`, through which any thread may then release, as the last thread
to leave a barrier does. `recycled` records that a node was used again before a
late successor had finished `ptw32_mcs_flag_set` on it.

`FifoLock` is what the callers rely on: an owner, and claims that wait in order.
`MCSLock` implements it with `owner` the holder's node and `waiting` the rest of
`queue` (`ImplementsFifo`). `Barrier` and `Once` represent an MCS lock by its
owner.

### Control

What `Mutex`, `Once`, `Spin` and `Keys` have in common: the threads, `NULL`, and the
points `pc` where the threads are. The four modules keep different names for the rest
(`Init`, `SInit`, `OInit`, `KInit` and so on), so that one module can hold the proofs about
all of them.

### Mutex

The non-robust branches of `pthread_mutex_lock`, `_trylock`, `_timedlock` and
`_unlock`, for `NORMAL`, `RECURSIVE` and `ERRORCHECK`. `Lock` is the first
interlocked operation (an exchange for `NORMAL`, a compare-and-exchange for the
others), `CheckOwner` the unlocked look at `ownerThread`, `Exchange` the head of
the loop, `Woken` and `Timeout` the wait, `SetOwner` the assignments after
acquisition, `UnlockExchange` and `Wake` the two halves of the unlock. `depth` is
the number of locks a thread holds. Only the owner unlocks a `NORMAL` mutex, and
it does not lock it again without a time limit; any thread may try to unlock the
checking kinds. Initialised by `pthread_mutex_init` as a dynamic mutex.

### RobustMutex

The robust branches of the same functions on one mutex, with
`pthread_mutex_consistent` and what `pthread_win32_thread_detach_np` does for a
thread that ends: `Exit`, `MarkDead` and the wakeup after it. `state` is `stateInconsistent`;
an heir takes over in `Inherit`. `robustMxList[t]` says whether the mutex is in
t's list. `heir` is the last thread that was told `EOWNERDEAD`.

### SemOps, Semaphore

`SemOps` has the arithmetic of the critical sections of the `sem_*` functions as
operators on `[value, sem]`; `Semaphore`, `CondVar` and `Barrier` share it.
`SettledByWait` is the cleanup of `sem_wait` as it is written: it is given `s`
where it expects `sem`, and its test for a destroyed semaphore tests `s->value`.
`Semaphore` has the calls, the wait on the Win32 semaphore, timeouts,
cancelations with their cleanups as separate steps (the post may come in
between), and `sem_destroy`, after which nothing is enabled: what a thread still
inside would do is undefined. `tokens` counts what posts brought and waits took,
`skipped` the cleanups of `sem_wait` that did nothing.

### CondVar

`ptw32_cond_timedwait`, `ptw32_cond_wait_cleanup`, `ptw32_cond_unblock` and
`pthread_cond_destroy` on one condition variable with one application mutex.
Four calls wait at the gate (`enter`, `gone`, `signal`, `destroy`), with one pair
of actions `GateWait`, `GatePass`. A waiter leaves the queue by a post
(`Awake`), or gives up by timeout or cancelation (`GiveUp`, `Late`), and runs
`Cleanup` in every case. A thread that has been canceled and has run its cleanup
is back at `idle`, as a new thread. `GoneLimit` is `INT_MAX / 2`. `due` is the set of
threads that a broadcast has yet to unblock, `lostKeys` the units of the gate
that were taken away by a cancelation.

### Barrier, BarrierSpec

`Barrier` is `pthread_barrier_wait` and `_destroy`; the lock is its owner, a
thread or `Proxy`. The test of `*barrier` (`Call`, `CallDestroy`) comes before the
lock (`Acquire`, `TryAcquire`), and a caller that a destroy overtakes in between
("acquire", "try") has no further step: what it does to memory that may be freed is
undefined. `Leave` is the interlocked increment; a thread that is not the last one
still reads `b->nInitialBarrierHeight` (`Compare`), out of freed memory if a destroy
was quicker, and `result` is then "undefined". `BarrierSpec` is the promise: groups of `Height` gather and
leave, the next group begins when all have left, and the last to leave gets
`PTHREAD_BARRIER_SERIAL_THREAD`. The refinement maps `arrived` to the threads that
have counted themselves in an incomplete group, `released` to those of a
complete one (`Draining`); a thread that is about to compare has left already and
its result is 0, and an undefined result is not promised (`resultBar`).

### Once

`pthread_once`, the read of `done` outside the lock (`Call`), the second look
inside (`Recheck`), the routine that returns or is canceled, and the handler
that releases the lock.

### RWLock

All locking functions, unlock, `ptw32_rwlock_cancelwrwait` and destroy. A reader
is one step (`Read`) because everything it touches is guarded by
`mtxExclusiveAccess`, except when the count reaches `INT_MAX`. `LockShared` is a
writer with both mutexes; `Relock` the loop around `pthread_cond_wait`, woken by
the last reader (`Completed`) or by a leftover signal (`Spurious`). `GiveUp` and
`CancelWrWait` are the timeout and the cancelation. The increment of the completed
count is two steps, since a timeout at `INT_MAX` increments it without its mutex
(`Abandon`). int wraps around. The application does not lock while somebody
destroys, and a thread holds one lock at a time.

### Spin

The five calls on one `pthread_spinlock_t`. `*lock` is the initialiser, `NULL` or
an object; each unlocked read of it is a step (`CallLock`, `TestInitializer`, `Read`;
`Destroy`, `DestroyRead`), and what is done under
`ptw32_spinlock_test_init_lock` is one (`NeedInit`, `DestroyStatic`). An object
is a lock word, or a mutex on one processor. `fault` is "null" when a destroy came
between two reads, "late" when a destroy that was called for the initialiser finds
the object of a first user. The initialisation of static mutexes, condition variables
and read-write locks is the same text with other names.

### Thread

`tp[p]` is a thread structure, a handle a pair of a structure and the value of its
reuse counter, as `pthread_t` is. `New`, `Launch`, `LaunchFails` are
`pthread_create`; `Push` is `ptw32_threadDestroy` with `ptw32_threadReusePush`;
`Join`, `JoinReady`, `DetachJoined` and `DetachDestroy` are `pthread_join`, which
ends with the code of `pthread_detach`. `CancelCheck`, `CancelLock`, then `CancelAsync` or
`CancelMark` and `CancelSet`, are `pthread_cancel`: the check of the handle, the tests
under the lock, and the suspension or the writes are apart, because a thread writes
`PThreadStateExiting` without its lock, `pthread_testcancel` reads the state
without it and the waits wait for the event. From `Start` to `End` a thread is
`ptw32_threadStart`, its routine, `ptw32_throw` and
`pthread_win32_thread_detach_np`. Callers use any handle that they ever got. Only
two joins or detaches of one handle at a time are excluded: that
is the application's obligation (section 6).

### Keys

`keys[t]` and `threads[k]` are the two chains of associations of
`ptw32_tkAssocCreate`, newest first. `Set`, `SetLock`, `SetAssoc` are
`pthread_setspecific`, `Delete` to `DelFree` `pthread_key_delete`, `End` to
`DestructorReturns` `ptw32_callUserDestroyRoutines` with its passes, its
`try_acquire` of `keyLock` and its retry. `Without` unlinks one node, `Follower` is the
node that comes after it. A destructor is the point at which the ending
thread may use keys again. `Broken` holds when `pthread_key_delete` is about to
go on without `keyLock` (section 5); there the model ends, and the run
`Keys_delete` shows it.

## 3. Runs, bounds and fairness

States and times are of one machine with two workers.

| Run | Bounds | States | Shows |
|---|---|---|---|
| `MCSLock` | 3 threads, Proxy | 725,000 | inductive invariant, exclusion, handoffs, FIFO refinement, every claim served |
| `Mutex` | 3 threads, 3 kinds, depth 2 | 29,000 | exclusion, no lost wakeup, owner recorded, calls drain |
| `RobustMutex` | 3 threads, 3 kinds, all functions, depth 2, symmetric | 337,000 | exclusion across deaths, one report, only an heir gives up |
| `Semaphore` | 4 threads, SEM_VALUE_MAX 2, counts to 3 | 49,000 | accounting, conservation, posts serve waits |
| `CondVar` | 3 threads, GoneLimit 2, MaxExcess 1 | 158,000 | counters, one key, broadcast, safe destroy, gate reopens |
| `Barrier` | 4 threads, height 3 | 72,000 | refinement of BarrierSpec, no group destroyed, groups leave |
| `Once` | 4 threads | 1,000 | once, and before any return; calls end |
| `RWLock` | 3 threads, INT_MAX 4 | 27,000 | exclusion, counts, safe destroy, writers get out |
| `Spin` | 3 threads, 2 objects | 171,000 | one owner, one object, no use after destroy |
| `Thread` | 2 callers, 1 structure, counter to 1 | 42,000 | one destroyer, sound joins, requests seen and acted on, structures come back |
| `Keys` | 2 threads, 2 keys, Iterations 1 | 713,000 | pointers of an ending thread, clean ends, no freed key, everything ends |
| `Keys_delete` | as `Keys` | - | the finding of section 5 |

Why the bounds are enough for the cases of interest:

- **MCSLock, 3 threads.** An owner, a waiter that is linking itself, and a third
  behind it: every pair of neighbours in the queue is in every combination of
  their points, and the queue outgrows any one handoff. Proxy makes four nodes.
  All threads use their nodes again and again, so stale flags are covered.
- **Mutex, 3 threads.** An owner, a sleeper and a new attempt that overwrites -1;
  the safety properties are proved for every set of threads (section 4). Depth 2
  is the first at which an unlock of a recursive mutex is not the last one.
- **RobustMutex, 3 threads.** One dies, one inherits, one sleeps. Threads that
  have ended stay so.
- **Semaphore, 4 threads.** Two units at most, so that there can be waiters, a
  poster and a semaphore at its limit; a count of 3 exceeds the limit and the
  number of waiters. Safety is proved for all values.
- **CondVar, 3 threads.** A signaler that has returned can be the late waiter
  that a gate is there to keep out. `GoneLimit` 2 makes the limit reachable with
  two waiters that give up. `MaxExcess` bounds posts that no waiter is left to
  take: one such post already gives a needless wakeup to a later waiter.
- **Barrier, 4 threads and height 3.** A thread has yet to compare while the three
  others form the next group and complete it, and a thread too many queues at the
  lock or destroys. Height 3 has a first, a middle and a last thread on both ways.
  The same properties also hold for 4 threads and height 2.
- **RWLock, 3 threads and INT_MAX 4.** Two readers and a writer, and a count that
  reaches `INT_MAX` by completed readers alone, as the real one does: the module
  assumes fewer threads than `INT_MAX`. The same properties were also found to
  hold for 4 threads and `INT_MAX` 5 (585,000 states).

- **Spin, 3 threads and 2 objects.** Two first users and a destroyer, and an object
  that is allocated again after it was freed.
- **Thread, one structure.** All that makes handles hard happens to one structure
  that is used twice: a stale handle, a thread that ends while it is joined,
  detached or canceled. The same properties were found to hold with the counter up to 2
  (383,000 states) and with 3 callers (285,000).
- **Keys, 2 threads and 2 keys.** Each chain has a first and a second element, an
  ending thread and one that deletes a key meet in both, and a destructor works on the
  key that comes next. `Iterations` 1 makes the limit of the passes reachable.

A type invariant that is not an invariant of its run (`RWLock`, `CondVar`,
`Thread`) was checked on the same instance.

`CHECK_DEADLOCK FALSE` appears where a model really ends: an object is destroyed,
all threads have ended or were canceled, the process faults, the gate has
lost its key, a counter has reached its bound, or a deletion hangs. `Mutex` is
checked for deadlock.

Fairness, and why the code justifies it:

- `WF_vars(Step(t))` in every module: a thread inside a call is scheduled. A wait on
  an event or a semaphore is enabled only while it is signaled, so weak
  fairness asks nothing when others keep taking the signal away.
- `Mutex`: `WF` of `Timeout` (time passes) and `SF` of `OwnerUnlocks`: an owner
  unlocks sooner or later, between its other calls. `Drains` only claims that calls return once
  no new attempts are made: with endless attempts a sleeper may starve, since
  each attempt may replace -1 by 1 just before an unlock.
- `MCSLock`: an owner releases (`Release` is one of the steps). No strong fairness.
- `CondVar`: `WF` of the application's `Unlock` and `SF` of `Relock`: the mutex is given to a
  waiter in the end. `pthread_mutex_lock` promises that only if attempts stop;
  `GateReopens` does not rest on it (a waiter opens the gate before it
  relocks), it only keeps mutex starvation out of the picture.
- `Once`: `SF` of `AcquireLock`, which is `EveryClaimServed` of `MCSLock`; the routine
  returns or is canceled.
- `RWLock`: `WF` of `Unlock`: whoever has locked unlocks. Weak fairness is enough for the mutexes because
  a writer with `mtxExclusiveAccess` keeps new competitors out.
- `Keys`: `SF` of the acquisitions of `keyLock` and `threadLock`, which are MCS locks
  (`ServesInOrder`); `WF` of the other steps, so destructors return.
  `EndsReturn` claims nothing if threads set values for ever.
- `Thread`: `WF` of the steps of a call (`CallerStep`) and of a thread that starts or ends
  (`ThreadStep`), and of `CancelPoint`: a thread that runs comes to a cancelation
  point. A caller need not begin anything.
- `RobustMutex` and `Spin` have no liveness property: after a death wakeups can
  get lost (section 6), and a spin lock promises nothing.

## 4. Proofs

TLAPS checks the following for every value of the constants, from the
assumptions that the modules name. Each component has an inductive invariant (`IInv`,
or `SIInv`, `OIInv`, `KIInv`; its parts were checked with TLC first, on the instance of the
run), one lemma for each action that preserves it, the theorem `Invariance`, and theorems that
follow from it. Every invariant of a passing run is a theorem, and so is every action property and every
refinement.

| Module | About | Theorems, with the property that a run checks | For any |
|---|---|---|---|
| `ControlProofs` | Mutex | `MutexExclusion` (MutualExclusion), `WakeupsKept` (NoLostWakeup), `OwnerKnown` (OwnerRecorded), `TypeCorrect` | set of threads, kinds, depth |
| | Spin | `OneOwner` (Exclusion), `InitialisationHolds` (InitHolds) | set of threads and of addresses |
| | Once | `InitRunsOnce` (RunsOnce), `ReturnsAfterInit` (ReturnsInitialized) | set of threads |
| | Keys | `PointerValid` (NextAssocValid), `NothingLeft` (EndsClean), `KeysLast` (KeyValid) | set of threads and of keys, Iterations |
| `SemaphoreProofs` | Semaphore | `WaitersExact` (Accounting), `UnitsConserved` (Conservation), `TypeCorrect` | finite set of threads, SEM_VALUE_MAX, MaxCount |
| `CondVarProofs` | CondVar | `Counting` (WaitersCounted), `Gate` (OneKey), `Broadcast` (BroadcastReachesAll), `Destruction` (DestroySafe), `TypeCorrect` | finite set of threads, GoneLimit, MaxExcess |
| `ThreadProofs` | Thread | `Destruction` (OneDestroyer), `Joining` (JoinSound), `Requesting` (PendingSeen), `TypeCorrect` | set of structures and of callers, MaxX |
| `MCSLockProofs` | MCSLock | `Invariance` (IInv), `ServesInOrder` (ImplementsFifo) | set of threads |
| `RobustMutexProofs` | RobustMutex | `Exclusion` (MutualExclusion), `DeathTold` (DeathReported), `WakeupsKept` (NoLostWakeup), `HeirDecides` (OnlyHeirGivesUp) | set of threads, kinds, depth |
| `RWLockProofs` | RWLock | `WriterExcludes` (Exclusion), `CountsExact` (ReadersCounted), `DestroysFree` (DestroySafe) | finite set of threads, INT_MAX above their number |
| `BarrierProofs` | Barrier | `SparesGroups` (NoGroupDestroyed), `Implements` (ImplementsBarrier) | finite set of threads, height |

Why the invariants are what they are:

- **Mutex.** Exclusion needs that `lock_idx` is 0 exactly when nobody owns the
  mutex; that a recorded owner is the owner needs exclusion, because
  `ownerThread` is written outside of any lock; and an unlock by a checking kind
  is only a real owner's because the recorded owner is right. `Between` keeps the
  two meanings of owning apart.
- **Semaphore.** `Conservation` needs `Accounting`: a post must know that there is a
  waiter behind a negative value.
- **Once.** `done` is set after the routine has completed; `DoneOrMarking` says that
  in between the thread that ran it still holds the lock.
- **Spin.** `Intact`: nobody has freed what `*lock` points to, and a thread that frees it is
  alone.
- **Keys.** `Chained`: an association is in both chains, once in each, and its key exists;
  that makes unlinking a node safe whoever does it. `Held` says who has which lock: the
  key that an ending thread works on cannot go away, since `pthread_key_delete` waits for `keyLock`
  before it frees. `Passing` says that everything with a value lies ahead of the
  pointer, or there is another pass. That a node deleted by another thread moves the pointer to what
  follows is about sequences: `Unlinked`, `Followed` and `Linked` state what `Without`,
  `Follower` and a new head do to members, their order and their distinctness. The invariant
  holds up to the faulty deletion of section 5 (`Broken`), where the model ends.
- **CondVar.** `WaitersCounted`, `OneKey` and `DestroySafe` need each other: the count
  of the gone may be forgotten only because whoever holds the key sees it alone
  (`Guarded`, `GoneReset`), and a destroyer is safe because it has the key and the counters are 0.
  `GateCounted` says that nobody sleeps at the gate uncounted, so a key that is given back
  can be found. `DueFirst`: while a broadcast unblocks, exactly the threads it found wait.
- **Thread.** `Generations`: a structure belongs to one thread at a time, in the order of the
  reuse counter, so a handle is stale exactly when the counter has gone on. With `Claims` (what is joined
  or detached stays joinable until then) and `Ends` (what a thread leaves in its structure,
  in which order) this gives the joins. `OneDestroyer` needs `Pooled` and `Creating` as well: a
  structure is fresh, listed, with a creator or with a thread, and never in two of these
  places. `Locks` says that `stateLock` is held by the canceler that says so, so at most one
  is between the two writes of a request. `PendingSeen` needs
  `Unasked`, a thread that starts without a request.
- **MCSLock.** The pointers encode `queue`: who waits knows its predecessor, and a
  `next` leads to the follower. `PassSound` and `HandoffIntact` say
  who has been told what on the way from one owner to the next, with the events that
  take the place of flags. The refinement then follows action by action: an exchange is
  a claim, the hand-over is the flag.
- **RobustMutex.** Exclusion and the report of a death need each other: while
  the state is `OWNERDEAD` nobody owns the mutex and `lock_idx` is not 0, so the
  heir is alone. `OwnerIsRecorded` makes the unlock an owner's. `SleepersServed`
  needs that the state stays `CONSISTENT` while all are alive.
- **RWLock.** `Counting` says what the numbers stand for in the two modes (a waiting writer
  or none) and that they do not wrap around; with the holders of the two mutexes it
  gives exclusion. Everything holds until `abandoned`.
- **Barrier.** One counter and one semaphore serve four phases of a group:
  `Gathering`, `Complete`, `Leaving` and `Over` say what they are in each, and exactly one
  phase has a leader. Threads at the points `Outside` count in none of them. The proofs count threads with `FiniteSetTheorems`.

Only model-checked: liveness under fairness and ENABLED (`Drains`, `EveryClaimServed`,
`EveryCallEnds`, `EndsReturn`, `Reclaimed`, `CancelActs` and the others of their kind), which are out
of the prover's reach, and the violation that `Keys_delete` finds. Nothing
needs induction over data, and no module uses a RECURSIVE operator: the chains of `Keys` are unlinked
by an explicit function on their positions, which the provers can reason about, and not by a
filter.

## 5. Findings

The run `Keys_delete` is found violated, with the comment of the code that says
otherwise in `PROJECT.json`: `pthread_key_delete.c:106` releases `keyLock` inside
of the loop that it guards. From the second association on, the key's chain is
changed without the lock, and the next release of it waits for a
successor that does not exist. Deleting a key for which two threads have values hangs.

The run `Barrier` passes, and so contradicts a comment: `pthread_barrier_wait.c:79-86`
says that a destroy while the others of a group are at `ptw32_semwait` destroys the
barrier "along with the semas", since the last thread resets the height and leaves.
The code has no such reset. The height goes up again only as the threads count
themselves out, and `b->proxynode` holds the lock until the last of them has, so
`pthread_barrier_destroy` returns `EBUSY` (`NoGroupDestroyed`).

## 6. Noted while modelling

Observations without a run of their own. The first four are facts that the properties
carry as exceptions (`recycled`, the unrecorded owner, `skipped`, `lostKeys`).

- `ptw32_MCS_lock.c:213`: a release may return before its successor has executed
  `ptw32_mcs_flag_set(&pred->nextFlag)`. If the thread uses the node again, the late set
  is taken for one of the new claim's successor, and the next release reads `next == 0`
  and dereferences it. `EveryClaimServed` holds as long as that has not happened.
- `pthread_mutex_timedlock.c:222`: a free robust `NORMAL` mutex is taken without
  `ptw32_robust_mutex_add`, so that its owner's end is not noticed and its unlock is `EPERM`.
- `sem_wait.c:63`: the cleanup handler is passed `s` where it expects `sem`, and does
  nothing when `s->value` is 0. `Accounting` counts these cleanups in `skipped`.
- `pthread_cond_wait.c:385`: a waiter canceled at the gate may consume its only unit and
  end. `OneKey` shows that this is the only way the key gets lost.
- `ptw32_threadStart.c:174`: a thread that starts overwrites `PThreadStateCancelPending`, so that
  `pthread_testcancel` never sees a request that came before (`early`).
- `pthread_cancel.c:129`: the handle is checked, and used after; the structure may be
  another thread's by then. `ptw32_reuse.c:123`: the `memset` wipes a `stateLock`
  that such a canceler holds (`fault` "stray").
- `pthread_cancel.c:149`: a thread that is canceled asynchronously while it waits for its own
  `stateLock` leaves its claim in the queue ("orphan"). `pthread_cancel.c:151`: the lock is
  not released at all if the Win32 thread has ended; a thread needs the lock on its way
  out, so this takes one that was terminated from outside, which the model has not.
- `ptw32_threadStart.c:226`, `ptw32_throw.c:77`: `PThreadStateExiting` is written without the lock,
  and `pthread_cancel` may write `PThreadStateCancelPending` over it: a destructor that tests is canceled
  in a thread that had returned ("late").
- `pthread_win32_attach_detach_np.c:240`: `detachState` is read without the lock;
  `OneDestroyer` shows that the state `PThreadStateLast` makes up for it.
- `pthread_join.c:106`: two joins or detaches of one handle that overlap destroy its structure
  twice. `ptw32_new.c:73`: `++ptw32_threadSeqNumber` is not interlocked.
- `pthread_key_delete.c:114`: with an empty first round `keyLock` is not released before the
  key is freed.
- `pthread_spin_lock.c:61`: `*lock` is read again after the tests; a destroy of the
  initialiser in between leaves `NULL` to be dereferenced ("null").

- `pthread_mutex_unlock.c:149`: an heir takes a mutex over without touching
  `lock_idx`. If it is 1 when the heir unlocks without
  `pthread_mutex_consistent`, no event is set and a thread asleep on the mutex is
  not woken, although it is `NOTRECOVERABLE` (compare the comment at
  `pthread_mutex_consistent.c:61`). `NoLostWakeup` of `RobustMutex` therefore covers the time
  until an owner ends.
- `pthread_mutex_lock.c:152`: a thread that has read the robust state before the heir
  unlocks may still acquire the mutex when it is `NOTRECOVERABLE`.
- `sem_destroy.c:95`: `sem_destroy` may succeed while a waiter that has been posted has not
  come out of its wait. `Accounting` shows that there is a unit for each such
  waiter; the handle is closed under them all the same.
- `pthread_rwlock_timedrdlock.c:91`: a timeout when `nSharedAccessCount` has reached
  `INT_MAX` increments the completed count without its mutex, and leaves the
  shared count at `INT_MAX`, so that the next reader makes it overflow; a destroy may
  then succeed under readers, and a writer be let in. The properties of `RWLock`
  hold until then (`~abandoned`).
- `pthread_barrier_destroy.c:70` (FIXME): callers of `pthread_barrier_wait` or `_destroy` that
  are past the test of `*barrier` when a destroy succeeds touch a lock that is freed. They stay at
  "acquire" or "try": from there on nothing is defined. `NoGroupDestroyed` does not
  exclude them, since no group is under way when they are the only ones there.
- `pthread_barrier_wait.c:91`: a thread that is not the last one reads
  `b->nInitialBarrierHeight` after it has counted itself out. The last one may have returned
  by then and the barrier be destroyed and freed, so the thread compares with anything
  (`result` "undefined"), and if it finds itself equal, it releases `b->proxynode`
  a second time.

## 7. What is not modelled

- Failures of Win32 calls that the code does not check for, and of memory.
- The NULL and magic checks of arguments; statically initialised mutexes,
  condition variables and read-write locks, whose initialisation repeats the spin lock's.
- The implementation without interlocked operations and with `NEED_SEM`.
- Destruction of mutexes (`pthread_mutex_destroy.c:69` has a FIXME about its own
  trylock), the links of a thread's list of several robust mutexes, the global list of
  condition variables.
- Threads that are not made by `pthread_create` and get a handle from `pthread_self`; suspended
  creation; the stack of cleanup handlers.
- `ptw32_OLL_lock.c`, which no part of the library is built with; attributes,
  scheduling, time and process set-up, which are getters, setters and wrappers.
- QueueUserAPCEx, the pre-built library, log4cxx, APR and APR-util: third-party code that no
  code of this repository builds on. They are nearly all of its lines.
- TestOpenPano, opencvblobs, regionprops, the Matlab experiments and `code.txt`: sequential
  numerics on pictures, without state that outlives a call.

Hazards that no property covers are in `PROJECT.json` with a note.
