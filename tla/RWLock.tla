------------------------------- MODULE RWLock -------------------------------
(***************************************************************************)
(* pthread_rwlock_t: the locking functions, with and without a time limit, *)
(* pthread_rwlock_unlock and _destroy on one dynamic read-write lock.      *)
(*                                                                         *)
(* A reader passes through mtxExclusiveAccess and counts itself; when it   *)
(* unlocks it counts as completed, under mtxSharedAccessCompleted.  A      *)
(* writer keeps both mutexes.  While it waits for the readers to leave, on *)
(* a condition variable with mtxSharedAccessCompleted, the completed count *)
(* is negative and counts up to 0.                                         *)
(*                                                                         *)
(* The mutexes are their owners (see Mutex), a call that is blocked on     *)
(* mtxExclusiveAccess, or fails to get it, has done nothing yet.  One      *)
(* writer at a time waits on the condition variable: a signal wakes it     *)
(* (see CondVar), and so may a signal that was meant for an earlier one.   *)
(***************************************************************************)
EXTENDS Integers, FiniteSets

CONSTANTS Threads,
          NULL,
          INT_MAX

ASSUME ThreadsAssumption == IsFiniteSet(Threads)
ASSUME NullAssumption == NULL \notin Threads
ASSUME IntAssumption == INT_MAX \in Nat /\ INT_MAX > Cardinality(Threads)

VARIABLES mtxExclusiveAccess,        \* its owner, or NULL
          mtxSharedAccessCompleted,
          nSharedAccessCount,
          nExclusiveAccessCount,
          nCompletedSharedAccessCount,
          valid,         \* the lock is not destroyed
          pc,
          call,          \* the function that the thread is in
          completed,     \* the operand of an increment in progress
          hold,          \* history: what the thread has locked
          abandoned      \* history: a timeout at INT_MAX (see CompactTimeout)

mutexes == <<mtxExclusiveAccess, mtxSharedAccessCompleted>>

counts == <<nSharedAccessCount, nExclusiveAccessCount, nCompletedSharedAccessCount>>

vars == <<mutexes, counts, valid, pc, call, completed, hold, abandoned>>

ReadCalls == {"rdlock", "tryrdlock", "timedrdlock"}

WriteCalls == {"wrlock", "trywrlock", "timedwrlock"}

Points == {"idle", "compact", "abandon", "shared", "waiting", "relock", "late",
           "complete", "completed", "unlockWriter", "unlockExclusive", "destroy"}

Init == /\ mtxExclusiveAccess = NULL
        /\ mtxSharedAccessCompleted = NULL
        /\ nSharedAccessCount = 0
        /\ nExclusiveAccessCount = 0
        /\ nCompletedSharedAccessCount = 0
        /\ valid = TRUE
        /\ pc = [t \in Threads |-> "idle"]
        /\ call = [t \in Threads |-> "rdlock"]
        /\ completed = [t \in Threads |-> 0]
        /\ hold = [t \in Threads |-> "nothing"]
        /\ abandoned = FALSE

(* Arithmetic on int wraps around.                                         *)
Wrapped(n) == ((n + INT_MAX + 1) % (2 * INT_MAX + 2)) - INT_MAX - 1

Goto(t, p) == pc' = [pc EXCEPT ![t] = p]

Holds(t, h) == hold' = [hold EXCEPT ![t] = h]

(* Bound: no new calls once a timeout has left the counts wrong.           *)
Calls(t, c) == /\ pc[t] = "idle"
               /\ ~abandoned
               /\ hold[t] = "nothing"
               /\ valid
               /\ mtxExclusiveAccess = NULL
               /\ call' = [call EXCEPT ![t] = c]

(***************************************************************************)
(* pthread_rwlock_rdlock, _tryrdlock, _timedrdlock                         *)
(***************************************************************************)
(* Count one more reader, in mtxExclusiveAccess.                           *)
Read(t, c) ==
    /\ Calls(t, c)
    /\ nSharedAccessCount' = Wrapped(nSharedAccessCount + 1)
    /\ IF nSharedAccessCount' = INT_MAX
       THEN mtxExclusiveAccess' = t /\ Goto(t, "compact") /\ UNCHANGED hold
       ELSE Holds(t, "read") /\ UNCHANGED <<mtxExclusiveAccess, pc>>
    /\ UNCHANGED <<mtxSharedAccessCompleted, nExclusiveAccessCount,
                   nCompletedSharedAccessCount, valid, completed, abandoned>>

(* Wrong variant: the completed count is not reset.                        *)
CompactMutant(t) ==
    /\ pc[t] = "compact"
    /\ mtxSharedAccessCompleted = NULL
    /\ nSharedAccessCount' = Wrapped(nSharedAccessCount - nCompletedSharedAccessCount)
    /\ mtxExclusiveAccess' = NULL
    /\ Holds(t, "read")
    /\ Goto(t, "idle")
    /\ UNCHANGED <<mtxSharedAccessCompleted, nExclusiveAccessCount, valid,
                   nCompletedSharedAccessCount, call, completed, abandoned>>

(* The count has reached INT_MAX: take off those that have completed.      *)
Compact(t) ==
    /\ pc[t] = "compact"
    /\ mtxSharedAccessCompleted = NULL
    /\ nSharedAccessCount' = Wrapped(nSharedAccessCount - nCompletedSharedAccessCount)
    /\ nCompletedSharedAccessCount' = 0
    /\ mtxExclusiveAccess' = NULL
    /\ Holds(t, "read")
    /\ Goto(t, "idle")
    /\ UNCHANGED <<mtxSharedAccessCompleted, nExclusiveAccessCount, valid, call,
                   completed, abandoned>>

(* The time is up: the reader counts itself as completed, without the      *)
(* mutex that guards the count, and leaves nSharedAccessCount at INT_MAX.  *)
CompactTimeout(t) ==
    /\ pc[t] = "compact"
    /\ call[t] = "timedrdlock"
    /\ mtxSharedAccessCompleted # NULL
    /\ completed' = [completed EXCEPT ![t] = nCompletedSharedAccessCount]
    /\ abandoned' = TRUE
    /\ Goto(t, "abandon")
    /\ UNCHANGED <<mutexes, counts, valid, call, hold>>

Abandon(t) ==
    /\ pc[t] = "abandon"
    /\ nCompletedSharedAccessCount' = Wrapped(completed[t] + 1)
    /\ mtxExclusiveAccess' = NULL
    /\ Goto(t, "idle")
    /\ UNCHANGED <<mtxSharedAccessCompleted, nSharedAccessCount, valid, call,
                   nExclusiveAccessCount, completed, hold, abandoned>>

(***************************************************************************)
(* pthread_rwlock_wrlock, _trywrlock, _timedwrlock                         *)
(***************************************************************************)
Write(t, c) ==
    /\ Calls(t, c)
    /\ mtxExclusiveAccess' = t
    /\ Goto(t, "shared")
    /\ UNCHANGED <<mtxSharedAccessCompleted, counts, valid, completed, hold, abandoned>>

(* EBUSY of pthread_mutex_trylock, ETIMEDOUT of pthread_mutex_timedlock.   *)
SharedBusy(t) ==
    /\ pc[t] = "shared"
    /\ call[t] # "wrlock"
    /\ mtxSharedAccessCompleted # NULL
    /\ mtxExclusiveAccess' = NULL
    /\ Goto(t, "idle")
    /\ UNCHANGED <<mtxSharedAccessCompleted, counts, valid, call, completed, hold,
                   abandoned>>

Readers == IF nCompletedSharedAccessCount > 0
           THEN Wrapped(nSharedAccessCount - nCompletedSharedAccessCount)
           ELSE nSharedAccessCount

Own(t) == /\ mtxSharedAccessCompleted' = t
          /\ nExclusiveAccessCount' = nExclusiveAccessCount + 1
          /\ Holds(t, "write")
          /\ Goto(t, "idle")
          /\ UNCHANGED mtxExclusiveAccess

(* A waiting writer: nobody else gets past mtxExclusiveAccess.             *)
AwaitReaders(t) ==
    /\ Readers > 0
    /\ call[t] # "trywrlock"
    /\ nSharedAccessCount' = Readers
    /\ nCompletedSharedAccessCount' = -Readers
    /\ Goto(t, "waiting")
    /\ UNCHANGED <<mutexes, nExclusiveAccessCount, hold>>

(* Both mutexes are locked; EBUSY of pthread_rwlock_trywrlock.             *)
LockShared(t) ==
    /\ pc[t] = "shared"
    /\ mtxSharedAccessCompleted = NULL
    /\ \/ AwaitReaders(t)
       \/ /\ nSharedAccessCount' = Readers
          /\ nCompletedSharedAccessCount' = IF nCompletedSharedAccessCount > 0
                                            THEN 0 ELSE nCompletedSharedAccessCount
          /\ \/ Readers <= 0 /\ Own(t)
             \/ /\ Readers > 0
                /\ call[t] = "trywrlock"
                /\ mtxExclusiveAccess' = NULL
                /\ Goto(t, "idle")
                /\ UNCHANGED <<mtxSharedAccessCompleted, nExclusiveAccessCount, hold>>
    /\ UNCHANGED <<valid, call, completed, abandoned>>

(* pthread_cond_wait, pthread_cond_timedwait: woken by a signal for an     *)
(* earlier writer; the time is up, or the thread is canceled.              *)
Spurious(t) ==
    /\ pc[t] = "waiting"
    /\ Goto(t, "relock")
    /\ UNCHANGED <<mutexes, counts, valid, call, completed, hold, abandoned>>

GiveUp(t) ==
    /\ pc[t] = "waiting"
    /\ Goto(t, "late")
    /\ UNCHANGED <<mutexes, counts, valid, call, completed, hold, abandoned>>

(* Wrong variant: the loop does not test the count again.                  *)
RelockUntested(t) ==
    /\ pc[t] = "relock"
    /\ mtxSharedAccessCompleted = NULL
    /\ nSharedAccessCount' = 0
    /\ Own(t)
    /\ UNCHANGED <<nCompletedSharedAccessCount, valid, call, completed, abandoned>>

(* The wait has locked mtxSharedAccessCompleted again; the loop goes on as *)
(* long as readers are left.                                               *)
Relock(t) ==
    /\ pc[t] = "relock"
    /\ mtxSharedAccessCompleted = NULL
    /\ IF nCompletedSharedAccessCount < 0
       THEN /\ Goto(t, "waiting")
            /\ UNCHANGED <<mutexes, nSharedAccessCount, nExclusiveAccessCount, hold>>
       ELSE nSharedAccessCount' = 0 /\ Own(t)
    /\ UNCHANGED <<nCompletedSharedAccessCount, valid, call, completed, abandoned>>

(* ptw32_rwlock_cancelwrwait, also after a timeout.                        *)
CancelWrWait(t) ==
    /\ pc[t] = "late"
    /\ mtxSharedAccessCompleted = NULL
    /\ nSharedAccessCount' = Wrapped(-nCompletedSharedAccessCount)
    /\ nCompletedSharedAccessCount' = 0
    /\ mtxExclusiveAccess' = NULL
    /\ Goto(t, "idle")
    /\ UNCHANGED <<mtxSharedAccessCompleted, nExclusiveAccessCount, valid, call,
                   completed, hold, abandoned>>

(***************************************************************************)
(* pthread_rwlock_unlock, by a thread that has locked                      *)
(***************************************************************************)
(* nExclusiveAccessCount is read without a mutex.                          *)
Unlock(t) ==
    /\ pc[t] = "idle"
    /\ hold[t] # "nothing"
    /\ Goto(t, IF nExclusiveAccessCount = 0 THEN "complete" ELSE "unlockWriter")
    /\ UNCHANGED <<mutexes, counts, valid, call, completed, hold, abandoned>>

(* ++nCompletedSharedAccessCount in mtxSharedAccessCompleted, in two steps *)
(* because of Abandon.                                                     *)
Complete(t) ==
    /\ pc[t] = "complete"
    /\ mtxSharedAccessCompleted = NULL
    /\ mtxSharedAccessCompleted' = t
    /\ completed' = [completed EXCEPT ![t] = nCompletedSharedAccessCount]
    /\ Goto(t, "completed")
    /\ UNCHANGED <<mtxExclusiveAccess, counts, valid, call, hold, abandoned>>

(* Wrong variant: the last reader does not signal.                         *)
CompletedMutant(t) ==
    /\ pc[t] = "completed"
    /\ nCompletedSharedAccessCount' = Wrapped(completed[t] + 1)
    /\ pc' = [pc EXCEPT ![t] = "idle"]
    /\ completed' = [completed EXCEPT ![t] = 0]       \* not used again
    /\ mtxSharedAccessCompleted' = NULL
    /\ Holds(t, "nothing")
    /\ UNCHANGED <<mtxExclusiveAccess, nSharedAccessCount, nExclusiveAccessCount,
                   valid, call, abandoned>>

(* The last reader signals the writer, if it is still waiting.             *)
Completed(t) ==
    /\ pc[t] = "completed"
    /\ nCompletedSharedAccessCount' = Wrapped(completed[t] + 1)
    /\ pc' = [u \in Threads |->
                 IF u = t THEN "idle"
                 ELSE IF pc[u] = "waiting" /\ nCompletedSharedAccessCount' = 0 THEN "relock"
                 ELSE pc[u]]
    /\ completed' = [completed EXCEPT ![t] = 0]       \* not used again
    /\ mtxSharedAccessCompleted' = NULL
    /\ Holds(t, "nothing")
    /\ UNCHANGED <<mtxExclusiveAccess, nSharedAccessCount, nExclusiveAccessCount,
                   valid, call, abandoned>>

UnlockWriter(t) ==
    /\ pc[t] = "unlockWriter"
    /\ nExclusiveAccessCount' = nExclusiveAccessCount - 1
    /\ mtxSharedAccessCompleted' = NULL
    /\ Holds(t, "nothing")
    /\ Goto(t, "unlockExclusive")
    /\ UNCHANGED <<mtxExclusiveAccess, nSharedAccessCount,
                   nCompletedSharedAccessCount, valid, call, completed, abandoned>>

UnlockExclusive(t) ==
    /\ pc[t] = "unlockExclusive"
    /\ mtxExclusiveAccess' = NULL
    /\ Goto(t, "idle")
    /\ UNCHANGED <<mtxSharedAccessCompleted, counts, valid, call, completed, hold,
                   abandoned>>

(***************************************************************************)
(* pthread_rwlock_destroy.  Nobody calls a locking function after it, nor  *)
(* while it is in progress.                                                *)
(***************************************************************************)
Destroy(t) ==
    /\ Calls(t, "destroy")
    /\ mtxExclusiveAccess' = t
    /\ Goto(t, "destroy")
    /\ UNCHANGED <<mtxSharedAccessCompleted, counts, valid, completed, hold, abandoned>>

(* Wrong variant: readers that have not completed are overlooked.          *)
BusyMutant == nExclusiveAccessCount > 0

Busy == \/ nExclusiveAccessCount > 0
        \/ nSharedAccessCount > nCompletedSharedAccessCount

DestroyChecked(t) ==
    /\ pc[t] = "destroy"
    /\ mtxSharedAccessCompleted = NULL
    /\ valid' = Busy
    /\ mtxExclusiveAccess' = NULL
    /\ Goto(t, "idle")
    /\ UNCHANGED <<mtxSharedAccessCompleted, counts, call, completed, hold, abandoned>>

Step(t) == \/ Compact(t) \/ Abandon(t) \/ LockShared(t) \/ SharedBusy(t)
           \/ Relock(t) \/ CancelWrWait(t)
           \/ Complete(t) \/ Completed(t) \/ UnlockWriter(t) \/ UnlockExclusive(t)
           \/ DestroyChecked(t)

Call(t) == \/ \E c \in ReadCalls : Read(t, c)
           \/ \E c \in WriteCalls : Write(t, c)
           \/ Unlock(t)
           \/ Destroy(t)

Next == \E t \in Threads : Call(t) \/ Step(t) \/ CompactTimeout(t) \/ Spurious(t) \/ GiveUp(t)

Spec == Init /\ [][Next]_vars

(* Threads inside a call run, and whoever has locked unlocks.              *)
FairSpec == Spec /\ \A t \in Threads : WF_vars(Step(t)) /\ WF_vars(Unlock(t))

(***************************************************************************)
(* Properties                                                              *)
(***************************************************************************)
(* Types of the lock's fields and of the threads' positions.               *)
TypeOK ==
    /\ mtxExclusiveAccess \in Threads \cup {NULL}
    /\ mtxSharedAccessCompleted \in Threads \cup {NULL}
    /\ nSharedAccessCount \in -INT_MAX - 1..INT_MAX
    /\ nExclusiveAccessCount \in Nat
    /\ nCompletedSharedAccessCount \in -INT_MAX - 1..INT_MAX
    /\ valid \in BOOLEAN
    /\ pc \in [Threads -> Points]
    /\ call \in [Threads -> ReadCalls \cup WriteCalls \cup {"destroy"}]
    /\ completed \in [Threads -> -INT_MAX - 1..INT_MAX]
    /\ hold \in [Threads -> {"nothing", "read", "write"}]
    /\ abandoned \in BOOLEAN

(* A writer is alone, whatever writers before it gave up their wait or     *)
(* were woken for nothing; and its unlock takes the writer's branch while  *)
(* a reader's takes the other, although the test reads the count without a *)
(* mutex.  Who locks both mutexes never finds another writer's count.      *)
Exclusion ==
    ~abandoned =>
        /\ \A t, u \in Threads : hold[t] = "write" /\ u # t => hold[u] = "nothing"
        /\ \A t \in Threads : pc[t] \in {"complete", "completed"} => hold[t] = "read"
        /\ \A t \in Threads : pc[t] = "unlockWriter" => hold[t] = "write"
        /\ mtxSharedAccessCompleted = NULL => nExclusiveAccessCount = 0

(* The two counts together count the readers, over all writers that waited *)
(* and gave up, and across INT_MAX: a count too high would keep writers    *)
(* and pthread_rwlock_destroy out for ever, one too low let them in.       *)
Counted == {t \in Threads : hold[t] = "read" \/ pc[t] = "compact"}

AwaitingReaders == \E t \in Threads : pc[t] \in {"waiting", "relock", "late"}

ReadersCounted ==
    ~abandoned =>
        IF AwaitingReaders
        THEN nCompletedSharedAccessCount = -Cardinality(Counted)
        ELSE nSharedAccessCount - nCompletedSharedAccessCount = Cardinality(Counted)

(* "Check whether any threads own/wait for the lock (wait for ex.access)": *)
(* a lock that has been destroyed is in nobody's hands.                    *)
DestroySafe ==
    ~valid /\ ~abandoned => \A t \in Threads : pc[t] = "idle" /\ hold[t] = "nothing"

(* A writer that has got mtxExclusiveAccess gets the lock or gives up: the *)
(* readers leave one by one, none come in, and the last one wakes it.      *)
WriterGetsOut ==
    []~abandoned =>
        \A t \in Threads : pc[t] \in {"shared", "waiting"} ~> pc[t] = "idle"
=============================================================================
