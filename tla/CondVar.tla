------------------------------ MODULE CondVar ------------------------------
(***************************************************************************)
(* pthread_cond_t: pthread_cond_wait and _timedwait, _signal, _broadcast   *)
(* and _destroy on one condition variable with one caller's mutex.         *)
(*                                                                         *)
(* Waiters sleep on semBlockQueue.  semBlockLock is a gate that is shut    *)
(* from a signal or broadcast until as many waiters as it unblocks have    *)
(* left, so that a later waiter cannot steal a wakeup.  mtxUnblockLock     *)
(* guards the counters; what is done under it without waiting is one step. *)
(* The semaphores behave as in Semaphore.                                  *)
(***************************************************************************)
EXTENDS SemOps, FiniteSets

CONSTANTS Threads,
          NULL,
          GoneLimit,     \* INT_MAX / 2, the limit of nWaitersGone
          MaxExcess      \* bound on the posts that no waiter is left to take

ASSUME ThreadsAssumption == IsFiniteSet(Threads)
ASSUME NullAssumption == NULL \notin Threads
ASSUME LimitAssumption == GoneLimit \in Nat \ {0}
ASSUME ExcessAssumption == MaxExcess \in Nat

VARIABLES nWaitersBlocked,
          nWaitersGone,
          nWaitersToUnblock,
          mtxUnblockLock,    \* its owner, or NULL
          semBlockLock,      \* the gate
          semBlockQueue,
          mutex,             \* the owner of the caller's mutex, or NULL
          valid,             \* the condition variable is not destroyed
          closing,           \* the thread that is destroying it, or NULL
          pc,
          unblockAll,        \* the signal in progress is a broadcast
          nSignals,          \* local nSignalsToIssue
          due,               \* history: threads that a broadcast has yet to unblock
          lostKeys           \* history: units of the gate that cancelations took

vars == <<nWaitersBlocked, nWaitersGone, nWaitersToUnblock, mtxUnblockLock,
          semBlockLock, semBlockQueue, mutex, valid, closing, pc, unblockAll,
          nSignals, due, lostKeys>>

counters == <<nWaitersBlocked, nWaitersGone, nWaitersToUnblock>>

(* A call X is at point X before it waits at the gate, at Asleep[X] while  *)
(* it sleeps there and at Passed[X] after it.                              *)
GateCalls == {"enter", "gone", "signal", "destroy"}

Asleep == [enter |-> "enterSleeps", gone |-> "goneSleeps",
           signal |-> "signalSleeps", destroy |-> "destroySleeps"]

Passed == [enter |-> "enterPassed", gone |-> "gonePassed",
           signal |-> "signalPassed", destroy |-> "destroyPassed"]

Points == GateCalls \cup {Asleep[x] : x \in GateCalls} \cup {Passed[x] : x \in GateCalls}
          \cup {"idle", "canceled", "open", "release", "enqueue", "queued",
                "late", "cleanup", "reopen", "relock", "post"}

(* pthread_cond_init                                                       *)
Init == /\ nWaitersBlocked = 0
        /\ nWaitersGone = 0
        /\ nWaitersToUnblock = 0
        /\ mtxUnblockLock = NULL
        /\ semBlockLock = SemInit(1)
        /\ semBlockQueue = SemInit(0)
        /\ mutex = NULL
        /\ valid = TRUE
        /\ closing = NULL
        /\ pc = [t \in Threads |-> "idle"]
        /\ unblockAll = [t \in Threads |-> FALSE]
        /\ nSignals = [t \in Threads |-> 0]
        /\ due = {}
        /\ lostKeys = 0

Goto(t, p) == pc' = [pc EXCEPT ![t] = p]

OpenGate == semBlockLock' = Posted(semBlockLock)

(***************************************************************************)
(* The caller's mutex                                                      *)
(***************************************************************************)
Lock(t) ==
    /\ pc[t] = "idle"
    /\ mutex = NULL
    /\ mutex' = t
    /\ UNCHANGED <<counters, mtxUnblockLock, semBlockLock, semBlockQueue,
                   valid, closing, pc, unblockAll, nSignals, due, lostKeys>>

Unlock(t) ==
    /\ pc[t] = "idle"
    /\ mutex = t
    /\ mutex' = NULL
    /\ UNCHANGED <<counters, mtxUnblockLock, semBlockLock, semBlockQueue,
                   valid, closing, pc, unblockAll, nSignals, due, lostKeys>>

(***************************************************************************)
(* Waiting at the gate: sem_wait in pthread_cond_wait, and ptw32_semwait   *)
(* elsewhere, which is not a cancelation point.                            *)
(***************************************************************************)
GateWait(t) ==
    /\ pc[t] \in GateCalls
    /\ semBlockLock' = Claimed(semBlockLock)
    /\ Goto(t, IF MustWait(semBlockLock) THEN Asleep[pc[t]] ELSE Passed[pc[t]])
    /\ UNCHANGED <<counters, mtxUnblockLock, semBlockQueue, mutex, valid,
                   closing, unblockAll, nSignals, due, lostKeys>>

GatePass(t) ==
    /\ semBlockLock.sem > 0
    /\ semBlockLock' = Taken(semBlockLock)
    /\ \E x \in GateCalls : pc[t] = Asleep[x] /\ Goto(t, Passed[x])
    /\ UNCHANGED <<counters, mtxUnblockLock, semBlockQueue, mutex, valid,
                   closing, unblockAll, nSignals, due, lostKeys>>

(* A thread that is canceled at the gate runs sem_wait's cleanup and ends, *)
(* with the caller's mutex, which an outer handler unlocks.                *)
GateCancel(t) ==
    /\ pc[t] = Asleep["enter"]
    /\ semBlockLock.sem = 0
    /\ Goto(t, "canceled")
    /\ UNCHANGED <<counters, mtxUnblockLock, semBlockLock, semBlockQueue,
                   mutex, valid, closing, unblockAll, nSignals, due, lostKeys>>

GateCleanup(t) ==
    /\ pc[t] = "canceled"
    /\ semBlockLock' = SettledByWait(semBlockLock)
    /\ lostKeys' = lostKeys + (semBlockLock.sem - semBlockLock'.sem)
    /\ Goto(t, "idle")
    /\ UNCHANGED <<counters, mtxUnblockLock, semBlockQueue, mutex, valid,
                   closing, unblockAll, nSignals, due>>

(***************************************************************************)
(* ptw32_cond_timedwait                                                    *)
(***************************************************************************)
Wait(t) ==
    /\ pc[t] = "idle"
    /\ closing = NULL
    /\ mutex = t
    /\ Goto(t, "enter")
    /\ UNCHANGED <<counters, mtxUnblockLock, semBlockLock, semBlockQueue,
                   mutex, valid, closing, unblockAll, nSignals, due, lostKeys>>

CountWaiter(t) ==
    /\ pc[t] = Passed["enter"]
    /\ nWaitersBlocked' = nWaitersBlocked + 1
    /\ Goto(t, "open")
    /\ UNCHANGED <<nWaitersGone, nWaitersToUnblock, mtxUnblockLock,
                   semBlockLock, semBlockQueue, mutex, valid, closing,
                   unblockAll, nSignals, due, lostKeys>>

Open(t) ==
    /\ pc[t] = "open"
    /\ OpenGate
    /\ Goto(t, "release")
    /\ UNCHANGED <<counters, mtxUnblockLock, semBlockQueue, mutex, valid,
                   closing, unblockAll, nSignals, due, lostKeys>>

Release(t) ==
    /\ pc[t] = "release"
    /\ mutex' = NULL
    /\ Goto(t, "enqueue")
    /\ UNCHANGED <<counters, mtxUnblockLock, semBlockLock, semBlockQueue,
                   valid, closing, unblockAll, nSignals, due, lostKeys>>

(* sem_timedwait on the queue, at once or after a sleep, unless its        *)
(* pthread_testcancel ends it first.                                       *)
Enqueue(t) ==
    /\ pc[t] = "enqueue"
    /\ \/ /\ semBlockQueue' = Claimed(semBlockQueue)
          /\ Goto(t, IF MustWait(semBlockQueue) THEN "queued" ELSE "cleanup")
       \/ /\ Goto(t, "cleanup")
          /\ UNCHANGED semBlockQueue
    /\ UNCHANGED <<counters, mtxUnblockLock, semBlockLock, mutex, valid,
                   closing, unblockAll, nSignals, due, lostKeys>>

Awake(t) ==
    /\ pc[t] = "queued"
    /\ semBlockQueue.sem > 0
    /\ semBlockQueue' = Taken(semBlockQueue)
    /\ Goto(t, "cleanup")
    /\ UNCHANGED <<counters, mtxUnblockLock, semBlockLock, mutex, valid,
                   closing, unblockAll, nSignals, due, lostKeys>>

(* A timeout or a cancelation, and sem_timedwait's cleanup.                *)
GiveUp(t) ==
    /\ pc[t] = "queued"
    /\ semBlockQueue.sem = 0
    /\ Goto(t, "late")
    /\ UNCHANGED <<counters, mtxUnblockLock, semBlockLock, semBlockQueue,
                   mutex, valid, closing, unblockAll, nSignals, due, lostKeys>>

Late(t) ==
    /\ pc[t] = "late"
    /\ semBlockQueue' = Settled(semBlockQueue)
    /\ Goto(t, "cleanup")
    /\ UNCHANGED <<counters, mtxUnblockLock, semBlockLock, mutex, valid,
                   closing, unblockAll, nSignals, due, lostKeys>>

(* Wrong variants: the gate is opened by the first of several that are     *)
(* unblocked; or by none.                                                  *)
CleanupReopening(t, reopen) ==
    /\ pc[t] = "cleanup"
    /\ mtxUnblockLock = NULL
    /\ due' = due \ {t}
    /\ IF nWaitersToUnblock # 0
       THEN /\ nWaitersToUnblock' = nWaitersToUnblock - 1
            /\ Goto(t, IF reopen THEN "reopen" ELSE "relock")
            /\ UNCHANGED nWaitersGone
       ELSE /\ nWaitersGone' = nWaitersGone + 1
            /\ Goto(t, "relock")
            /\ UNCHANGED nWaitersToUnblock
    /\ UNCHANGED <<nWaitersBlocked, mtxUnblockLock, semBlockLock,
                   semBlockQueue, mutex, valid, closing, unblockAll, nSignals,
                   lostKeys>>

CleanupEarly(t) == nWaitersGone + 1 < GoneLimit /\ CleanupReopening(t, TRUE)

CleanupShut(t) == nWaitersGone + 1 < GoneLimit /\ CleanupReopening(t, FALSE)

(* ptw32_cond_wait_cleanup, "whether we got here as a result of signal /   *)
(* broadcast or because of timeout on wait or thread cancellation".  The   *)
(* last of those to be unblocked opens the gate.                           *)
Cleanup(t) ==
    /\ pc[t] = "cleanup"
    /\ mtxUnblockLock = NULL
    /\ due' = due \ {t}
    /\ IF nWaitersToUnblock # 0
       THEN /\ nWaitersToUnblock' = nWaitersToUnblock - 1
            /\ Goto(t, IF nWaitersToUnblock = 1 THEN "reopen" ELSE "relock")
            /\ UNCHANGED <<nWaitersGone, mtxUnblockLock>>
       ELSE /\ nWaitersGone' = nWaitersGone + 1
            /\ IF nWaitersGone + 1 = GoneLimit
               THEN mtxUnblockLock' = t /\ Goto(t, "gone")
               ELSE Goto(t, "relock") /\ UNCHANGED mtxUnblockLock
            /\ UNCHANGED nWaitersToUnblock
    /\ UNCHANGED <<nWaitersBlocked, semBlockLock, semBlockQueue, mutex, valid,
                   closing, unblockAll, nSignals, lostKeys>>

(* Wrong variant: nWaitersGone is not reset.                               *)
GoneMutant(t) ==
    /\ pc[t] = Passed["gone"]
    /\ nWaitersBlocked' = nWaitersBlocked - nWaitersGone
    /\ OpenGate
    /\ mtxUnblockLock' = NULL
    /\ Goto(t, "relock")
    /\ UNCHANGED <<nWaitersGone, nWaitersToUnblock, semBlockQueue, mutex,
                   valid, closing, unblockAll, nSignals, due, lostKeys>>

(* nWaitersGone has reached its limit.                                     *)
Gone(t) ==
    /\ pc[t] = Passed["gone"]
    /\ nWaitersBlocked' = nWaitersBlocked - nWaitersGone
    /\ OpenGate
    /\ nWaitersGone' = 0
    /\ mtxUnblockLock' = NULL
    /\ Goto(t, "relock")
    /\ UNCHANGED <<nWaitersToUnblock, semBlockQueue, mutex, valid, closing,
                   unblockAll, nSignals, due, lostKeys>>

Reopen(t) ==
    /\ pc[t] = "reopen"
    /\ OpenGate
    /\ Goto(t, "relock")
    /\ UNCHANGED <<counters, mtxUnblockLock, semBlockQueue, mutex, valid,
                   closing, unblockAll, nSignals, due, lostKeys>>

Relock(t) ==
    /\ pc[t] = "relock"
    /\ mutex = NULL
    /\ mutex' = t
    /\ Goto(t, "idle")
    /\ UNCHANGED <<counters, mtxUnblockLock, semBlockLock, semBlockQueue,
                   valid, closing, unblockAll, nSignals, due, lostKeys>>

(***************************************************************************)
(* ptw32_cond_unblock (pthread_cond_signal, pthread_cond_broadcast), with  *)
(* or without the caller's mutex.  A post for a waiter that has given up   *)
(* remains in the queue and wakes a later one; MaxExcess bounds those.     *)
(***************************************************************************)
(* The threads that nWaitersBlocked or nWaitersToUnblock counts.           *)
Counted == {t \in Threads : pc[t] \in {"open", "release", "enqueue", "queued",
                                       "late", "cleanup"}}

(* Take n of the blocked waiters, or all.                                  *)
Unblock(t, all, blocked) ==
    LET n == IF all THEN blocked ELSE 1
    IN /\ nSignals' = [nSignals EXCEPT ![t] = n]
       /\ nWaitersToUnblock' = nWaitersToUnblock + n
       /\ nWaitersBlocked' = blocked - n
       /\ due' = IF all THEN Counted ELSE due
       /\ Goto(t, "post")

Signal(t, all) ==
    /\ pc[t] = "idle"
    /\ closing = NULL
    /\ mtxUnblockLock = NULL
    /\ semBlockQueue.value <= MaxExcess
    /\ unblockAll' = [unblockAll EXCEPT ![t] = all]
    /\ \/ /\ nWaitersToUnblock # 0
          /\ nWaitersBlocked # 0          \* or else return
          /\ Unblock(t, all, nWaitersBlocked)
          /\ UNCHANGED mtxUnblockLock
       \/ /\ nWaitersToUnblock = 0
          /\ nWaitersBlocked > nWaitersGone   \* or else return
          /\ mtxUnblockLock' = t
          /\ Goto(t, "signal")
          /\ UNCHANGED <<nWaitersBlocked, nWaitersToUnblock, nSignals, due>>
    /\ UNCHANGED <<nWaitersGone, semBlockLock, semBlockQueue, mutex, valid,
                   closing, lostKeys>>

(* The gate is shut: forget the waiters that are gone, then unblock.       *)
SignalFirst(t) ==
    /\ pc[t] = Passed["signal"]
    /\ nWaitersGone' = 0
    /\ Unblock(t, unblockAll[t], nWaitersBlocked - nWaitersGone)
    /\ mtxUnblockLock' = NULL
    /\ UNCHANGED <<semBlockLock, semBlockQueue, mutex, valid, closing,
                   unblockAll, lostKeys>>

(* Wrong variant: a broadcast posts once.                                  *)
PostMutant(t) ==
    /\ pc[t] = "post"
    /\ semBlockQueue' = Posted(semBlockQueue)
    /\ nSignals' = [nSignals EXCEPT ![t] = 0]       \* locals, not used again
    /\ unblockAll' = [unblockAll EXCEPT ![t] = FALSE]
    /\ Goto(t, "idle")
    /\ UNCHANGED <<counters, mtxUnblockLock, semBlockLock, mutex, valid,
                   closing, due, lostKeys>>

Post(t) ==
    /\ pc[t] = "post"
    /\ semBlockQueue' = PostedMultiple(semBlockQueue, nSignals[t])
    /\ nSignals' = [nSignals EXCEPT ![t] = 0]       \* locals, not used again
    /\ unblockAll' = [unblockAll EXCEPT ![t] = FALSE]
    /\ Goto(t, "idle")
    /\ UNCHANGED <<counters, mtxUnblockLock, semBlockLock, mutex, valid,
                   closing, due, lostKeys>>

(***************************************************************************)
(* pthread_cond_destroy, by a thread that has seen to it that nobody else  *)
(* will start to wait or is signaling (the delete_elt example).            *)
(***************************************************************************)
Starting == {t \in Threads : \/ pc[t] \in {"canceled", "signal", "post"}
                             \/ pc[t] \in {"enter", Asleep["enter"], Passed["enter"]}
                             \/ pc[t] \in {Asleep["signal"], Passed["signal"]}}

Destroy(t) ==
    /\ pc[t] = "idle"
    /\ valid
    /\ closing = NULL
    /\ Starting = {}
    /\ closing' = t
    /\ Goto(t, "destroy")
    /\ UNCHANGED <<counters, mtxUnblockLock, semBlockLock, semBlockQueue,
                   mutex, valid, unblockAll, nSignals, due, lostKeys>>

(* Wrong variant: waiters are not looked for.                              *)
DestroyGatedMutant(t) ==
    /\ pc[t] = Passed["destroy"]
    /\ mtxUnblockLock = NULL
    /\ valid' = FALSE
    /\ Goto(t, "idle")
    /\ UNCHANGED <<counters, mtxUnblockLock, semBlockLock, semBlockQueue,
                   mutex, closing, unblockAll, nSignals, due, lostKeys>>

(* mtxUnblockLock is only tried; EBUSY opens the gate again.               *)
DestroyGated(t) ==
    /\ pc[t] = Passed["destroy"]
    /\ IF mtxUnblockLock = NULL /\ nWaitersBlocked <= nWaitersGone
       THEN /\ valid' = FALSE
            /\ UNCHANGED <<semBlockLock, closing>>
       ELSE /\ OpenGate
            /\ closing' = NULL
            /\ UNCHANGED valid
    /\ Goto(t, "idle")
    /\ UNCHANGED <<counters, mtxUnblockLock, semBlockQueue, mutex, unblockAll,
                   nSignals, due, lostKeys>>

Step(t) == \/ GateWait(t) \/ GatePass(t) \/ GateCleanup(t)
           \/ CountWaiter(t) \/ Open(t) \/ Release(t) \/ Enqueue(t) \/ Awake(t)
           \/ Late(t) \/ Cleanup(t) \/ Gone(t) \/ Reopen(t)
           \/ SignalFirst(t) \/ Post(t) \/ DestroyGated(t)

Call(t) == \/ Lock(t) \/ Unlock(t) \/ Wait(t)
           \/ (\E all \in BOOLEAN : Signal(t, all)) \/ Destroy(t)

Next == \E t \in Threads : Call(t) \/ Step(t) \/ Relock(t) \/ GateCancel(t) \/ GiveUp(t)

Spec == Init /\ [][Next]_vars

(* Threads inside a call run; owners of the caller's mutex unlock it, and  *)
(* locking it is fair.                                                     *)
FairSpec == Spec /\ \A t \in Threads : /\ WF_vars(Step(t))
                                       /\ WF_vars(Unlock(t))
                                       /\ SF_vars(Relock(t))

(***************************************************************************)
(* Properties                                                              *)
(***************************************************************************)
(* Types of the condition variable's fields and the threads' positions.    *)
SemType == [value : Int, sem : Nat]

TypeOK ==
    /\ nWaitersBlocked \in Nat
    /\ nWaitersGone \in Nat
    /\ nWaitersToUnblock \in Nat
    /\ mtxUnblockLock \in Threads \cup {NULL}
    /\ semBlockLock \in SemType
    /\ semBlockQueue \in SemType
    /\ mutex \in Threads \cup {NULL}
    /\ valid \in BOOLEAN
    /\ closing \in Threads \cup {NULL}
    /\ pc \in [Threads -> Points]
    /\ unblockAll \in [Threads -> BOOLEAN]
    /\ nSignals \in [Threads -> Nat]
    /\ due \subseteq Threads
    /\ lostKeys \in Nat

(* The counters count: the waiters that have not run their cleanup are     *)
(* those blocked, less those gone, plus those to unblock.  Otherwise a     *)
(* signal would go to nobody, or destroy report EBUSY for ever.            *)
WaitersCounted ==
    nWaitersBlocked - nWaitersGone + nWaitersToUnblock = Cardinality(Counted)

(* The gate's key is in the gate, or with a thread that has passed, or the *)
(* waiters still to be unblocked keep the gate shut.                       *)
KeyHolders ==
    {t \in Threads : pc[t] \in {"open", "reopen"} \cup {Passed[x] : x \in GateCalls}}

Keys == Units(semBlockLock) + Cardinality(KeyHolders)
          + (IF nWaitersToUnblock > 0 THEN 1 ELSE 0)

(* The only way for the key to get lost is a cancelation at the gate that  *)
(* takes it along; and it is never doubled: nobody counts itself a waiter  *)
(* while a signal or broadcast is unblocking others.                       *)
OneKey == valid => Keys + lostKeys = 1

(* A broadcast unblocks every thread that was waiting when it took place,  *)
(* before any later waiter can get in the way: the gate stays shut for     *)
(* at least as long as one of them has not left.                           *)
BroadcastReachesAll == Cardinality(due) <= nWaitersToUnblock

(* pthread_cond_destroy never succeeds while a waiter, on its way out, has *)
(* still to touch the condition variable.                                  *)
DestroySafe == ~valid => \A t \in Threads : pc[t] \in {"idle", "relock"}

(* Whoever is to be unblocked will be: a shut gate opens again.            *)
GateReopens == nWaitersToUnblock > 0 ~> nWaitersToUnblock = 0
=============================================================================
