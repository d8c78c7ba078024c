------------------------------ MODULE Barrier ------------------------------
(***************************************************************************)
(* pthread_barrier_t: pthread_barrier_wait and _destroy, by at least as    *)
(* many threads as the barrier is high.                                    *)
(*                                                                         *)
(* b->lock is an MCS lock, here its owner (see MCSLock, FifoLock).  The    *)
(* last thread to arrive keeps it, moved to b->proxynode, until the last   *)
(* thread to leave releases it; b->nCurrentBarrierHeight counts down in    *)
(* the lock and up, by interlocked increments, outside.                    *)
(***************************************************************************)
EXTENDS SemOps, FiniteSets

CONSTANTS Threads,
          Proxy,     \* b->proxynode as the lock's owner
          NULL,
          Height     \* b->nInitialBarrierHeight, the count of _init

ASSUME ThreadsAssumption == IsFiniteSet(Threads)
ASSUME OwnerAssumption == Proxy \notin Threads /\ NULL \notin Threads \cup {Proxy}
ASSUME HeightAssumption == Height \in Nat \ {0}

VARIABLES nCurrentBarrierHeight,
          semBarrierBreeched,
          lock,      \* a thread, Proxy or NULL
          valid,     \* *barrier is not PTW32_OBJECT_INVALID
          freed,     \* free (b) has been called
          pc,
          result     \* what the thread's last pthread_barrier_wait returned

vars == <<nCurrentBarrierHeight, semBarrierBreeched, lock, valid, freed, pc, result>>

(* Where a thread holds nothing of the barrier: it has only called, has    *)
(* counted itself out, or has just destroyed the barrier.                  *)
Outside == {"idle", "acquire", "compare", "try", "free"}

Points == Outside \cup {"arrive", "unlock", "wait", "asleep", "transfer", "breach",
                       "leave", "last", "destroy"}

(* pthread_barrier_init                                                    *)
Init == /\ nCurrentBarrierHeight = Height
        /\ semBarrierBreeched = SemInit(0)
        /\ lock = NULL
        /\ valid = TRUE
        /\ freed = FALSE
        /\ pc = [t \in Threads |-> "idle"]
        /\ result = [t \in Threads |-> "0"]

Goto(t, p) == pc' = [pc EXCEPT ![t] = p]

Return(t, r) == Goto(t, "idle") /\ result' = [result EXCEPT ![t] = r]

(***************************************************************************)
(* pthread_barrier_wait.  EINVAL, for a barrier that has been destroyed,   *)
(* changes nothing.                                                        *)
(***************************************************************************)
Call(t) ==
    /\ pc[t] = "idle"
    /\ valid
    /\ Goto(t, "acquire")
    /\ UNCHANGED <<nCurrentBarrierHeight, semBarrierBreeched, lock, valid, freed,
                   result>>

(* ptw32_mcs_lock_acquire, and *barrier read again.  For a caller that a   *)
(* destroy has overtaken nothing is defined from here on: it stays.        *)
Acquire(t) ==
    /\ pc[t] = "acquire"
    /\ valid
    /\ lock = NULL
    /\ lock' = t
    /\ Goto(t, "arrive")
    /\ UNCHANGED <<nCurrentBarrierHeight, semBarrierBreeched, valid, freed, result>>

Arrive(t) ==
    /\ pc[t] = "arrive"
    /\ nCurrentBarrierHeight' = nCurrentBarrierHeight - 1
    /\ Goto(t, IF nCurrentBarrierHeight = 1 THEN "transfer" ELSE "unlock")
    /\ UNCHANGED <<semBarrierBreeched, lock, valid, freed, result>>

(* Wrong variant: the lock is released and not handed to the proxy node.   *)
TransferMutant(t) ==
    /\ pc[t] = "transfer"
    /\ lock' = NULL
    /\ Goto(t, "breach")
    /\ UNCHANGED <<nCurrentBarrierHeight, semBarrierBreeched, valid, freed, result>>

(* The last to arrive: ptw32_mcs_node_transfer, then let the others go.    *)
Transfer(t) ==
    /\ pc[t] = "transfer"
    /\ lock' = Proxy
    /\ Goto(t, "breach")
    /\ UNCHANGED <<nCurrentBarrierHeight, semBarrierBreeched, valid, freed, result>>

(* Wrong variant: one post too few.                                        *)
BreachShort(t) ==
    /\ pc[t] = "breach"
    /\ semBarrierBreeched' = PostedMultiple(semBarrierBreeched, Height - 2)
    /\ Goto(t, "leave")
    /\ UNCHANGED <<nCurrentBarrierHeight, lock, valid, freed, result>>

Breach(t) ==
    /\ pc[t] = "breach"
    /\ semBarrierBreeched' = IF Height > 1
                             THEN PostedMultiple(semBarrierBreeched, Height - 1)
                             ELSE semBarrierBreeched
    /\ Goto(t, "leave")
    /\ UNCHANGED <<nCurrentBarrierHeight, lock, valid, freed, result>>

(* The others: ptw32_mcs_lock_release, then ptw32_semwait.                 *)
Unlock(t) ==
    /\ pc[t] = "unlock"
    /\ lock' = NULL
    /\ Goto(t, "wait")
    /\ UNCHANGED <<nCurrentBarrierHeight, semBarrierBreeched, valid, freed, result>>

SemWait(t) ==
    /\ pc[t] = "wait"
    /\ semBarrierBreeched' = Claimed(semBarrierBreeched)
    /\ Goto(t, IF MustWait(semBarrierBreeched) THEN "asleep" ELSE "leave")
    /\ UNCHANGED <<nCurrentBarrierHeight, lock, valid, freed, result>>

Awake(t) ==
    /\ pc[t] = "asleep"
    /\ semBarrierBreeched.sem > 0
    /\ semBarrierBreeched' = Taken(semBarrierBreeched)
    /\ Goto(t, "leave")
    /\ UNCHANGED <<nCurrentBarrierHeight, lock, valid, freed, result>>

(* The interlocked increment; who reaches the top leaves last.             *)
Leave(t) ==
    /\ pc[t] = "leave"
    /\ nCurrentBarrierHeight' = nCurrentBarrierHeight + 1
    /\ Goto(t, IF nCurrentBarrierHeight + 1 = Height THEN "last" ELSE "compare")
    /\ UNCHANGED <<semBarrierBreeched, lock, valid, freed, result>>

(* The others compare what they got with b->nInitialBarrierHeight, which   *)
(* nothing protects any more: out of freed memory comes any value, and the *)
(* thread may even take itself for the last.                               *)
Compare(t) ==
    /\ pc[t] = "compare"
    /\ Return(t, IF freed THEN "undefined" ELSE "0")
    /\ UNCHANGED <<nCurrentBarrierHeight, semBarrierBreeched, lock, valid, freed>>

(* ptw32_mcs_lock_release(&b->proxynode)                                   *)
Last(t) ==
    /\ pc[t] = "last"
    /\ lock' = NULL
    /\ Return(t, "SERIAL")
    /\ UNCHANGED <<nCurrentBarrierHeight, semBarrierBreeched, valid, freed>>

(***************************************************************************)
(* pthread_barrier_destroy                                                 *)
(***************************************************************************)
CallDestroy(t) ==
    /\ pc[t] = "idle"
    /\ valid
    /\ Goto(t, "try")
    /\ UNCHANGED <<nCurrentBarrierHeight, semBarrierBreeched, lock, valid, freed,
                   result>>

(* ptw32_mcs_lock_try_acquire, or else return EBUSY.  It reads *barrier    *)
(* again, as Acquire does.                                                 *)
TryAcquire(t) ==
    /\ pc[t] = "try"
    /\ valid
    /\ IF lock = NULL
       THEN lock' = t /\ Goto(t, "destroy")
       ELSE Goto(t, "idle") /\ UNCHANGED lock
    /\ UNCHANGED <<nCurrentBarrierHeight, semBarrierBreeched, valid, freed, result>>

(* Wrong variant: only the semaphore is looked at.                         *)
DestroyableMutant == semBarrierBreeched.value >= 0

Destroyable == nCurrentBarrierHeight >= Height /\ semBarrierBreeched.value >= 0

DestroyChecked(t) ==
    /\ pc[t] = "destroy"
    /\ Destroyable
    /\ valid' = FALSE
    /\ Goto(t, "free")
    /\ UNCHANGED <<nCurrentBarrierHeight, semBarrierBreeched, lock, freed, result>>

(* EBUSY leaves the barrier as it is, but makes a new semaphore if it was  *)
(* sem_destroy that returned it.                                           *)
DestroyRefused(t) ==
    /\ pc[t] = "destroy"
    /\ ~Destroyable
    /\ semBarrierBreeched' = IF nCurrentBarrierHeight >= Height
                             THEN SemInit(0)
                             ELSE semBarrierBreeched
    /\ lock' = NULL
    /\ Goto(t, "idle")
    /\ UNCHANGED <<nCurrentBarrierHeight, valid, freed, result>>

(* The lock is released, and then freed with the rest.                     *)
Free(t) ==
    /\ pc[t] = "free"
    /\ lock' = NULL
    /\ freed' = TRUE
    /\ Goto(t, "idle")
    /\ UNCHANGED <<nCurrentBarrierHeight, semBarrierBreeched, valid, result>>

Step(t) == \/ Acquire(t) \/ Arrive(t) \/ Transfer(t) \/ Breach(t) \/ Unlock(t)
           \/ SemWait(t) \/ Awake(t) \/ Leave(t) \/ Compare(t) \/ Last(t)
           \/ TryAcquire(t) \/ DestroyChecked(t) \/ DestroyRefused(t) \/ Free(t)

Next == \E t \in Threads : Call(t) \/ CallDestroy(t) \/ Step(t)

Spec == Init /\ [][Next]_vars

(* Threads inside a call run.                                              *)
FairSpec == Spec /\ \A t \in Threads : WF_vars(Step(t))

(***************************************************************************)
(* Properties                                                              *)
(***************************************************************************)
(* Types of the barrier's fields and of the threads' positions.            *)
TypeOK ==
    /\ nCurrentBarrierHeight \in 0..Height
    /\ semBarrierBreeched \in [value : Int, sem : Nat]
    /\ lock \in Threads \cup {Proxy, NULL}
    /\ valid \in BOOLEAN /\ freed \in BOOLEAN
    /\ pc \in [Threads -> Points]
    /\ result \in [Threads -> {"0", "SERIAL", "undefined"}]

At(points) == {t \in Threads : pc[t] \in points}

(* A complete group is leaving.                                            *)
Draining == lock = Proxy \/ At({"transfer"}) # {}

arrivedBar == IF Draining THEN {} ELSE At({"unlock", "wait", "asleep"})

releasedBar == IF Draining
               THEN At({"transfer", "breach", "wait", "asleep", "leave", "last"})
               ELSE {}

(* A thread that has counted itself out is out, and gets 0; what it finds  *)
(* in freed memory is not promised.                                        *)
resultBar == [t \in Threads |-> IF pc[t] = "compare" \/ result[t] = "undefined"
                                THEN "0"
                                ELSE result[t]]

Abstract == INSTANCE BarrierSpec
            WITH arrived <- arrivedBar, released <- releasedBar, result <- resultBar

(* Nobody passes before the group is complete, nobody of the next group    *)
(* mixes with one that is leaving although both use one counter and one    *)
(* semaphore, and exactly the last to leave gets the special value.        *)
ImplementsBarrier == Abstract!Spec

(* A destroy that succeeds finds no group: nobody has counted itself in    *)
(* and not out, is on its way to the semaphore or from it, or has the      *)
(* lock.  It may find callers at b->lock and threads that are about to     *)
(* compare, which no check of pthread_barrier_destroy sees.                *)
NoGroupDestroyed == ~valid => At(Points \ Outside) = {} /\ lock # Proxy

(* Whoever is in a complete group returns.                                 *)
GroupLeaves == \A t \in Threads : t \in releasedBar ~> pc[t] = "idle"
=============================================================================
