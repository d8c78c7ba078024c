-------------------------------- MODULE Once --------------------------------
(***************************************************************************)
(* pthread_once on one control.  The first read of once_control->done is   *)
(* outside of the lock; the init routine runs inside, with a cleanup       *)
(* handler that releases the lock when the thread is canceled in it.       *)
(* once_control->lock is an MCS lock, here its owner (see FifoLock).       *)
(***************************************************************************)
EXTENDS Naturals, FiniteSets, Control

VARIABLES done,       \* once_control->done
          onceLock,   \* the owner of once_control->lock, or NULL
          complete    \* history: how often the init routine has run to its end

ovars == <<done, onceLock, pc, complete>>

OPoints == {"idle", "acquire", "recheck", "init", "mark", "release", "returned", "ended"}

OInit == /\ done = FALSE
         /\ onceLock = NULL
         /\ pc = [t \in Threads |-> "idle"]
         /\ complete = 0

(* The interlocked read of done.                                           *)
CallOnce(t) ==
    /\ pc[t] \in {"idle", "returned"}
    /\ Goto(t, IF done THEN "returned" ELSE "acquire")
    /\ UNCHANGED <<done, onceLock, complete>>

AcquireLock(t) ==
    /\ pc[t] = "acquire"
    /\ onceLock = NULL
    /\ onceLock' = t
    /\ Goto(t, "recheck")
    /\ UNCHANGED <<done, complete>>

(* Wrong variant: done is not read again in the lock; done is set too      *)
(* early.                                                                  *)
RecheckNot(t) ==
    /\ pc[t] = "recheck"
    /\ Goto(t, "init")
    /\ UNCHANGED <<done, onceLock, complete>>

RecheckMarks(t) ==
    /\ pc[t] = "recheck"
    /\ done' = TRUE
    /\ Goto(t, IF done THEN "release" ELSE "init")
    /\ UNCHANGED <<onceLock, complete>>

Recheck(t) ==
    /\ pc[t] = "recheck"
    /\ Goto(t, IF done THEN "release" ELSE "init")
    /\ UNCHANGED <<done, onceLock, complete>>

InitReturns(t) ==
    /\ pc[t] = "init"
    /\ complete' = complete + 1
    /\ Goto(t, "mark")
    /\ UNCHANGED <<done, onceLock>>

(* Wrong variant: the lock is not released.                                *)
CancelMutant(t) ==
    /\ pc[t] = "init"
    /\ Goto(t, "ended")
    /\ UNCHANGED <<done, onceLock, complete>>

(* pthread_cleanup_push(ptw32_mcs_lock_release, &node)                     *)
Cancel(t) ==
    /\ pc[t] = "init"
    /\ onceLock' = NULL
    /\ Goto(t, "ended")
    /\ UNCHANGED <<done, complete>>

Mark(t) ==
    /\ pc[t] = "mark"
    /\ done' = TRUE
    /\ Goto(t, "release")
    /\ UNCHANGED <<onceLock, complete>>

ReleaseLock(t) ==
    /\ pc[t] = "release"
    /\ onceLock' = NULL
    /\ Goto(t, "returned")
    /\ UNCHANGED <<done, complete>>

OStep(t) == AcquireLock(t) \/ Recheck(t) \/ InitReturns(t) \/ Mark(t) \/ ReleaseLock(t)

ONext == \E t \in Threads : CallOnce(t) \/ OStep(t) \/ Cancel(t)

OSpec == OInit /\ [][ONext]_ovars

(* Threads inside the call run, init routines end, and the MCS lock serves *)
(* every claim.                                                            *)
OFairSpec == /\ OSpec
             /\ \A t \in Threads : /\ WF_ovars(OStep(t) \/ Cancel(t))
                                   /\ SF_ovars(AcquireLock(t))

(***************************************************************************)
(* Properties                                                              *)
(***************************************************************************)
(* Types of the control and of the threads' positions.                     *)
OTypeOK ==
    /\ done \in BOOLEAN
    /\ onceLock \in Threads \cup {NULL}
    /\ pc \in [Threads -> OPoints]
    /\ complete \in Nat

InLock(t) == pc[t] \in {"recheck", "init", "mark", "release"}

(* The init routine runs to its end at most once, by one thread at a time, *)
(* also after threads that were canceled half way through it; and done     *)
(* says so.                                                                *)
RunsOnce ==
    /\ complete <= 1
    /\ done => complete = 1
    /\ \A t \in Threads : InLock(t) => onceLock = t
    /\ \A t \in Threads : pc[t] = "init" => complete = 0

(* Nobody returns from pthread_once before the init routine has completed. *)
ReturnsInitialized == \A t \in Threads : pc[t] = "returned" => complete = 1

(* Every caller returns or is canceled in the init routine: a canceled one *)
(* does not leave the others waiting for the lock.                         *)
EveryCallEnds == \A t \in Threads : pc[t] = "acquire" ~> pc[t] \in {"returned", "ended"}
=============================================================================
