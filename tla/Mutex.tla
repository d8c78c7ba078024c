------------------------------- MODULE Mutex -------------------------------
(***************************************************************************)
(* The non-robust pthread_mutex_t: pthread_mutex_lock, _trylock,           *)
(* _timedlock and _unlock on one mutex of any of the three kinds.          *)
(*                                                                         *)
(* lock_idx is 0 (free), 1 (locked) or -1 (locked, someone may wait); the  *)
(* waiters sleep on one auto-reset event.  One step is one interlocked     *)
(* operation, one access to the shared fields, or one event call.          *)
(***************************************************************************)
EXTENDS Integers, Control

CONSTANT MaxDepth     \* bound on the recursive locks of one thread

ASSUME DepthAssumption == MaxDepth \in Nat \ {0}

VARIABLES kind,             \* mx->kind, chosen by pthread_mutex_init
          lock_idx,
          event,            \* mx->event is signaled
          ownerThread,      \* mx->ownerThread (not used by NORMAL)
          recursive_count,
          timed,            \* the call in progress is pthread_mutex_timedlock
          depth             \* history: locks that the thread holds

vars == <<kind, lock_idx, event, ownerThread, recursive_count, pc, timed, depth>>

Kinds == {"NORMAL", "RECURSIVE", "ERRORCHECK"}

Points == {"idle", "checkOwner", "exchange", "wait", "setOwner", "unlock", "wake"}

(* pthread_mutex_init: a dynamic mutex of some kind, not locked.           *)
Init == /\ kind \in Kinds
        /\ lock_idx = 0
        /\ event = FALSE
        /\ ownerThread = NULL
        /\ recursive_count = 0
        /\ pc = [t \in Threads |-> "idle"]
        /\ timed = [t \in Threads |-> FALSE]
        /\ depth = [t \in Threads |-> 0]

(* The call returns 0 or the error r.  What is returned decides nothing    *)
(* here; it is named for the reader.                                       *)
Return(t, r) == Goto(t, "idle")

Deepen(t) == depth' = [depth EXCEPT ![t] = @ + 1]

(***************************************************************************)
(* pthread_mutex_lock and pthread_mutex_timedlock                          *)
(***************************************************************************)
(* A NORMAL mutex: exchange 1.  Its owner never locks it again, except     *)
(* with a time limit.                                                      *)
LockNormal(t, tm) ==
    /\ kind = "NORMAL"
    /\ depth[t] > 0 => tm
    /\ lock_idx' = 1
    /\ IF lock_idx = 0
       THEN Return(t, "OK") /\ Deepen(t)
       ELSE Goto(t, "exchange") /\ UNCHANGED depth

(* The other kinds: compare-and-exchange 0 by 1.                           *)
LockChecked(t) ==
    /\ kind # "NORMAL"
    /\ depth[t] < MaxDepth
    /\ IF lock_idx = 0
       THEN lock_idx' = 1 /\ Goto(t, "setOwner")
       ELSE Goto(t, "checkOwner") /\ UNCHANGED lock_idx
    /\ UNCHANGED depth

Lock(t, tm) ==
    /\ pc[t] = "idle"
    /\ timed' = [timed EXCEPT ![t] = tm]
    /\ LockNormal(t, tm) \/ LockChecked(t)
    /\ UNCHANGED <<kind, event, ownerThread, recursive_count>>

(* The mutex was locked: by the caller itself, or by someone else.         *)
CheckOwner(t) ==
    /\ pc[t] = "checkOwner"
    /\ \/ /\ ownerThread = t
          /\ kind = "RECURSIVE"
          /\ recursive_count' = recursive_count + 1
          /\ Return(t, "OK")
          /\ Deepen(t)
       \/ /\ ownerThread = t
          /\ kind = "ERRORCHECK"
          /\ Return(t, "EDEADLK")
          /\ UNCHANGED <<recursive_count, depth>>
       \/ /\ ownerThread # t
          /\ Goto(t, "exchange")
          /\ UNCHANGED <<recursive_count, depth>>
    /\ UNCHANGED <<kind, lock_idx, event, ownerThread, timed>>

(* Wrong variant: who comes out of the wait takes itself for the owner.    *)
ExchangeUnchecked(t) ==
    /\ pc[t] = "exchange"
    /\ lock_idx' = -1
    /\ IF kind = "NORMAL"
       THEN Return(t, "OK") /\ Deepen(t)
       ELSE Goto(t, "setOwner") /\ UNCHANGED depth
    /\ UNCHANGED <<kind, event, ownerThread, recursive_count, timed>>

(* Wrong variant: a waiter exchanges 1, like a new attempt.                *)
ExchangeLocked(t) ==
    /\ pc[t] = "exchange"
    /\ lock_idx' = 1
    /\ IF lock_idx # 0
       THEN Goto(t, "wait") /\ UNCHANGED depth
       ELSE IF kind = "NORMAL"
            THEN Return(t, "OK") /\ Deepen(t)
            ELSE Goto(t, "setOwner") /\ UNCHANGED depth
    /\ UNCHANGED <<kind, event, ownerThread, recursive_count, timed>>

(* The head of the waiting loop: exchange -1.                              *)
Exchange(t) ==
    /\ pc[t] = "exchange"
    /\ lock_idx' = -1
    /\ IF lock_idx # 0
       THEN Goto(t, "wait") /\ UNCHANGED depth
       ELSE IF kind = "NORMAL"
            THEN Return(t, "OK") /\ Deepen(t)
            ELSE Goto(t, "setOwner") /\ UNCHANGED depth
    /\ UNCHANGED <<kind, event, ownerThread, recursive_count, timed>>

(* WaitForSingleObject (mx->event, ...) is satisfied and resets the event. *)
Woken(t) ==
    /\ pc[t] = "wait"
    /\ event
    /\ event' = FALSE
    /\ Goto(t, "exchange")
    /\ UNCHANGED <<kind, lock_idx, ownerThread, recursive_count, timed, depth>>

(* ptw32_timed_eventwait: the time is up and the event is not signaled.    *)
Timeout(t) ==
    /\ pc[t] = "wait"
    /\ timed[t]
    /\ ~event
    /\ Return(t, "ETIMEDOUT")
    /\ UNCHANGED <<kind, lock_idx, event, ownerThread, recursive_count, timed, depth>>

(* Wrong variant: recursive_count is not set to 1.                         *)
SetOwnerMutant(t) ==
    /\ pc[t] = "setOwner"
    /\ ownerThread' = t
    /\ Return(t, "OK")
    /\ Deepen(t)
    /\ UNCHANGED <<kind, lock_idx, event, recursive_count, timed>>

SetOwner(t) ==
    /\ pc[t] = "setOwner"
    /\ recursive_count' = 1
    /\ ownerThread' = t
    /\ Return(t, "OK")
    /\ Deepen(t)
    /\ UNCHANGED <<kind, lock_idx, event, timed>>

(***************************************************************************)
(* pthread_mutex_trylock                                                   *)
(***************************************************************************)
Trylock(t) ==
    /\ pc[t] = "idle"
    /\ depth[t] < MaxDepth
    /\ \/ /\ lock_idx = 0
          /\ lock_idx' = 1
          /\ IF kind = "NORMAL"
             THEN Return(t, "OK") /\ Deepen(t)
             ELSE Goto(t, "setOwner") /\ UNCHANGED depth
          /\ UNCHANGED recursive_count
       \/ /\ lock_idx # 0
          /\ kind = "RECURSIVE" /\ ownerThread = t
          /\ recursive_count' = recursive_count + 1
          /\ Return(t, "OK")
          /\ Deepen(t)
          /\ UNCHANGED lock_idx
       \/ /\ lock_idx # 0
          /\ ~(kind = "RECURSIVE" /\ ownerThread = t)
          /\ Return(t, "EBUSY")
          /\ UNCHANGED <<lock_idx, recursive_count, depth>>
    /\ UNCHANGED <<kind, event, ownerThread, timed>>

(***************************************************************************)
(* pthread_mutex_unlock.  Only its owner unlocks a NORMAL mutex, which     *)
(* does not check; any thread may try the other kinds.                     *)
(***************************************************************************)
UnlockNormal(t) ==
    /\ kind = "NORMAL"
    /\ depth[t] > 0
    /\ Goto(t, "unlock")
    /\ depth' = [depth EXCEPT ![t] = 0]
    /\ UNCHANGED <<ownerThread, recursive_count>>

UnlockChecked(t) ==
    /\ kind # "NORMAL"
    /\ \/ /\ ownerThread # t
          /\ Return(t, "EPERM")
          /\ UNCHANGED <<ownerThread, recursive_count, depth>>
       \/ /\ ownerThread = t
          /\ kind = "RECURSIVE" /\ recursive_count > 1
          /\ recursive_count' = recursive_count - 1
          /\ depth' = [depth EXCEPT ![t] = @ - 1]
          /\ Return(t, "OK")
          /\ UNCHANGED ownerThread
       \/ /\ ownerThread = t
          /\ kind = "RECURSIVE" => recursive_count = 1
          /\ recursive_count' = IF kind = "RECURSIVE" THEN 0 ELSE recursive_count
          /\ ownerThread' = NULL
          /\ depth' = [depth EXCEPT ![t] = 0]
          /\ Goto(t, "unlock")

Unlock(t) ==
    /\ pc[t] = "idle"
    /\ UnlockNormal(t) \/ UnlockChecked(t)
    /\ UNCHANGED <<kind, lock_idx, event, timed>>

(* Exchange 0; a negative index means that someone may be waiting.         *)
UnlockExchange(t) ==
    /\ pc[t] = "unlock"
    /\ lock_idx' = 0
    /\ IF lock_idx < 0
       THEN Goto(t, "wake")
       ELSE Return(t, "OK")
    /\ UNCHANGED <<kind, event, ownerThread, recursive_count, timed, depth>>

(* Wrong variant: SetEvent is left out.                                    *)
WakeMutant(t) ==
    /\ pc[t] = "wake"
    /\ Return(t, "OK")
    /\ UNCHANGED <<kind, lock_idx, event, ownerThread, recursive_count, timed, depth>>

Wake(t) ==
    /\ pc[t] = "wake"
    /\ event' = TRUE
    /\ Return(t, "OK")
    /\ UNCHANGED <<kind, lock_idx, ownerThread, recursive_count, timed, depth>>

Step(t) == \/ CheckOwner(t) \/ Exchange(t) \/ Woken(t) \/ SetOwner(t)
           \/ UnlockExchange(t) \/ Wake(t)

Call(t) == (\E tm \in BOOLEAN : Lock(t, tm)) \/ Trylock(t) \/ Unlock(t)

Next == \E t \in Threads : Call(t) \/ Step(t) \/ Timeout(t)

Spec == Init /\ [][Next]_vars

(* Threads inside a call run; time passes, so a timed wait ends; an owner  *)
(* eventually unlocks.                                                     *)
OwnerUnlocks(t) == depth[t] > 0 /\ Unlock(t)

Fairness(t) == WF_vars(Step(t)) /\ WF_vars(Timeout(t)) /\ SF_vars(OwnerUnlocks(t))

FairSpec == Spec /\ \A t \in Threads : Fairness(t)

(***************************************************************************)
(* Properties                                                              *)
(***************************************************************************)
(* Types of the mutex fields and of the threads' positions.                *)
TypeOK ==
    /\ kind \in Kinds
    /\ lock_idx \in {-1, 0, 1}
    /\ event \in BOOLEAN
    /\ ownerThread \in Threads \cup {NULL}
    /\ recursive_count \in Nat
    /\ pc \in [Threads -> Points]
    /\ timed \in [Threads -> BOOLEAN]
    /\ depth \in [Threads -> Nat]

(* The thread owns the mutex: it holds a lock, or it is just recording or  *)
(* giving up its ownership.                                                *)
Owns(t) == depth[t] > 0 \/ pc[t] \in {"setOwner", "unlock"}

(* Two threads never own the mutex at once, whatever the kind and however  *)
(* waits time out, and lock_idx is 0 exactly when nobody owns it.          *)
MutualExclusion ==
    /\ \A t, u \in Threads : Owns(t) /\ Owns(u) => t = u
    /\ lock_idx = 0 <=> \A t \in Threads : ~Owns(t)

(* No wakeup is lost: while a thread sleeps on the event, the event is     *)
(* signaled, or the owner will find -1 and signal it, or another thread is *)
(* about to put -1 there or to signal.  pthread_mutex_lock of a NORMAL     *)
(* mutex overwrites -1 by 1 and an unlock may come in between.             *)
NoLostWakeup ==
    \A t \in Threads : pc[t] = "wait" =>
        \/ event
        \/ lock_idx = -1
        \/ \E u \in Threads : pc[u] \in {"exchange", "wake"}

(* The owner recorded in a checking mutex is the thread that holds it, and *)
(* recursive_count is the number of its locks that are not yet undone:     *)
(* only then does EPERM, EDEADLK and the last unlock mean what they say.   *)
OwnerRecorded ==
    kind # "NORMAL" =>
        /\ \A t \in Threads : ownerThread = t <=> depth[t] > 0
        /\ ownerThread # NULL => recursive_count = depth[ownerThread]
        /\ kind = "ERRORCHECK" => \A t \in Threads : depth[t] <= 1

(* A thread records or gives up its ownership between its locks.           *)
Between == \A t \in Threads : pc[t] \in {"setOwner", "unlock"} => depth[t] = 0

(* The inductive invariant: each part needs the others.                    *)
IInv == TypeOK /\ MutualExclusion /\ NoLostWakeup /\ OwnerRecorded /\ Between

(* Nobody is left behind: once threads make no new attempts to lock, every *)
(* pthread_mutex_lock and _timedlock in progress returns, as long as       *)
(* owners unlock.  (With endless attempts it need not: each may replace -1 *)
(* by 1 just before an unlock.)                                            *)
Attempt == \E t \in Threads : Trylock(t) \/ \E tm \in BOOLEAN : Lock(t, tm)

Drains == <>[][~Attempt]_vars => <>[](\A t \in Threads : pc[t] = "idle")
=============================================================================
