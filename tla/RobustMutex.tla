---------------------------- MODULE RobustMutex ----------------------------
(***************************************************************************)
(* The robust pthread_mutex_t (PTHREAD_MUTEX_ROBUST): the robust branches  *)
(* of pthread_mutex_lock, _trylock, _timedlock and _unlock,                *)
(* pthread_mutex_consistent, and what a terminating thread does to the     *)
(* robust mutexes in its list (pthread_win32_thread_detach_np).            *)
(*                                                                         *)
(* One mutex; the per-thread list robustMxList is a set with at most that  *)
(* mutex in it.  Locking is not a cancelation point, so a thread ends      *)
(* between calls only.  A thread that has ended does not come back: its    *)
(* handle carries a reuse counter and equals no later thread's.            *)
(***************************************************************************)
EXTENDS Integers

CONSTANTS Threads,
          NULL,
          Kinds,      \* the kinds that pthread_mutex_init may choose from
          Ops,        \* the locking functions that the threads call
          MaxDepth    \* bound on the recursive locks of one thread

ASSUME NullAssumption == NULL \notin Threads
ASSUME KindAssumption == Kinds \subseteq {"NORMAL", "RECURSIVE", "ERRORCHECK"}
ASSUME OpAssumption == Ops \subseteq {"lock", "trylock", "timedlock"}
ASSUME DepthAssumption == MaxDepth \in Nat \ {0}

VARIABLES kind,             \* -mx->kind - 1
          lock_idx,
          event,            \* mx->event is signaled
          ownerThread,
          recursive_count,
          state,            \* robustNode->stateInconsistent; OWNERDEAD is -1
          robustMxList,     \* the thread's list holds the mutex
          pc,
          op,               \* the locking call in progress
          result,           \* its local result
          depth,            \* history: locks that the thread holds
          heir              \* history: the last thread that was told EOWNERDEAD

vars == <<kind, lock_idx, event, ownerThread, recursive_count, state,
          robustMxList, pc, op, result, depth, heir>>

mutex == <<lock_idx, event, ownerThread, recursive_count, state>>

States == {"CONSISTENT", "INCONSISTENT", "NOTRECOVERABLE", "OWNERDEAD"}

Results == {"OK", "EOWNERDEAD", "ENOTRECOVERABLE"}

Points == {"idle", "attempt", "checkOwner", "inherit", "exchange", "wait",
           "recheck", "postcheck", "unblock", "add", "unlock", "wake",
           "markDead", "wakeDead", "dead"}

Init == /\ kind \in Kinds
        /\ lock_idx = 0
        /\ event = FALSE
        /\ ownerThread = NULL
        /\ recursive_count = 0
        /\ state = "CONSISTENT"
        /\ robustMxList = [t \in Threads |-> FALSE]
        /\ pc = [t \in Threads |-> "idle"]
        /\ op = [t \in Threads |-> "lock"]
        /\ result = [t \in Threads |-> "OK"]
        /\ depth = [t \in Threads |-> 0]
        /\ heir = NULL

Goto(t, p) == pc' = [pc EXCEPT ![t] = p]

(* ptw32_robust_mutex_add, and ptw32_robust_mutex_remove, which leaves otp *)
(* behind as the owner.                                                    *)
RobustAdd(t) == /\ ownerThread' = t
                /\ robustMxList' = [robustMxList EXCEPT ![t] = TRUE]

RobustRemove(otp) ==
    /\ robustMxList' = [robustMxList EXCEPT ![ownerThread] = FALSE]
    /\ ownerThread' = otp

(* The loop of pthread_mutex_timedlock for the checking kinds looks at the *)
(* state after it ends, the other loops after every wakeup.                *)
ChecksLate(t) == op[t] = "timedlock" /\ kind # "NORMAL"

(***************************************************************************)
(* pthread_mutex_lock, pthread_mutex_trylock, pthread_mutex_timedlock      *)
(***************************************************************************)
(* The early check of the state.  The owner of a NORMAL mutex does not     *)
(* lock it again: it would wait for itself.                                *)
Lock(t, o) ==
    /\ pc[t] = "idle"
    /\ IF kind = "NORMAL" THEN depth[t] = 0 ELSE depth[t] < MaxDepth
    /\ state # "NOTRECOVERABLE"           \* or else return ENOTRECOVERABLE
    /\ op' = [op EXCEPT ![t] = o]
    /\ result' = [result EXCEPT ![t] = "OK"]
    /\ Goto(t, "attempt")
    /\ UNCHANGED <<kind, mutex, robustMxList, depth, heir>>

(* lock, timedlock of a NORMAL mutex: exchange 1.  pthread_mutex_timedlock *)
(* of a free one returns without recording the owner.                      *)
AttemptNormal(t) ==
    /\ kind = "NORMAL" /\ op[t] # "trylock"
    /\ lock_idx' = 1
    /\ \/ /\ lock_idx # 0
          /\ Goto(t, "inherit")
          /\ UNCHANGED depth
       \/ /\ lock_idx = 0
          /\ op[t] = "lock"
          /\ Goto(t, "add")
          /\ UNCHANGED depth
       \/ /\ lock_idx = 0
          /\ op[t] = "timedlock"
          /\ Goto(t, "idle")
          /\ depth' = [depth EXCEPT ![t] = 1]

(* All others: compare-and-exchange 0 by 1.                                *)
AttemptChecked(t) ==
    /\ kind # "NORMAL" \/ op[t] = "trylock"
    /\ IF lock_idx = 0
       THEN lock_idx' = 1 /\ Goto(t, "add")
       ELSE Goto(t, "checkOwner") /\ UNCHANGED lock_idx
    /\ UNCHANGED depth

Attempt(t) ==
    /\ pc[t] = "attempt"
    /\ AttemptNormal(t) \/ AttemptChecked(t)
    /\ UNCHANGED <<kind, event, ownerThread, recursive_count, state,
                   robustMxList, op, result, heir>>

(* The caller owns a recursive mutex already; or an error-checking one,    *)
(* which is EDEADLK, or EBUSY from trylock.                                *)
CheckOwner(t) ==
    /\ pc[t] = "checkOwner"
    /\ \/ /\ ownerThread = t /\ kind = "RECURSIVE"
          /\ recursive_count' = recursive_count + 1
          /\ depth' = [depth EXCEPT ![t] = @ + 1]
          /\ Goto(t, "idle")
       \/ /\ ownerThread = t /\ kind = "ERRORCHECK" /\ op[t] # "trylock"
          /\ Goto(t, "idle")
          /\ UNCHANGED <<recursive_count, depth>>
       \/ /\ \/ ownerThread # t
             \/ kind # "RECURSIVE" /\ op[t] = "trylock"
          /\ Goto(t, "inherit")
          /\ UNCHANGED <<recursive_count, depth>>
    /\ UNCHANGED <<kind, lock_idx, event, ownerThread, state,
                   robustMxList, op, result, heir>>

(* Wrong variant: the state is read and not exchanged.                     *)
InheritMutant(t) ==
    /\ pc[t] = "inherit"
    /\ \/ /\ state = "OWNERDEAD"
          /\ result' = [result EXCEPT ![t] = "EOWNERDEAD"]
          /\ heir' = t
          /\ Goto(t, IF ChecksLate(t) THEN "postcheck" ELSE "add")
       \/ /\ state # "OWNERDEAD"
          /\ Goto(t, IF op[t] = "trylock" THEN "idle" ELSE "exchange")
          /\ UNCHANGED <<result, heir>>
    /\ UNCHANGED <<kind, mutex, robustMxList, op, depth>>

(* ptw32_robust_mutex_inherit: compare-and-exchange -1 by INCONSISTENT.    *)
Inherit(t) ==
    /\ pc[t] = "inherit"
    /\ \/ /\ state = "OWNERDEAD"
          /\ state' = "INCONSISTENT"
          /\ result' = [result EXCEPT ![t] = "EOWNERDEAD"]
          /\ heir' = t
          /\ Goto(t, IF ChecksLate(t) THEN "postcheck" ELSE "add")
       \/ /\ state = "NOTRECOVERABLE"
          /\ result' = [result EXCEPT ![t] = "ENOTRECOVERABLE"]
          /\ Goto(t, IF ChecksLate(t) THEN "postcheck" ELSE "idle")
          /\ UNCHANGED <<state, heir>>
       \/ /\ state \in {"CONSISTENT", "INCONSISTENT"}
          /\ Goto(t, IF op[t] = "trylock" THEN "idle" ELSE "exchange")
          /\ UNCHANGED <<state, result, heir>>
    /\ UNCHANGED <<kind, lock_idx, event, ownerThread, recursive_count,
                   robustMxList, op, depth>>

(* Wrong variant: a waiter exchanges 1, like a new attempt.                *)
ExchangeMutant(t) ==
    /\ pc[t] = "exchange"
    /\ lock_idx' = 1
    /\ Goto(t, IF lock_idx # 0 THEN "wait"
               ELSE IF ChecksLate(t) THEN "postcheck" ELSE "add")
    /\ UNCHANGED <<kind, event, ownerThread, recursive_count, state,
                   robustMxList, op, result, depth, heir>>

(* The second half of the loop condition: exchange -1.                     *)
Exchange(t) ==
    /\ pc[t] = "exchange"
    /\ lock_idx' = -1
    /\ Goto(t, IF lock_idx # 0 THEN "wait"
               ELSE IF ChecksLate(t) THEN "postcheck" ELSE "add")
    /\ UNCHANGED <<kind, event, ownerThread, recursive_count, state,
                   robustMxList, op, result, depth, heir>>

Woken(t) ==
    /\ pc[t] = "wait"
    /\ event
    /\ event' = FALSE
    /\ Goto(t, IF ChecksLate(t) THEN "inherit" ELSE "recheck")
    /\ UNCHANGED <<kind, lock_idx, ownerThread, recursive_count, state,
                   robustMxList, op, result, depth, heir>>

Timeout(t) ==
    /\ pc[t] = "wait"
    /\ op[t] = "timedlock"
    /\ ~event
    /\ Goto(t, "idle")
    /\ UNCHANGED <<kind, mutex, robustMxList, op, result, depth, heir>>

Recheck(t) ==
    /\ pc[t] = "recheck"
    /\ Goto(t, IF state = "NOTRECOVERABLE" THEN "unblock" ELSE "inherit")
    /\ UNCHANGED <<kind, mutex, robustMxList, op, result, depth, heir>>

Postcheck(t) ==
    /\ pc[t] = "postcheck"
    /\ Goto(t, IF state = "NOTRECOVERABLE" THEN "unblock"
               ELSE IF result[t] = "ENOTRECOVERABLE" THEN "idle" ELSE "add")
    /\ UNCHANGED <<kind, mutex, robustMxList, op, result, depth, heir>>

(* SetEvent, to unblock the next thread; return ENOTRECOVERABLE.           *)
Unblock(t) ==
    /\ pc[t] = "unblock"
    /\ event' = TRUE
    /\ Goto(t, "idle")
    /\ UNCHANGED <<kind, lock_idx, ownerThread, recursive_count, state,
                   robustMxList, op, result, depth, heir>>

(* recursive_count = 1 and ptw32_robust_mutex_add.  trylock sets the count *)
(* of an inherited NORMAL mutex as well, which nothing reads.              *)
Add(t) ==
    /\ pc[t] = "add"
    /\ recursive_count' = IF kind = "NORMAL" THEN recursive_count ELSE 1
    /\ RobustAdd(t)
    /\ depth' = [depth EXCEPT ![t] = 1]
    /\ Goto(t, "idle")
    /\ UNCHANGED <<kind, lock_idx, event, state, op, result, heir>>

(***************************************************************************)
(* pthread_mutex_unlock by the recorded owner (or else EPERM): an          *)
(* inconsistent mutex becomes not recoverable, by the inner unlocks of a   *)
(* recursive one too; ptw32_robust_mutex_remove; exchange 0; SetEvent.     *)
(***************************************************************************)

(* Wrong variant: the state is not tested for INCONSISTENT.                *)
UnlockGivesUp(t) ==
    /\ pc[t] = "idle"
    /\ ownerThread = t
    /\ state' = "NOTRECOVERABLE"
    /\ depth' = [depth EXCEPT ![t] = 0]
    /\ RobustRemove(NULL)
    /\ Goto(t, "unlock")
    /\ UNCHANGED <<kind, lock_idx, event, recursive_count, op, result, heir>>

Unlock(t) ==
    /\ pc[t] = "idle"
    /\ ownerThread = t
    /\ state' = IF state = "INCONSISTENT" THEN "NOTRECOVERABLE" ELSE state
    /\ IF kind = "RECURSIVE" /\ recursive_count > 1
       THEN /\ recursive_count' = recursive_count - 1
            /\ depth' = [depth EXCEPT ![t] = @ - 1]
            /\ UNCHANGED <<ownerThread, robustMxList, pc>>
       ELSE /\ recursive_count' = IF kind = "RECURSIVE" THEN 0 ELSE recursive_count
            /\ depth' = [depth EXCEPT ![t] = 0]
            /\ RobustRemove(NULL)
            /\ Goto(t, "unlock")
    /\ UNCHANGED <<kind, lock_idx, event, op, result, heir>>

UnlockExchange(t) ==
    /\ pc[t] = "unlock"
    /\ lock_idx' = 0
    /\ Goto(t, IF lock_idx < 0 THEN "wake" ELSE "idle")
    /\ UNCHANGED <<kind, event, ownerThread, recursive_count, state,
                   robustMxList, op, result, depth, heir>>

Wake(t) ==
    /\ pc[t] \in {"wake", "wakeDead"}
    /\ event' = TRUE
    /\ Goto(t, IF pc[t] = "wake" THEN "idle" ELSE "dead")
    /\ UNCHANGED <<kind, lock_idx, ownerThread, recursive_count, state,
                   robustMxList, op, result, depth, heir>>

(* pthread_mutex_consistent.  It does not ask who calls.                   *)
Consistent(t) ==
    /\ pc[t] = "idle"
    /\ state = "INCONSISTENT"            \* or else return EINVAL
    /\ state' = "CONSISTENT"
    /\ UNCHANGED <<kind, lock_idx, event, ownerThread, recursive_count,
                   robustMxList, pc, op, result, depth, heir>>

(***************************************************************************)
(* pthread_win32_thread_detach_np: a mutex in the list leaves it (its      *)
(* ownerThread stays the ended thread), becomes -1 and its event is set.   *)
(***************************************************************************)
Exit(t) ==
    /\ pc[t] = "idle"
    /\ IF robustMxList[t]
       THEN RobustRemove(t) /\ Goto(t, "markDead")
       ELSE Goto(t, "dead") /\ UNCHANGED <<ownerThread, robustMxList>>
    /\ UNCHANGED <<kind, lock_idx, event, recursive_count, state, op, result,
                   depth, heir>>

(* Wrong variant: the mutex of an ended owner is unlocked as well.         *)
MarkDeadMutant(t) ==
    /\ pc[t] = "markDead"
    /\ state' = "OWNERDEAD"
    /\ lock_idx' = 0
    /\ depth' = [depth EXCEPT ![t] = 0]
    /\ Goto(t, "wakeDead")
    /\ UNCHANGED <<kind, event, ownerThread, recursive_count,
                   robustMxList, op, result, heir>>

MarkDead(t) ==
    /\ pc[t] = "markDead"
    /\ state' = "OWNERDEAD"
    /\ depth' = [depth EXCEPT ![t] = 0]
    /\ Goto(t, "wakeDead")
    /\ UNCHANGED <<kind, lock_idx, event, ownerThread, recursive_count,
                   robustMxList, op, result, heir>>

Step(t) == \/ Attempt(t) \/ CheckOwner(t) \/ Inherit(t) \/ Exchange(t) \/ Woken(t)
           \/ Recheck(t) \/ Postcheck(t) \/ Unblock(t) \/ Add(t)
           \/ UnlockExchange(t) \/ Wake(t) \/ MarkDead(t)

Call(t) == (\E o \in Ops : Lock(t, o)) \/ Unlock(t) \/ Consistent(t) \/ Exit(t)

Next == \E t \in Threads : Call(t) \/ Step(t) \/ Timeout(t)

Spec == Init /\ [][Next]_vars

(***************************************************************************)
(* Properties                                                              *)
(***************************************************************************)
(* Types of the mutex fields and of the threads' positions.                *)
TypeOK ==
    /\ kind \in Kinds
    /\ lock_idx \in {-1, 0, 1}
    /\ event \in BOOLEAN
    /\ ownerThread \in Threads \cup {NULL}
    /\ recursive_count \in Nat
    /\ state \in States
    /\ robustMxList \in [Threads -> BOOLEAN]
    /\ pc \in [Threads -> Points]
    /\ op \in [Threads -> {"lock", "trylock", "timedlock"}]
    /\ result \in [Threads -> Results]
    /\ depth \in [Threads -> Nat]
    /\ heir \in Threads \cup {NULL}

(* The thread owns the mutex, or is about to record that it does, or is    *)
(* releasing it.                                                           *)
Owns(t) == \/ depth[t] > 0
           \/ pc[t] \in {"add", "unlock"}
           \/ pc[t] = "postcheck" /\ result[t] # "ENOTRECOVERABLE"

(* At no time do two threads own the mutex, although an heir takes it over *)
(* from an ended owner without touching lock_idx.                          *)
MutualExclusion == \A t, u \in Threads : Owns(t) /\ Owns(u) => t = u

(* The death of an owner is reported once, to the next owner: while it is  *)
(* unreported nobody owns the mutex and nobody can take it by lock_idx;    *)
(* while the mutex is INCONSISTENT its owner is the thread that was told   *)
(* EOWNERDEAD.                                                             *)
DeathReported ==
    /\ state = "OWNERDEAD" => lock_idx # 0 /\ \A t \in Threads : ~Owns(t)
    /\ state = "INCONSISTENT" => lock_idx # 0 /\ heir # NULL /\ Owns(heir)

(* Only the heir, by unlocking, makes a mutex NOTRECOVERABLE; and only the *)
(* end of an owner makes it OWNERDEAD.                                     *)
OnlyHeirGivesUp ==
    [][/\ state # "NOTRECOVERABLE" /\ state' = "NOTRECOVERABLE" =>
             heir # NULL /\ depth[heir] > depth'[heir]
       /\ state # "OWNERDEAD" /\ state' = "OWNERDEAD" =>
             \E t \in Threads : depth[t] > 0 /\ pc'[t] = "wakeDead"]_vars

(* As long as no thread has ended, no wakeup is lost.                      *)
NoLostWakeup ==
    (\A t \in Threads : pc[t] \notin {"markDead", "wakeDead", "dead"}) =>
        \A t \in Threads : pc[t] = "wait" =>
            \/ event
            \/ lock_idx = -1
            \/ \E u \in Threads : pc[u] \in {"inherit", "exchange", "recheck", "wake"}

=============================================================================
