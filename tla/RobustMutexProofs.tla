------------------------- MODULE RobustMutexProofs -------------------------
(***************************************************************************)
(* Proofs about RobustMutex, for any number of threads, of which any may   *)
(* end while it owns the mutex: one owner at a time, a death that is told  *)
(* to one heir, and no lost wakeup while nobody has ended.                 *)
(***************************************************************************)
EXTENDS RobustMutex, TLAPS

Ended(t) == pc[t] \in {"wakeDead", "dead"}

(* lock_idx is 0 only if nobody owns the mutex.                            *)
OwnerLocks == \A t \in Threads : Owns(t) => lock_idx # 0

(* The recorded owner owns the mutex, unless it has ended, and knows how   *)
(* often it has locked a recursive one; only it has the mutex in its list. *)
OwnerIsRecorded ==
    \A t \in Threads :
        /\ ownerThread = t /\ ~Ended(t) =>
              /\ depth[t] > 0
              /\ kind = "RECURSIVE" => recursive_count = depth[t]
        /\ robustMxList[t] <=> ownerThread = t /\ pc[t] # "markDead" /\ ~Ended(t)

(* Where a thread is on its way out of the mutex, or waits for it.         *)
Places ==
    \A t \in Threads :
        /\ pc[t] = "unlock" => depth[t] = 0 /\ state # "INCONSISTENT"
        /\ pc[t] = "markDead" => depth[t] > 0
        /\ pc[t] \in {"exchange", "wait", "recheck"} => op[t] # "trylock"

(* Some thread will take the mutex or set -1 before it sleeps.             *)
OnItsWay == \E u \in Threads : \/ pc[u] \in {"exchange", "recheck", "wake"}
                               \/ pc[u] = "inherit" /\ op[u] # "trylock"

AllAlive == \A t \in Threads : pc[t] \notin {"markDead", "wakeDead", "dead"}

(* While every thread is alive the state does not change, and whoever      *)
(* waits will be woken.                                                    *)
SleepersServed ==
    AllAlive => /\ state = "CONSISTENT"
                /\ \A t \in Threads : pc[t] = "wait" =>
                      event \/ lock_idx = -1 \/ OnItsWay

IInv == /\ TypeOK
        /\ MutualExclusion
        /\ DeathReported
        /\ OwnerLocks
        /\ OwnerIsRecorded
        /\ Places
        /\ SleepersServed

USE DEF Goto

LEMMA InitIInv == Init => IInv
<1> SUFFICES ASSUME Init PROVE IInv
  OBVIOUS
<1>1. TypeOK
  BY DEF Init, TypeOK, Points, States, Results
<1>2. MutualExclusion /\ DeathReported /\ OwnerLocks
  BY DEF Init, MutualExclusion, DeathReported, OwnerLocks, Owns
<1>3. OwnerIsRecorded /\ Places /\ SleepersServed
  BY NullAssumption DEF Init, OwnerIsRecorded, Places, SleepersServed, Ended
<1> QED
  BY <1>1, <1>2, <1>3 DEF IInv

(* A new call changes nothing but the place of its thread.                 *)
LEMMA LockIInv ==
    ASSUME IInv, NEW t \in Threads, NEW o \in Ops, Lock(t, o)
    PROVE  IInv'
<1> USE DEF IInv, Lock, mutex
<1>1. TypeOK'
  BY OpAssumption, NullAssumption DEF TypeOK, Points, States, Results
<1>2. MutualExclusion' /\ OwnerLocks'
  BY NullAssumption DEF TypeOK, MutualExclusion, OwnerLocks, Owns, DeathReported
<1>3. DeathReported'
  BY NullAssumption DEF TypeOK, MutualExclusion, OwnerLocks, Owns, DeathReported,
     Places
<1>4. OwnerIsRecorded'
  BY NullAssumption DEF TypeOK, OwnerIsRecorded, Ended
<1>5. Places'
  BY DEF TypeOK, Places, DeathReported, Owns
<1>6. SleepersServed'
  BY DEF TypeOK, SleepersServed, OnItsWay, AllAlive, Places
<1> QED
  BY <1>1, <1>2, <1>3, <1>4, <1>5, <1>6

(* Whoever finds lock_idx = 0 is alone: no owner, and no death unreported. *)
LEMMA AttemptIInv == ASSUME IInv, NEW t \in Threads, Attempt(t) PROVE IInv'
<1> USE DEF IInv, Attempt, AttemptNormal, AttemptChecked
<1>1. TypeOK'
  BY OpAssumption, NullAssumption DEF TypeOK, Points, States, Results
<1>2. MutualExclusion' /\ OwnerLocks'
  BY NullAssumption DEF TypeOK, MutualExclusion, OwnerLocks, Owns, DeathReported
<1>3. DeathReported'
  BY NullAssumption DEF TypeOK, MutualExclusion, OwnerLocks, Owns, DeathReported,
     Places
<1>4. OwnerIsRecorded'
  BY NullAssumption DEF TypeOK, OwnerIsRecorded, Ended
<1>5. Places'
  BY DEF TypeOK, Places, DeathReported, Owns
<1>6. SleepersServed'
  BY DEF TypeOK, SleepersServed, OnItsWay, AllAlive, Places
<1> QED
  BY <1>1, <1>2, <1>3, <1>4, <1>5, <1>6

(* The recorded owner locks again, which makes no new owner.               *)
LEMMA CheckOwnerIInv == ASSUME IInv, NEW t \in Threads, CheckOwner(t) PROVE IInv'
<1> USE DEF IInv, CheckOwner
<1>1. TypeOK'
  BY OpAssumption, NullAssumption DEF TypeOK, Points, States, Results
<1>2. MutualExclusion' /\ OwnerLocks'
  BY NullAssumption DEF TypeOK, MutualExclusion, OwnerLocks, Owns, DeathReported,
     OwnerIsRecorded, Ended
<1>3. DeathReported'
  BY NullAssumption DEF TypeOK, MutualExclusion, OwnerLocks, Owns, DeathReported,
     Places, OwnerIsRecorded, Ended
<1>4. OwnerIsRecorded'
  BY NullAssumption DEF TypeOK, OwnerIsRecorded, Ended
<1>5. Places'
  BY DEF TypeOK, Places, DeathReported, Owns
<1>6. SleepersServed'
  BY DEF TypeOK, SleepersServed, OnItsWay, AllAlive, Places
<1> QED
  BY <1>1, <1>2, <1>3, <1>4, <1>5, <1>6

(* An heir finds OWNERDEAD, so that nobody owns the mutex, and lock_idx    *)
(* has been left as the ended owner set it.                                *)
LEMMA InheritIInv == ASSUME IInv, NEW t \in Threads, Inherit(t) PROVE IInv'
<1> USE DEF IInv, Inherit, ChecksLate
<1>1. TypeOK'
  BY OpAssumption, NullAssumption DEF TypeOK, Points, States, Results
<1>2. MutualExclusion' /\ OwnerLocks'
  BY NullAssumption DEF TypeOK, MutualExclusion, OwnerLocks, Owns, DeathReported
<1>3. DeathReported'
  BY NullAssumption DEF TypeOK, MutualExclusion, OwnerLocks, Owns, DeathReported,
     Places
<1>4. OwnerIsRecorded'
  BY NullAssumption DEF TypeOK, OwnerIsRecorded, Ended
<1>5. Places'
  BY DEF TypeOK, Places, DeathReported, Owns
<1>6. SleepersServed'
  BY DEF TypeOK, SleepersServed, OnItsWay, AllAlive, Places
<1> QED
  BY <1>1, <1>2, <1>3, <1>4, <1>5, <1>6

(* Like an attempt, and a thread that sleeps now leaves -1 behind.         *)
LEMMA ExchangeIInv == ASSUME IInv, NEW t \in Threads, Exchange(t) PROVE IInv'
<1> USE DEF IInv, Exchange, ChecksLate
<1>1. TypeOK'
  BY OpAssumption, NullAssumption DEF TypeOK, Points, States, Results
<1>2. MutualExclusion' /\ OwnerLocks'
  BY NullAssumption DEF TypeOK, MutualExclusion, OwnerLocks, Owns, DeathReported
<1>3. DeathReported'
  BY NullAssumption DEF TypeOK, MutualExclusion, OwnerLocks, Owns, DeathReported,
     Places
<1>4. OwnerIsRecorded'
  BY NullAssumption DEF TypeOK, OwnerIsRecorded, Ended
<1>5. Places'
  BY DEF TypeOK, Places, DeathReported, Owns
<1>6. SleepersServed'
  BY DEF TypeOK, SleepersServed, OnItsWay, AllAlive, Places
<1> QED
  BY <1>1, <1>2, <1>3, <1>4, <1>5, <1>6

LEMMA WokenIInv == ASSUME IInv, NEW t \in Threads, Woken(t) PROVE IInv'
<1> USE DEF IInv, Woken, ChecksLate
<1>1. TypeOK'
  BY OpAssumption, NullAssumption DEF TypeOK, Points, States, Results
<1>2. MutualExclusion' /\ OwnerLocks'
  BY NullAssumption DEF TypeOK, MutualExclusion, OwnerLocks, Owns, DeathReported
<1>3. DeathReported'
  BY NullAssumption DEF TypeOK, MutualExclusion, OwnerLocks, Owns, DeathReported,
     Places
<1>4. OwnerIsRecorded'
  BY NullAssumption DEF TypeOK, OwnerIsRecorded, Ended
<1>5. Places'
  BY DEF TypeOK, Places, DeathReported, Owns
<1>6. SleepersServed'
  BY DEF TypeOK, SleepersServed, OnItsWay, AllAlive, Places
<1> QED
  BY <1>1, <1>2, <1>3, <1>4, <1>5, <1>6

LEMMA TimeoutIInv == ASSUME IInv, NEW t \in Threads, Timeout(t) PROVE IInv'
<1> USE DEF IInv, Timeout, mutex
<1>1. TypeOK'
  BY OpAssumption, NullAssumption DEF TypeOK, Points, States, Results
<1>2. MutualExclusion' /\ OwnerLocks'
  BY NullAssumption DEF TypeOK, MutualExclusion, OwnerLocks, Owns, DeathReported
<1>3. DeathReported'
  BY NullAssumption DEF TypeOK, MutualExclusion, OwnerLocks, Owns, DeathReported,
     Places
<1>4. OwnerIsRecorded'
  BY NullAssumption DEF TypeOK, OwnerIsRecorded, Ended
<1>5. Places'
  BY DEF TypeOK, Places, DeathReported, Owns
<1>6. SleepersServed'
  BY DEF TypeOK, SleepersServed, OnItsWay, AllAlive, Places
<1> QED
  BY <1>1, <1>2, <1>3, <1>4, <1>5, <1>6

LEMMA RecheckIInv == ASSUME IInv, NEW t \in Threads, Recheck(t) PROVE IInv'
<1> USE DEF IInv, Recheck, mutex
<1>1. TypeOK'
  BY OpAssumption, NullAssumption DEF TypeOK, Points, States, Results
<1>2. MutualExclusion' /\ OwnerLocks'
  BY NullAssumption DEF TypeOK, MutualExclusion, OwnerLocks, Owns, DeathReported
<1>3. DeathReported'
  BY NullAssumption DEF TypeOK, MutualExclusion, OwnerLocks, Owns, DeathReported,
     Places
<1>4. OwnerIsRecorded'
  BY NullAssumption DEF TypeOK, OwnerIsRecorded, Ended
<1>5. Places'
  BY DEF TypeOK, Places, DeathReported, Owns
<1>6. SleepersServed'
  BY DEF TypeOK, SleepersServed, OnItsWay, AllAlive, Places
<1> QED
  BY <1>1, <1>2, <1>3, <1>4, <1>5, <1>6

LEMMA PostcheckIInv == ASSUME IInv, NEW t \in Threads, Postcheck(t) PROVE IInv'
<1> USE DEF IInv, Postcheck, mutex, ChecksLate
<1>1. TypeOK'
  BY OpAssumption, NullAssumption DEF TypeOK, Points, States, Results
<1>2. MutualExclusion' /\ OwnerLocks'
  BY NullAssumption DEF TypeOK, MutualExclusion, OwnerLocks, Owns, DeathReported
<1>3. DeathReported'
  BY NullAssumption DEF TypeOK, MutualExclusion, OwnerLocks, Owns, DeathReported,
     Places
<1>4. OwnerIsRecorded'
  BY NullAssumption DEF TypeOK, OwnerIsRecorded, Ended
<1>5. Places'
  BY DEF TypeOK, Places, DeathReported, Owns
<1>6. SleepersServed'
  BY DEF TypeOK, SleepersServed, OnItsWay, AllAlive, Places
<1> QED
  BY <1>1, <1>2, <1>3, <1>4, <1>5, <1>6

LEMMA UnblockIInv == ASSUME IInv, NEW t \in Threads, Unblock(t) PROVE IInv'
<1> USE DEF IInv, Unblock
<1>1. TypeOK'
  BY OpAssumption, NullAssumption DEF TypeOK, Points, States, Results
<1>2. MutualExclusion' /\ OwnerLocks'
  BY NullAssumption DEF TypeOK, MutualExclusion, OwnerLocks, Owns, DeathReported
<1>3. DeathReported'
  BY NullAssumption DEF TypeOK, MutualExclusion, OwnerLocks, Owns, DeathReported,
     Places
<1>4. OwnerIsRecorded'
  BY NullAssumption DEF TypeOK, OwnerIsRecorded, Ended
<1>5. Places'
  BY DEF TypeOK, Places, DeathReported, Owns
<1>6. SleepersServed'
  BY DEF TypeOK, SleepersServed, OnItsWay, AllAlive, Places
<1> QED
  BY <1>1, <1>2, <1>3, <1>4, <1>5, <1>6

(* The thread owns the mutex, so that no other is recorded but an ended    *)
(* one.                                                                    *)
LEMMA AddIInv == ASSUME IInv, NEW t \in Threads, Add(t) PROVE IInv'
<1> USE DEF IInv, Add, RobustAdd
<1>1. TypeOK'
  BY OpAssumption, NullAssumption DEF TypeOK, Points, States, Results
<1>2. MutualExclusion' /\ OwnerLocks'
  BY NullAssumption DEF TypeOK, MutualExclusion, OwnerLocks, Owns, DeathReported
<1>3. DeathReported'
  BY NullAssumption DEF TypeOK, MutualExclusion, OwnerLocks, Owns, DeathReported,
     Places
<1>4. OwnerIsRecorded'
  BY NullAssumption DEF TypeOK, OwnerIsRecorded, Ended, MutualExclusion, Owns, Places
<1>5. Places'
  BY DEF TypeOK, Places, DeathReported, Owns
<1>6. SleepersServed'
  BY DEF TypeOK, SleepersServed, OnItsWay, AllAlive, Places
<1> QED
  BY <1>1, <1>2, <1>3, <1>4, <1>5, <1>6

(* The caller is the recorded owner, and if the mutex is INCONSISTENT it   *)
(* is the heir.                                                            *)
LEMMA UnlockIInv == ASSUME IInv, NEW t \in Threads, Unlock(t) PROVE IInv'
<1> USE DEF IInv, Unlock, RobustRemove
<1>1. TypeOK'
  <2>1. depth[t] \in Nat \ {0}
    BY DEF TypeOK, OwnerIsRecorded, Ended
  <2>2. depth' \in [Threads -> Nat] /\ recursive_count' \in Nat
    BY <2>1 DEF TypeOK
  <2>3. /\ pc' \in [Threads -> Points]
        /\ robustMxList' \in [Threads -> BOOLEAN]
        /\ ownerThread' \in Threads \cup {NULL}
        /\ state' \in States
    BY DEF TypeOK, Points, States
  <2> QED
    BY <2>2, <2>3 DEF TypeOK
<1>2. MutualExclusion' /\ OwnerLocks'
  BY NullAssumption DEF TypeOK, MutualExclusion, OwnerLocks, Owns, DeathReported,
     OwnerIsRecorded, Ended
<1>3. DeathReported'
  BY NullAssumption DEF TypeOK, MutualExclusion, OwnerLocks, Owns, DeathReported,
     Places, OwnerIsRecorded, Ended
<1>4. OwnerIsRecorded'
  BY NullAssumption DEF TypeOK, OwnerIsRecorded, Ended
<1>5. Places'
  BY DEF TypeOK, Places, DeathReported, Owns
<1>6. SleepersServed'
  BY DEF TypeOK, SleepersServed, OnItsWay, AllAlive, Places
<1> QED
  BY <1>1, <1>2, <1>3, <1>4, <1>5, <1>6

(* The thread was the last owner. A -1 that it takes back becomes its      *)
(* wakeup.                                                                 *)
LEMMA UnlockExchangeIInv ==
    ASSUME IInv, NEW t \in Threads, UnlockExchange(t)
    PROVE  IInv'
<1> USE DEF IInv, UnlockExchange
<1>1. TypeOK'
  BY OpAssumption, NullAssumption DEF TypeOK, Points, States, Results
<1>2. MutualExclusion' /\ OwnerLocks'
  BY NullAssumption DEF TypeOK, MutualExclusion, OwnerLocks, Owns, DeathReported,
     Places
<1>3. DeathReported'
  BY NullAssumption DEF TypeOK, MutualExclusion, OwnerLocks, Owns, DeathReported,
     Places
<1>4. OwnerIsRecorded'
  BY NullAssumption DEF TypeOK, OwnerIsRecorded, Ended
<1>5. Places'
  BY DEF TypeOK, Places, DeathReported, Owns
<1>6. SleepersServed'
  BY DEF TypeOK, SleepersServed, OnItsWay, AllAlive, Places
<1> QED
  BY <1>1, <1>2, <1>3, <1>4, <1>5, <1>6

LEMMA WakeIInv == ASSUME IInv, NEW t \in Threads, Wake(t) PROVE IInv'
<1> USE DEF IInv, Wake
<1>1. TypeOK'
  BY OpAssumption, NullAssumption DEF TypeOK, Points, States, Results
<1>2. MutualExclusion' /\ OwnerLocks'
  BY NullAssumption DEF TypeOK, MutualExclusion, OwnerLocks, Owns, DeathReported
<1>3. DeathReported'
  BY NullAssumption DEF TypeOK, MutualExclusion, OwnerLocks, Owns, DeathReported,
     Places
<1>4. OwnerIsRecorded'
  BY NullAssumption DEF TypeOK, OwnerIsRecorded, Ended
<1>5. Places'
  BY DEF TypeOK, Places, DeathReported, Owns
<1>6. SleepersServed'
  BY DEF TypeOK, SleepersServed, OnItsWay, AllAlive, Places
<1> QED
  BY <1>1, <1>2, <1>3, <1>4, <1>5, <1>6

LEMMA ConsistentIInv == ASSUME IInv, NEW t \in Threads, Consistent(t) PROVE IInv'
<1> USE DEF IInv, Consistent
<1>1. TypeOK'
  BY OpAssumption, NullAssumption DEF TypeOK, Points, States, Results
<1>2. MutualExclusion' /\ OwnerLocks'
  BY NullAssumption DEF TypeOK, MutualExclusion, OwnerLocks, Owns, DeathReported
<1>3. DeathReported'
  BY NullAssumption DEF TypeOK, MutualExclusion, OwnerLocks, Owns, DeathReported,
     Places
<1>4. OwnerIsRecorded'
  BY NullAssumption DEF TypeOK, OwnerIsRecorded, Ended
<1>5. Places'
  BY DEF TypeOK, Places, DeathReported, Owns
<1>6. SleepersServed'
  BY DEF TypeOK, SleepersServed, OnItsWay, AllAlive, Places
<1> QED
  BY <1>1, <1>2, <1>3, <1>4, <1>5, <1>6

(* An ended thread is still the recorded owner until the next one adds     *)
(* itself, but has the mutex in no list.                                   *)
LEMMA ExitIInv == ASSUME IInv, NEW t \in Threads, Exit(t) PROVE IInv'
<1> USE DEF IInv, Exit, RobustRemove
<1>1. TypeOK'
  BY OpAssumption, NullAssumption DEF TypeOK, Points, States, Results
<1>2. MutualExclusion' /\ OwnerLocks'
  BY NullAssumption DEF TypeOK, MutualExclusion, OwnerLocks, Owns, DeathReported
<1>3. DeathReported'
  BY NullAssumption DEF TypeOK, MutualExclusion, OwnerLocks, Owns, DeathReported,
     Places
<1>4. OwnerIsRecorded'
  BY NullAssumption DEF TypeOK, OwnerIsRecorded, Ended
<1>5. Places'
  BY DEF TypeOK, Places, DeathReported, Owns, OwnerIsRecorded, Ended
<1>6. SleepersServed'
  BY DEF TypeOK, SleepersServed, OnItsWay, AllAlive, Places
<1> QED
  BY <1>1, <1>2, <1>3, <1>4, <1>5, <1>6

(* The ended owner owns the mutex no longer, but nobody can take lock_idx. *)
LEMMA MarkDeadIInv == ASSUME IInv, NEW t \in Threads, MarkDead(t) PROVE IInv'
<1> USE DEF IInv, MarkDead
<1>1. TypeOK'
  BY OpAssumption, NullAssumption DEF TypeOK, Points, States, Results
<1>2. MutualExclusion' /\ OwnerLocks'
  BY NullAssumption DEF TypeOK, MutualExclusion, OwnerLocks, Owns, DeathReported
<1>3. DeathReported'
  BY NullAssumption DEF TypeOK, MutualExclusion, OwnerLocks, Owns, DeathReported,
     Places
<1>4. OwnerIsRecorded'
  BY NullAssumption DEF TypeOK, OwnerIsRecorded, Ended
<1>5. Places'
  BY DEF TypeOK, Places, DeathReported, Owns
<1>6. SleepersServed'
  BY DEF TypeOK, SleepersServed, OnItsWay, AllAlive, Places
<1> QED
  BY <1>1, <1>2, <1>3, <1>4, <1>5, <1>6

LEMMA NextIInv == IInv /\ [Next]_vars => IInv'
<1> SUFFICES ASSUME IInv, [Next]_vars PROVE IInv'
  OBVIOUS
<1>1. CASE UNCHANGED vars
  BY <1>1 DEF vars, mutex, IInv, TypeOK, MutualExclusion, DeathReported, OwnerLocks,
              OwnerIsRecorded, Places, SleepersServed, OnItsWay, AllAlive, Ended, Owns
<1>2. CASE Next
  BY <1>2, LockIInv, AttemptIInv, CheckOwnerIInv, InheritIInv, ExchangeIInv,
     WokenIInv, TimeoutIInv, RecheckIInv, PostcheckIInv, UnblockIInv, AddIInv,
     UnlockIInv, UnlockExchangeIInv, WakeIInv, ConsistentIInv, ExitIInv,
     MarkDeadIInv DEF Next, Step, Call
<1> QED
  BY <1>1, <1>2

(* The invariant that the theorems below rest on.                          *)
THEOREM Invariance == Spec => []IInv
BY InitIInv, NextIInv, PTL DEF Spec

(* pthread_mutex_lock, _trylock and _timedlock let no two threads own a    *)
(* robust mutex, although an heir takes it over without touching lock_idx. *)
THEOREM Exclusion == Spec => []MutualExclusion
<1>1. IInv => MutualExclusion
  BY DEF IInv
<1> QED
  BY Invariance, <1>1, PTL

(* The death of an owner is told to one heir, and until then nobody gets   *)
(* the mutex.                                                              *)
THEOREM DeathTold == Spec => []DeathReported
<1>1. IInv => DeathReported
  BY DEF IInv
<1> QED
  BY Invariance, <1>1, PTL

(* While no thread has ended, a thread that sleeps has an event, a -1 or   *)
(* another thread on its way that will wake it.                            *)
THEOREM WakeupsKept == Spec => []NoLostWakeup
<1>1. IInv => NoLostWakeup
  BY DEF IInv, SleepersServed, NoLostWakeup, OnItsWay, AllAlive
<1> QED
  BY Invariance, <1>1, PTL

(* Only the unlock of the heir gives a mutex up, and only the end of an    *)
(* owner asks for an heir.                                                 *)
THEOREM HeirDecides == Spec => OnlyHeirGivesUp
<1> DEFINE Decided ==
      /\ state # "NOTRECOVERABLE" /\ state' = "NOTRECOVERABLE" =>
            heir # NULL /\ depth[heir] > depth'[heir]
      /\ state # "OWNERDEAD" /\ state' = "OWNERDEAD" =>
            \E t \in Threads : depth[t] > 0 /\ pc'[t] = "wakeDead"
<1>1. IInv /\ [Next]_vars => [Decided]_vars
  <2> SUFFICES ASSUME IInv, Next PROVE Decided
    OBVIOUS
  <2>1. ASSUME NEW t \in Threads, MarkDead(t) PROVE Decided
    BY <2>1 DEF IInv, TypeOK, Places, MarkDead
  <2>2. ASSUME NEW t \in Threads, Unlock(t) PROVE Decided
    <3>1. depth[t] > 0 /\ Owns(t)
      BY <2>2 DEF IInv, TypeOK, OwnerIsRecorded, Ended, Unlock, Owns
    <3>2. depth[t] > depth'[t]
      BY <3>1, <2>2 DEF IInv, TypeOK, Unlock
    <3>3. state = "INCONSISTENT" => heir = t
      BY <3>1, NullAssumption DEF IInv, TypeOK, DeathReported, MutualExclusion
    <3> QED
      BY <2>2, <3>2, <3>3, NullAssumption DEF Unlock
  <2>3. ASSUME NEW t \in Threads,
               Step(t) \/ Call(t) \/ Timeout(t), ~MarkDead(t), ~Unlock(t)
        PROVE  Decided
    BY <2>3 DEF Step, Call, Attempt, CheckOwner, Inherit, Exchange, Woken, Recheck,
       Postcheck, Unblock, Add, UnlockExchange, Wake, Lock, Consistent, Exit,
       Timeout, mutex, RobustAdd
  <2> QED
    BY <2>1, <2>2, <2>3 DEF Next
<1> QED
  BY Invariance, <1>1, PTL DEF Spec, OnlyHeirGivesUp
=============================================================================
