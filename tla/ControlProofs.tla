--------------------------- MODULE ControlProofs ---------------------------
(***************************************************************************)
(* Proofs about the modules that extend Control: Mutex, Spin, Once and     *)
(* Keys, each for any number of threads.  They share nothing but the       *)
(* points of the threads, so no theorem is about two of them; a section    *)
(* proves the inductive invariant of its module, one lemma for each        *)
(* action, and then the properties.                                        *)
(***************************************************************************)
EXTENDS Mutex, Spin, Once, Keys, TLAPS

(***************************************************************************)
(* Mutex, for any bound on depth: the mutex excludes, records its owner    *)
(* and loses no wakeup.                                                    *)
(***************************************************************************)

USE NullAssumption DEF Goto, Return, Deepen

(* A mutex as pthread_mutex_init leaves it satisfies the invariant.        *)
LEMMA InitIInv == Init => IInv
<1> SUFFICES ASSUME Init PROVE IInv
  OBVIOUS
<1>1. TypeOK
  BY DepthAssumption DEF Init, TypeOK, Kinds, Points
<1>2. MutualExclusion
  BY DEF Init, MutualExclusion, Owns
<1>3. NoLostWakeup /\ OwnerRecorded /\ Between
  BY DEF Init, NoLostWakeup, OwnerRecorded, Between
<1> QED
  BY <1>1, <1>2, <1>3 DEF IInv

(* One lemma for each action.                                              *)

(* The first exchange or compare-and-exchange of lock and timedlock.       *)
LEMMA LockIInv ==
    ASSUME IInv, NEW t \in Threads, NEW tm \in BOOLEAN, Lock(t, tm)
    PROVE  IInv'
<1> USE DEF IInv, Lock, LockNormal, LockChecked
<1>1. TypeOK'
  BY DEF TypeOK, Kinds, Points
<1>2. MutualExclusion'
  BY DEF TypeOK, Kinds, Points, MutualExclusion, Owns, OwnerRecorded, Between
<1>3. NoLostWakeup'
  BY DEF TypeOK, Kinds, Points, NoLostWakeup, MutualExclusion, Owns
<1>4. OwnerRecorded'
  BY DEF TypeOK, Kinds, Points, OwnerRecorded, MutualExclusion, Owns, Between
<1>5. Between'
  BY DEF TypeOK, Kinds, Points, Between, MutualExclusion, Owns
<1> QED
  BY <1>1, <1>2, <1>3, <1>4, <1>5

(* Locking a mutex that the caller may own already.                        *)
LEMMA CheckOwnerIInv ==
    ASSUME IInv, NEW t \in Threads, CheckOwner(t)
    PROVE  IInv'
<1> USE DEF IInv, CheckOwner
<1>1. TypeOK'
  BY DEF TypeOK, Kinds, Points
<1>2. MutualExclusion'
  BY DEF TypeOK, Kinds, Points, MutualExclusion, Owns, OwnerRecorded, Between
<1>3. NoLostWakeup'
  BY DEF TypeOK, Kinds, Points, NoLostWakeup, MutualExclusion, Owns
<1>4. OwnerRecorded'
  BY DEF TypeOK, Kinds, Points, OwnerRecorded, MutualExclusion, Owns, Between
<1>5. Between'
  BY DEF TypeOK, Kinds, Points, Between, MutualExclusion, Owns
<1> QED
  BY <1>1, <1>2, <1>3, <1>4, <1>5

(* The head of the waiting loop: the thread takes the mutex or announces   *)
(* that it waits.                                                          *)
LEMMA ExchangeIInv ==
    ASSUME IInv, NEW t \in Threads, Exchange(t)
    PROVE  IInv'
<1> USE DEF IInv, Exchange
<1>1. TypeOK'
  BY DEF TypeOK, Kinds, Points
<1>2. MutualExclusion'
  BY DEF TypeOK, Kinds, Points, MutualExclusion, Owns, OwnerRecorded, Between
<1>3. NoLostWakeup'
  BY DEF TypeOK, Kinds, Points, NoLostWakeup, MutualExclusion, Owns
<1>4. OwnerRecorded'
  BY DEF TypeOK, Kinds, Points, OwnerRecorded, MutualExclusion, Owns, Between
<1>5. Between'
  BY DEF TypeOK, Kinds, Points, Between, MutualExclusion, Owns
<1> QED
  BY <1>1, <1>2, <1>3, <1>4, <1>5

(* A waiter consumes the event; it is then itself on its way to look       *)
(* again.                                                                  *)
LEMMA WokenIInv ==
    ASSUME IInv, NEW t \in Threads, Woken(t)
    PROVE  IInv'
<1> USE DEF IInv, Woken
<1>1. TypeOK'
  BY DEF TypeOK, Kinds, Points
<1>2. MutualExclusion'
  BY DEF TypeOK, Kinds, Points, MutualExclusion, Owns, OwnerRecorded, Between
<1>3. NoLostWakeup'
  BY DEF TypeOK, Kinds, Points, NoLostWakeup, MutualExclusion, Owns
<1>4. OwnerRecorded'
  BY DEF TypeOK, Kinds, Points, OwnerRecorded, MutualExclusion, Owns, Between
<1>5. Between'
  BY DEF TypeOK, Kinds, Points, Between, MutualExclusion, Owns
<1> QED
  BY <1>1, <1>2, <1>3, <1>4, <1>5

(* A timed wait ends without the event.                                    *)
LEMMA TimeoutIInv ==
    ASSUME IInv, NEW t \in Threads, Timeout(t)
    PROVE  IInv'
<1> USE DEF IInv, Timeout
<1>1. TypeOK'
  BY DEF TypeOK, Kinds, Points
<1>2. MutualExclusion'
  BY DEF TypeOK, Kinds, Points, MutualExclusion, Owns, OwnerRecorded, Between
<1>3. NoLostWakeup'
  BY DEF TypeOK, Kinds, Points, NoLostWakeup, MutualExclusion, Owns
<1>4. OwnerRecorded'
  BY DEF TypeOK, Kinds, Points, OwnerRecorded, MutualExclusion, Owns, Between
<1>5. Between'
  BY DEF TypeOK, Kinds, Points, Between, MutualExclusion, Owns
<1> QED
  BY <1>1, <1>2, <1>3, <1>4, <1>5

(* The new owner of a checking mutex records itself.                       *)
LEMMA SetOwnerIInv ==
    ASSUME IInv, NEW t \in Threads, SetOwner(t)
    PROVE  IInv'
<1> USE DEF IInv, SetOwner
<1>1. TypeOK'
  BY DEF TypeOK, Kinds, Points
<1>2. MutualExclusion'
  BY DEF TypeOK, Kinds, Points, MutualExclusion, Owns, OwnerRecorded, Between
<1>3. NoLostWakeup'
  BY DEF TypeOK, Kinds, Points, NoLostWakeup, MutualExclusion, Owns
<1>4. OwnerRecorded'
  BY DEF TypeOK, Kinds, Points, OwnerRecorded, MutualExclusion, Owns, Between
<1>5. Between'
  BY DEF TypeOK, Kinds, Points, Between, MutualExclusion, Owns
<1> QED
  BY <1>1, <1>2, <1>3, <1>4, <1>5

(* pthread_mutex_trylock.                                                  *)
LEMMA TrylockIInv ==
    ASSUME IInv, NEW t \in Threads, Trylock(t)
    PROVE  IInv'
<1> USE DEF IInv, Trylock
<1>1. TypeOK'
  BY DEF TypeOK, Kinds, Points
<1>2. MutualExclusion'
  BY DEF TypeOK, Kinds, Points, MutualExclusion, Owns, OwnerRecorded, Between
<1>3. NoLostWakeup'
  BY DEF TypeOK, Kinds, Points, NoLostWakeup, MutualExclusion, Owns
<1>4. OwnerRecorded'
  BY DEF TypeOK, Kinds, Points, OwnerRecorded, MutualExclusion, Owns, Between
<1>5. Between'
  BY DEF TypeOK, Kinds, Points, Between, MutualExclusion, Owns
<1> QED
  BY <1>1, <1>2, <1>3, <1>4, <1>5

(* pthread_mutex_unlock up to the exchange of 0.                           *)
LEMMA UnlockIInv ==
    ASSUME IInv, NEW t \in Threads, Unlock(t)
    PROVE  IInv'
<1> USE DEF IInv, Unlock, UnlockNormal, UnlockChecked
<1>1. TypeOK'
  BY DEF TypeOK, Kinds, Points, OwnerRecorded
<1>2. MutualExclusion'
  BY DEF TypeOK, Kinds, Points, MutualExclusion, Owns, OwnerRecorded, Between
<1>3. NoLostWakeup'
  BY DEF TypeOK, Kinds, Points, NoLostWakeup, MutualExclusion, Owns
<1>4. OwnerRecorded'
  BY DEF TypeOK, Kinds, Points, OwnerRecorded, MutualExclusion, Owns, Between
<1>5. Between'
  BY DEF TypeOK, Kinds, Points, Between, MutualExclusion, Owns
<1> QED
  BY <1>1, <1>2, <1>3, <1>4, <1>5

(* The exchange of 0 frees the mutex and finds out whether to signal.      *)
LEMMA UnlockExchangeIInv ==
    ASSUME IInv, NEW t \in Threads, UnlockExchange(t)
    PROVE  IInv'
<1> USE DEF IInv, UnlockExchange
<1>1. TypeOK'
  BY DEF TypeOK, Kinds, Points
<1>2. MutualExclusion'
  BY DEF TypeOK, Kinds, Points, MutualExclusion, Owns, OwnerRecorded, Between
<1>3. NoLostWakeup'
  BY DEF TypeOK, Kinds, Points, NoLostWakeup, MutualExclusion, Owns
<1>4. OwnerRecorded'
  BY DEF TypeOK, Kinds, Points, OwnerRecorded, MutualExclusion, Owns, Between
<1>5. Between'
  BY DEF TypeOK, Kinds, Points, Between, MutualExclusion, Owns
<1> QED
  BY <1>1, <1>2, <1>3, <1>4, <1>5

(* SetEvent by the thread that has unlocked.                               *)
LEMMA WakeIInv ==
    ASSUME IInv, NEW t \in Threads, Wake(t)
    PROVE  IInv'
<1> USE DEF IInv, Wake
<1>1. TypeOK'
  BY DEF TypeOK, Kinds, Points
<1>2. MutualExclusion'
  BY DEF TypeOK, Kinds, Points, MutualExclusion, Owns, OwnerRecorded, Between
<1>3. NoLostWakeup'
  BY DEF TypeOK, Kinds, Points, NoLostWakeup, MutualExclusion, Owns
<1>4. OwnerRecorded'
  BY DEF TypeOK, Kinds, Points, OwnerRecorded, MutualExclusion, Owns, Between
<1>5. Between'
  BY DEF TypeOK, Kinds, Points, Between, MutualExclusion, Owns
<1> QED
  BY <1>1, <1>2, <1>3, <1>4, <1>5

(* The invariant is about the variables of the specification only.         *)
LEMMA StutterIInv == IInv /\ UNCHANGED vars => IInv'
BY DEF IInv, vars, TypeOK, MutualExclusion, Owns, NoLostWakeup, OwnerRecorded, Between

(* IInv holds in every state of every behavior of the mutex.               *)
THEOREM Invariance == Spec => []IInv
<1>1. IInv /\ [Next]_vars => IInv'
  <2> SUFFICES ASSUME IInv, [Next]_vars PROVE IInv'
    OBVIOUS
  <2>1. CASE UNCHANGED vars
    BY <2>1, StutterIInv
  <2>2. ASSUME NEW t \in Threads, Call(t) PROVE IInv'
    BY <2>2, LockIInv, TrylockIInv, UnlockIInv DEF Call
  <2>3. ASSUME NEW t \in Threads, Step(t) PROVE IInv'
    BY <2>3, CheckOwnerIInv, ExchangeIInv, WokenIInv, SetOwnerIInv,
       UnlockExchangeIInv, WakeIInv DEF Step
  <2>4. ASSUME NEW t \in Threads, Timeout(t) PROVE IInv'
    BY <2>4, TimeoutIInv
  <2> QED
    BY <2>1, <2>2, <2>3, <2>4 DEF Next
<1> QED
  BY <1>1, InitIInv, PTL DEF Spec

(* The fields of the mutex and the positions of the threads keep their     *)
(* types.                                                                  *)
THEOREM TypeCorrect == Spec => []TypeOK
<1>1. IInv => TypeOK
  BY DEF IInv
<1> QED
  BY <1>1, Invariance, PTL

(* Two threads never own the mutex at once, for every kind of mutex,       *)
(* whatever the interleaving of lock, trylock, timedlock and unlock.       *)
THEOREM MutexExclusion == Spec => []MutualExclusion
<1>1. IInv => MutualExclusion
  BY DEF IInv
<1> QED
  BY <1>1, Invariance, PTL

(* A sleeping waiter is never forgotten by the -1, 0, 1 protocol on        *)
(* lock_idx.                                                               *)
THEOREM WakeupsKept == Spec => []NoLostWakeup
<1>1. IInv => NoLostWakeup
  BY DEF IInv
<1> QED
  BY <1>1, Invariance, PTL

(* A checking mutex knows its owner and how often it is locked.            *)
THEOREM OwnerKnown == Spec => []OwnerRecorded
<1>1. IInv => OwnerRecorded
  BY DEF IInv
<1> QED
  BY <1>1, Invariance, PTL

HIDE DEF Goto, Return, Deepen

(***************************************************************************)
(* Spin, for any number of addresses: first users that race to initialise  *)
(* a static spin lock, and threads that destroy it, leave one object and   *)
(* one owner.                                                              *)
(***************************************************************************)

(* What *lock points to has not been freed, a thread that waits for the    *)
(* mutex has found one, and a thread that frees the object is alone.       *)
Intact ==
    fault = "none" =>
        /\ lock \in Objects => interlock[lock] # "freed"
        /\ \A t \in Threads :
              /\ pc[t] = "mutex" => interlock[lock] = "mutex"
              /\ pc[t] = "destroyObject" => /\ s[t] = lock
                                           /\ lock \in Objects
                                           /\ \A u \in Threads \ {t} : pc[u] = "idle"
              /\ pc[t] \in {"exchange", "mutex", "owner"} => lock \in Objects

SIInv == STypeOK /\ Exclusion /\ InitHolds /\ Intact

USE SpinDistinctAssumption DEF Goto, Move, Others

(* The lock as the application declares it: nothing is allocated.          *)
LEMMA SInitIInv == SInit => SIInv
<1> SUFFICES ASSUME SInit PROVE SIInv
  OBVIOUS
<1>1. STypeOK
  BY DEF SInit, STypeOK, SPoints
<1>2. Exclusion /\ InitHolds /\ Intact
  BY DEF SInit, Exclusion, InitHolds, Intact
<1> QED
  BY <1>1, <1>2 DEF SIInv

(* An explicit initialisation happens while nobody uses the lock.          *)
LEMMA InitExplicitIInv ==
    ASSUME SIInv, fault = "none", NEW t \in Threads, InitExplicit(t)
    PROVE  SIInv'
<1> USE DEF SIInv, InitExplicit, SpinInit
<1>1. STypeOK'
  BY DEF STypeOK, SPoints
<1>2. Exclusion'
  BY DEF STypeOK, SPoints, Exclusion, InitHolds, Intact
<1>3. InitHolds'
  BY DEF STypeOK, SPoints, InitHolds, Intact
<1>4. Intact'
  BY DEF STypeOK, SPoints, InitHolds, Intact, Exclusion
<1> QED
  BY <1>1, <1>2, <1>3, <1>4

(* Only the first user finds the initialiser, and gives *lock an object.   *)
LEMMA NeedInitIInv ==
    ASSUME SIInv, fault = "none", NEW t \in Threads, NeedInit(t)
    PROVE  SIInv'
<1> USE DEF SIInv, NeedInit, SpinInit, SpinInitFails
<1>1. STypeOK'
  BY DEF STypeOK, SPoints
<1>2. Exclusion'
  BY DEF STypeOK, SPoints, Exclusion, InitHolds, Intact
<1>3. InitHolds'
  BY DEF STypeOK, SPoints, InitHolds, Intact
<1>4. Intact'
  BY DEF STypeOK, SPoints, InitHolds, Intact, Exclusion
<1> QED
  BY <1>1, <1>2, <1>3, <1>4

(* A call begins with a test of *lock.                                     *)
LEMMA CallLockIInv ==
    ASSUME SIInv, fault = "none", NEW t \in Threads, NEW trying \in BOOLEAN,
           CallLock(t, trying)
    PROVE  SIInv'
<1> USE DEF SIInv, CallLock, objects
<1>1. STypeOK'
  BY DEF STypeOK, SPoints
<1>2. Exclusion'
  BY DEF STypeOK, SPoints, Exclusion, InitHolds, Intact
<1>3. InitHolds'
  BY DEF STypeOK, SPoints, InitHolds, Intact
<1>4. Intact'
  BY DEF STypeOK, SPoints, InitHolds, Intact, Exclusion
<1> QED
  BY <1>1, <1>2, <1>3, <1>4

(* The test for the initialiser.                                           *)
LEMMA TestInitializerIInv ==
    ASSUME SIInv, fault = "none", NEW t \in Threads, TestInitializer(t)
    PROVE  SIInv'
<1> USE DEF SIInv, TestInitializer, objects
<1>1. STypeOK'
  BY DEF STypeOK, SPoints
<1>2. Exclusion'
  BY DEF STypeOK, SPoints, Exclusion, InitHolds, Intact
<1>3. InitHolds'
  BY DEF STypeOK, SPoints, InitHolds, Intact
<1>4. Intact'
  BY DEF STypeOK, SPoints, InitHolds, Intact, Exclusion
<1> QED
  BY <1>1, <1>2, <1>3, <1>4

(* The read of *lock that the call goes on with: NULL is the fault.        *)
LEMMA ReadIInv ==
    ASSUME SIInv, fault = "none", NEW t \in Threads, Read(t)
    PROVE  SIInv'
<1> USE DEF SIInv, Read, objects
<1>1. STypeOK'
  BY DEF STypeOK, SPoints
<1>2. Exclusion'
  BY DEF STypeOK, SPoints, Exclusion, InitHolds, Intact
<1>3. InitHolds'
  BY DEF STypeOK, SPoints, InitHolds, Intact
<1>4. Intact'
  BY DEF STypeOK, SPoints, InitHolds, Intact, Exclusion
<1> QED
  BY <1>1, <1>2, <1>3, <1>4

(* The compare-and-exchange makes an owner of an object that was unlocked. *)
LEMMA ExchangeInterlockIInv ==
    ASSUME SIInv, fault = "none", NEW t \in Threads, ExchangeInterlock(t)
    PROVE  SIInv'
<1> USE DEF SIInv, ExchangeInterlock
<1>1. STypeOK'
  BY DEF STypeOK, SPoints
<1>2. Exclusion'
  BY DEF STypeOK, SPoints, Exclusion, InitHolds, Intact
<1>3. InitHolds'
  BY DEF STypeOK, SPoints, InitHolds, Intact
<1>4. Intact'
  BY DEF STypeOK, SPoints, InitHolds, Intact, Exclusion
<1> QED
  BY <1>1, <1>2, <1>3, <1>4

(* The mutex of the object makes an owner when it had none.                *)
LEMMA MutexLockIInv ==
    ASSUME SIInv, fault = "none", NEW t \in Threads, MutexLock(t)
    PROVE  SIInv'
<1> USE DEF SIInv, MutexLock
<1>1. STypeOK'
  BY DEF STypeOK, SPoints
<1>2. Exclusion'
  BY DEF STypeOK, SPoints, Exclusion, InitHolds, Intact
<1>3. InitHolds'
  BY DEF STypeOK, SPoints, InitHolds, Intact
<1>4. Intact'
  BY DEF STypeOK, SPoints, InitHolds, Intact, Exclusion
<1> QED
  BY <1>1, <1>2, <1>3, <1>4

(* The owner unlocks what it has locked.                                   *)
LEMMA SpinUnlockIInv ==
    ASSUME SIInv, fault = "none", NEW t \in Threads, SpinUnlock(t)
    PROVE  SIInv'
<1> USE DEF SIInv, SpinUnlock
<1>1. STypeOK'
  BY DEF STypeOK, SPoints
<1>2. Exclusion'
  BY DEF STypeOK, SPoints, Exclusion, InitHolds, Intact
<1>3. InitHolds'
  BY DEF STypeOK, SPoints, InitHolds, Intact
<1>4. Intact'
  BY DEF STypeOK, SPoints, InitHolds, Intact, Exclusion
<1> QED
  BY <1>1, <1>2, <1>3, <1>4

(* A destroy of an object begins when all other threads have finished.     *)
LEMMA DestroyIInv ==
    ASSUME SIInv, fault = "none", NEW t \in Threads, Destroy(t)
    PROVE  SIInv'
<1> USE DEF SIInv, Destroy, objects
<1>1. STypeOK'
  BY DEF STypeOK, SPoints
<1>2. Exclusion'
  BY DEF STypeOK, SPoints, Exclusion, InitHolds, Intact
<1>3. InitHolds'
  BY DEF STypeOK, SPoints, InitHolds, Intact
<1>4. Intact'
  BY DEF STypeOK, SPoints, InitHolds, Intact, Exclusion
<1> QED
  BY <1>1, <1>2, <1>3, <1>4

(* The second read: an object that others use is the fault.                *)
LEMMA DestroyReadIInv ==
    ASSUME SIInv, fault = "none", NEW t \in Threads, DestroyRead(t)
    PROVE  SIInv'
<1> USE DEF SIInv, DestroyRead, objects
<1>1. STypeOK'
  BY DEF STypeOK, SPoints
<1>2. Exclusion'
  BY DEF STypeOK, SPoints, Exclusion, InitHolds, Intact
<1>3. InitHolds'
  BY DEF STypeOK, SPoints, InitHolds, Intact
<1>4. Intact'
  BY DEF STypeOK, SPoints, InitHolds, Intact, Exclusion
<1> QED
  BY <1>1, <1>2, <1>3, <1>4

(* The object is freed, and *lock is NULL.                                 *)
LEMMA DestroyObjectIInv ==
    ASSUME SIInv, fault = "none", NEW t \in Threads, DestroyObject(t)
    PROVE  SIInv'
<1> USE DEF SIInv, DestroyObject
<1>1. STypeOK'
  BY DEF STypeOK, SPoints
<1>2. Exclusion'
  BY DEF STypeOK, SPoints, Exclusion, InitHolds, Intact
<1>3. InitHolds'
  BY DEF STypeOK, SPoints, InitHolds, Intact
<1>4. Intact'
  BY DEF STypeOK, SPoints, InitHolds, Intact, Exclusion
<1> QED
  BY <1>1, <1>2, <1>3, <1>4

(* Under the lock of the initialisation, a lock that has been used is left *)
(* alone.                                                                  *)
LEMMA DestroyStaticIInv ==
    ASSUME SIInv, fault = "none", NEW t \in Threads, DestroyStatic(t)
    PROVE  SIInv'
<1> USE DEF SIInv, DestroyStatic, objects
<1>1. STypeOK'
  BY DEF STypeOK, SPoints
<1>2. Exclusion'
  BY DEF STypeOK, SPoints, Exclusion, InitHolds, Intact
<1>3. InitHolds'
  BY DEF STypeOK, SPoints, InitHolds, Intact
<1>4. Intact'
  BY DEF STypeOK, SPoints, InitHolds, Intact, Exclusion
<1> QED
  BY <1>1, <1>2, <1>3, <1>4

(* The invariant is inductive; after a fault there is no step.             *)
LEMMA SNextIInv == SIInv /\ [SNext]_svars => SIInv'
<1> SUFFICES ASSUME SIInv, [SNext]_svars PROVE SIInv'
  OBVIOUS
<1>1. CASE UNCHANGED svars
  BY <1>1 DEF svars, objects, SIInv, STypeOK, Exclusion, InitHolds, Intact
<1>2. CASE SNext
  <2>1. fault = "none"
    BY <1>2 DEF SNext
  <2>2. PICK t \in Threads : \/ InitExplicit(t) \/ Destroy(t) \/ SStep(t)
                            \/ \E trying \in BOOLEAN : CallLock(t, trying)
    BY <1>2 DEF SNext
  <2>3. CASE InitExplicit(t) \/ Destroy(t) \/ \E trying \in BOOLEAN : CallLock(t, trying)
    BY <2>1, <2>3, InitExplicitIInv, DestroyIInv, CallLockIInv
  <2>4. CASE SStep(t)
    BY <2>1, <2>4, TestInitializerIInv, NeedInitIInv, ReadIInv, ExchangeInterlockIInv,
       MutexLockIInv,
       SpinUnlockIInv, DestroyReadIInv, DestroyObjectIInv, DestroyStaticIInv
    DEF SStep
  <2> QED
    BY <2>2, <2>3, <2>4
<1> QED
  BY <1>1, <1>2

(* The invariant that the theorems below rest on.                          *)
THEOREM SInvariance == SSpec => []SIInv
BY SInitIInv, SNextIInv, PTL DEF SSpec

(* A spin lock has one owner, which has locked the object that *lock       *)
(* points to, however many first users raced to make it.                   *)
THEOREM OneOwner == SSpec => []Exclusion
<1>1. SIInv => Exclusion
  BY DEF SIInv
<1> QED
  BY SInvariance, <1>1, PTL

(* A thread whose initialisation has succeeded uses one object, and nobody *)
(* frees it while it does.                                                 *)
THEOREM InitialisationHolds == SSpec => []InitHolds
<1>1. SIInv => InitHolds
  BY DEF SIInv
<1> QED
  BY SInvariance, <1>1, PTL

HIDE DEF Goto, Move, Others

(***************************************************************************)
(* Once: the init routine runs to its end once, whoever is canceled in it  *)
(* before, and nobody returns from pthread_once earlier.                   *)
(***************************************************************************)

(* Whether the routine has completed is known from done, but for the       *)
(* moment between the two, when the thread that ran it holds the lock.     *)
DoneOrMarking ==
    /\ complete = 1 => done \/ \E t \in Threads : pc[t] = "mark"
    /\ \A t \in Threads : pc[t] \in {"mark", "release", "returned"} => complete = 1

OIInv == OTypeOK /\ RunsOnce /\ ReturnsInitialized /\ DoneOrMarking

USE DEF Goto

(* A control as PTHREAD_ONCE_INIT makes it.                                *)
LEMMA OInitIInv == OInit => OIInv
<1> SUFFICES ASSUME OInit PROVE OIInv
  OBVIOUS
<1>1. OTypeOK
  BY DEF OInit, OTypeOK, OPoints
<1>2. RunsOnce
  BY DEF OInit, RunsOnce, InLock
<1>3. ReturnsInitialized /\ DoneOrMarking
  BY DEF OInit, ReturnsInitialized, DoneOrMarking
<1> QED
  BY <1>1, <1>2, <1>3 DEF OIInv

(* A caller that reads done before it locks believes a routine that has    *)
(* completed, and takes no lock.                                           *)
LEMMA CallOnceIInv == ASSUME OIInv, NEW t \in Threads, CallOnce(t) PROVE OIInv'
<1> USE DEF OIInv, CallOnce
<1>1. OTypeOK'
  BY DEF OTypeOK, OPoints
<1>2. RunsOnce'
  BY DEF OTypeOK, RunsOnce, InLock
<1>3. ReturnsInitialized'
  BY DEF OTypeOK, RunsOnce, ReturnsInitialized
<1>4. DoneOrMarking'
  BY DEF OTypeOK, RunsOnce, DoneOrMarking
<1> QED
  BY <1>1, <1>2, <1>3, <1>4

(* The lock is free, so nobody is inside.                                  *)
LEMMA AcquireLockIInv == ASSUME OIInv, NEW t \in Threads, AcquireLock(t) PROVE OIInv'
<1> USE NullAssumption DEF OIInv, AcquireLock
<1>1. OTypeOK'
  BY DEF OTypeOK, OPoints
<1>2. RunsOnce'
  BY DEF OTypeOK, RunsOnce, InLock
<1>3. ReturnsInitialized' /\ DoneOrMarking'
  BY DEF OTypeOK, ReturnsInitialized, DoneOrMarking
<1> QED
  BY <1>1, <1>2, <1>3

(* The owner goes to the routine only when no thread is marking, since it  *)
(* would have the lock, and done is not set: the routine has not           *)
(* completed.                                                              *)
LEMMA RecheckIInv == ASSUME OIInv, NEW t \in Threads, Recheck(t) PROVE OIInv'
<1> USE DEF OIInv, Recheck
<1>1. OTypeOK'
  BY DEF OTypeOK, OPoints
<1>2. ~done => complete = 0
  <2> SUFFICES ASSUME ~done, complete = 1 PROVE FALSE
    BY DEF OTypeOK, RunsOnce
  <2>1. PICK u \in Threads : pc[u] = "mark"
    BY DEF DoneOrMarking
  <2>2. onceLock = t /\ onceLock = u
    BY <2>1 DEF RunsOnce, InLock
  <2> QED
    BY <2>1, <2>2
<1>3. RunsOnce'
  BY <1>2 DEF OTypeOK, RunsOnce, InLock
<1>4. ReturnsInitialized' /\ DoneOrMarking'
  BY DEF OTypeOK, RunsOnce, ReturnsInitialized, DoneOrMarking
<1> QED
  BY <1>1, <1>3, <1>4

(* The thread in the routine has the lock, so it is the first to complete. *)
LEMMA InitReturnsIInv == ASSUME OIInv, NEW t \in Threads, InitReturns(t) PROVE OIInv'
<1> USE DEF OIInv, InitReturns
<1>1. OTypeOK'
  BY DEF OTypeOK, OPoints
<1>2. complete = 0 /\ complete' = 1
  BY DEF OTypeOK, RunsOnce
<1>3. RunsOnce'
  BY <1>2 DEF OTypeOK, RunsOnce, InLock
<1>4. ReturnsInitialized' /\ DoneOrMarking'
  BY <1>2 DEF OTypeOK, RunsOnce, ReturnsInitialized, DoneOrMarking
<1> QED
  BY <1>1, <1>3, <1>4

(* The steps that give the lock back, or do the mark, are the owner's.     *)
LEMMA OwnerIInv ==
    ASSUME OIInv, NEW t \in Threads, Cancel(t) \/ Mark(t) \/ ReleaseLock(t)
    PROVE  OIInv'
<1> USE DEF OIInv, Cancel, Mark, ReleaseLock
<1>1. OTypeOK'
  BY DEF OTypeOK, OPoints
<1>2. RunsOnce'
  BY DEF OTypeOK, RunsOnce, InLock, DoneOrMarking
<1>3. ReturnsInitialized' /\ DoneOrMarking'
  BY DEF OTypeOK, ReturnsInitialized, DoneOrMarking
<1> QED
  BY <1>1, <1>2, <1>3

(* The invariant is inductive.                                             *)
LEMMA ONextIInv == OIInv /\ [ONext]_ovars => OIInv'
<1> SUFFICES ASSUME OIInv, [ONext]_ovars PROVE OIInv'
  OBVIOUS
<1>1. CASE UNCHANGED ovars
  BY <1>1 DEF ovars, OIInv, OTypeOK, RunsOnce, InLock, ReturnsInitialized, DoneOrMarking
<1>2. CASE ONext
  BY <1>2, CallOnceIInv, AcquireLockIInv, RecheckIInv, InitReturnsIInv, OwnerIInv
  DEF ONext, OStep
<1> QED
  BY <1>1, <1>2

(* The invariant that the theorems below rest on.                          *)
THEOREM OInvariance == OSpec => []OIInv
BY OInitIInv, ONextIInv, PTL DEF OSpec

(* The init routine of pthread_once runs to its end at most once, by one   *)
(* thread at a time.                                                       *)
THEOREM InitRunsOnce == OSpec => []RunsOnce
<1>1. OIInv => RunsOnce
  BY DEF OIInv
<1> QED
  BY OInvariance, <1>1, PTL

(* Nobody returns from pthread_once before the init routine has completed. *)
THEOREM ReturnsAfterInit == OSpec => []ReturnsInitialized
<1>1. OIInv => ReturnsInitialized
  BY DEF OIInv
<1> QED
  BY OInvariance, <1>1, PTL

HIDE DEF Goto

(***************************************************************************)
(* Keys, for any number of keys and of iterations: pthread_key_delete and  *)
(* ending threads keep the two chains of associations in step.             *)
(***************************************************************************)

(* Where a thread is in a call.                                            *)
Setting == {"setKey", "setThread"}

Deleting == {"delKey", "delAssoc", "delLoop", "delFree"}

Trying == {"try", "locked"}

Ending == {"assoc", "unlockCall", "unlock", "destructor"} \cup Trying

KPoints == {"run", "pass", "ended"} \cup Setting \cup Deleting \cup Ending

(* Types of the keys, the chains, the locks and the positions.             *)
KTypeOK ==
    /\ status \in [Keys -> {"none", "alive", "deleting", "freed"}]
    /\ destructor \in [Keys -> BOOLEAN]
    /\ value \in [Threads -> [Keys -> BOOLEAN]]
    /\ keys \in [Threads -> Seq(Keys)]
    /\ threads \in [Keys -> Seq(Threads)]
    /\ nextAssoc \in [Threads -> Keys \cup {NULL}]
    /\ keyLock \in [Keys -> Threads \cup {NULL}]
    /\ threadLock \in [Threads -> Threads \cup {NULL}]
    /\ pc \in [Threads -> KPoints]
    /\ key \in [Threads -> Keys \cup {NULL}]
    /\ iterations \in [Threads -> Nat]
    /\ remaining \in [Threads -> BOOLEAN]

(* A chain has no node twice.                                              *)
Distinct(c) == \A i, j \in DOMAIN c : c[i] = c[j] => i = j

(* An association is in both chains, once, and its key exists.             *)
Chained ==
    /\ \A t \in Threads : Distinct(keys[t])
    /\ \A k \in Keys : Distinct(threads[k])
    /\ \A t \in Threads, k \in Keys :
          /\ In(keys[t], k) <=> In(threads[k], t)
          /\ In(keys[t], k) => destructor[k] /\ status[k] \in {"alive", "deleting"}

(* A value that a destructor must be called for has an association.        *)
Valued ==
    \A t \in Threads, k \in Keys : value[t][k] =>
        /\ status[k] # "none"
        /\ status[k] = "alive" /\ destructor[k] => In(keys[t], k)

(* The keys that calls are about.                                          *)
Working ==
    \A t \in Threads :
        /\ pc[t] \in Setting \cup Deleting \cup Trying \cup {"unlockCall", "unlock"} =>
              key[t] \in Keys
        /\ pc[t] \in Setting => status[key[t]] = "alive" /\ destructor[key[t]]
        /\ pc[t] \in Deleting =>
              /\ status[key[t]] = "deleting"
              /\ pc[t] # "delFree" => destructor[key[t]]
              /\ pc[t] = "delFree" => threads[key[t]] = <<>>
              /\ \A u \in Threads : pc[u] \in Deleting /\ key[u] = key[t] => u = t
        /\ pc[t] \in Trying => key[t] = nextAssoc[t]
        /\ pc[t] \in {"unlockCall", "unlock"} =>
              destructor[key[t]] /\ status[key[t]] \in {"alive", "deleting"}

(* Who holds a lock.                                                       *)
Held ==
    /\ \A t \in Threads, k \in Keys : keyLock[k] = t =>
          key[t] = k /\ pc[t] \in {"setThread", "delAssoc", "locked", "unlockCall", "unlock"}
    /\ \A t \in Threads :
          pc[t] \in {"setThread", "locked", "unlockCall", "unlock"} => keyLock[key[t]] = t
    /\ \A t, u \in Threads : threadLock[u] = t <=> u = t /\ pc[t] \in Trying

(* What an ending thread still has before it.  New associations come only  *)
(* from destructors, and then there is another pass.                       *)
Passing ==
    \A t \in Threads :
        /\ nextAssoc[t] # NULL => In(keys[t], nextAssoc[t])
        /\ pc[t] = "run" => iterations[t] = 0
        /\ pc[t] \in Ending => iterations[t] > 0
        /\ pc[t] \in {"unlockCall", "destructor"} => remaining[t]
        /\ pc[t] \in Setting \cup Deleting /\ iterations[t] > 0 => remaining[t]
        /\ pc[t] \in Ending =>
              \A k \in Keys : In(keys[t], k) => Ahead(t, k) \/ remaining[t]
        /\ pc[t] = "ended" => keys[t] = <<>>

(* The inductive invariant: the chains, the values, the keys that calls    *)
(* are about, the locks, and what a pass still has before it.              *)
KIInv == KTypeOK /\ Chained /\ Valued /\ Working /\ Held /\ Passing

USE KeysNullAssumption, IterationsAssumption

(***************************************************************************)
(* Chains                                                                  *)
(***************************************************************************)
(* a comes before b, or is b.                                              *)
Before(c, a, b) == \E i, j \in DOMAIN c : c[i] = a /\ c[j] = b /\ i <= j

(* The position of a member.                                               *)
LEMMA Positions ==
    ASSUME NEW S, NEW c \in Seq(S), NEW e, In(c, e), Distinct(c)
    PROVE  /\ Position(c, e) \in 1..Len(c) /\ c[Position(c, e)] = e
           /\ \A i \in DOMAIN c : c[i] = e <=> i = Position(c, e)
<1>1. DOMAIN c = 1..Len(c)
  OBVIOUS
<1>2. Position(c, e) \in DOMAIN c /\ c[Position(c, e)] = e
  BY DEF In, Position
<1> QED
  BY <1>1, <1>2 DEF Distinct

(* Unlinking a node keeps the others, in their order.                      *)
LEMMA Unlinked ==
    ASSUME NEW S, NEW c \in Seq(S), NEW e, In(c, e), Distinct(c)
    PROVE  /\ Without(c, e) \in Seq(S)
           /\ Distinct(Without(c, e))
           /\ \A x : In(Without(c, e), x) <=> In(c, x) /\ x # e
           /\ \A a, b : Before(c, a, b) /\ a # e /\ b # e => Before(Without(c, e), a, b)
<1> DEFINE n == Position(c, e)
           w == Without(c, e)
<1>1. /\ Len(c) \in Nat /\ DOMAIN c = 1..Len(c) /\ \A i \in 1..Len(c) : c[i] \in S
      /\ n \in 1..Len(c) /\ c[n] = e
      /\ \A i \in 1..Len(c) : c[i] = e <=> i = n
  BY Positions
<1> HIDE DEF n
<1>2. w = [i \in 1..(Len(c) - 1) |-> IF i < n THEN c[i] ELSE c[i + 1]]
  BY DEF Without, n
<1> HIDE DEF w
<1>3. Len(c) - 1 \in Nat
  BY <1>1
<1>4. /\ DOMAIN w = 1..(Len(c) - 1)
      /\ \A i \in 1..(Len(c) - 1) : w[i] = IF i < n THEN c[i] ELSE c[i + 1]
  BY <1>2
<1>5. \A i \in 1..(Len(c) - 1) : w[i] \in S
  BY <1>1, <1>4
<1>6. w \in Seq(S)
  <2>1. w \in [1..(Len(c) - 1) -> S]
    BY <1>2, <1>4, <1>5
  <2> QED
    BY <1>3, <2>1
<1>7. \A j \in 1..Len(c) : j # n =>
         \E i \in 1..(Len(c) - 1) : w[i] = c[j] /\ i = IF j < n THEN j ELSE j - 1
  <2> SUFFICES ASSUME NEW j \in 1..Len(c), j # n
               PROVE  \E i \in 1..(Len(c) - 1) :
                         w[i] = c[j] /\ i = IF j < n THEN j ELSE j - 1
    OBVIOUS
  <2>1. CASE j < n
    <3>1. j \in 1..(Len(c) - 1)
      BY <1>1, <2>1
    <3> QED
      BY <1>4, <2>1, <3>1
  <2>2. CASE j > n
    <3>1. j - 1 \in 1..(Len(c) - 1) /\ ~(j - 1 < n) /\ (j - 1) + 1 = j
      BY <1>1, <2>2
    <3>2. w[j - 1] = c[j]
      BY <1>4, <3>1
    <3> QED
      BY <1>1, <2>2, <3>1, <3>2
  <2> QED
    BY <1>1, <2>1, <2>2
<1>8. \A i \in 1..(Len(c) - 1) :
         \E j \in 1..Len(c) : j # n /\ w[i] = c[j] /\ j = IF i < n THEN i ELSE i + 1
  BY <1>1, <1>4
<1>9. Distinct(w)
  <2> SUFFICES ASSUME NEW i \in 1..(Len(c) - 1), NEW j \in 1..(Len(c) - 1), w[i] = w[j]
               PROVE  i = j
    BY <1>4 DEF Distinct
  <2>1. PICK a \in 1..Len(c) : w[i] = c[a] /\ a = IF i < n THEN i ELSE i + 1
    BY <1>8
  <2>2. PICK b \in 1..Len(c) : w[j] = c[b] /\ b = IF j < n THEN j ELSE j + 1
    BY <1>8
  <2>3. a = b
    BY <1>1, <2>1, <2>2 DEF Distinct
  <2> QED
    BY <1>1, <2>1, <2>2, <2>3
<1>10. ASSUME NEW x PROVE In(w, x) <=> In(c, x) /\ x # e
  <2>1. ASSUME In(w, x) PROVE In(c, x) /\ x # e
    <3>1. PICK i \in 1..(Len(c) - 1) : w[i] = x
      BY <1>4, <2>1 DEF In
    <3>2. PICK j \in 1..Len(c) : j # n /\ x = c[j]
      BY <1>8, <3>1
    <3> QED
      BY <1>1, <3>2 DEF In
  <2>2. ASSUME In(c, x), x # e PROVE In(w, x)
    <3>1. PICK j \in 1..Len(c) : c[j] = x /\ j # n
      BY <1>1, <2>2 DEF In
    <3>2. PICK i \in 1..(Len(c) - 1) : w[i] = x
      BY <1>7, <3>1
    <3> QED
      BY <1>4, <3>2 DEF In
  <2> QED
    BY <2>1, <2>2
<1>11. ASSUME NEW a, NEW b, Before(c, a, b), a # e, b # e
       PROVE  Before(w, a, b)
  <2>1. PICK i \in 1..Len(c), j \in 1..Len(c) :
           c[i] = a /\ c[j] = b /\ i <= j /\ i # n /\ j # n
    BY <1>1, <1>11 DEF Before
  <2>2. PICK k \in 1..(Len(c) - 1) : w[k] = a /\ k = IF i < n THEN i ELSE i - 1
    BY <1>7, <2>1
  <2>3. PICK l \in 1..(Len(c) - 1) : w[l] = b /\ l = IF j < n THEN j ELSE j - 1
    BY <1>7, <2>1
  <2>4. k <= l
    BY <1>1, <2>1, <2>2, <2>3
  <2> QED
    BY <1>4, <2>2, <2>3, <2>4 DEF Before
<1> QED
  BY <1>6, <1>9, <1>10, <1>11 DEF w

(* What comes after e starts with its follower.                            *)
LEMMA Followed ==
    ASSUME NEW S, NULL \notin S, NEW c \in Seq(S), NEW e, In(c, e), Distinct(c)
    PROVE  /\ Follower(c, e) \in S \cup {NULL} /\ Follower(c, e) # e
           /\ Follower(c, e) # NULL => In(c, Follower(c, e))
           /\ \A x : Before(c, e, x) /\ x # e => Before(c, Follower(c, e), x)
<1> DEFINE n == Position(c, e)
<1>1. /\ Len(c) \in Nat /\ DOMAIN c = 1..Len(c) /\ \A i \in 1..Len(c) : c[i] \in S
      /\ n \in 1..Len(c) /\ c[n] = e /\ e \in S
      /\ \A i \in 1..Len(c) : c[i] = e <=> i = n
  BY Positions
<1>2. Follower(c, e) = IF n = Len(c) THEN NULL ELSE c[n + 1]
  BY DEF Follower
<1> HIDE DEF n
<1>3. Len(c) \in Nat /\ n \in 1..Len(c)
  BY <1>1
<1>4. CASE n = Len(c)
  <2>1. ASSUME NEW x, Before(c, e, x) PROVE x = e
    <3>1. PICK i \in 1..Len(c), j \in 1..Len(c) : c[i] = e /\ c[j] = x /\ i <= j
      BY <1>1, <2>1 DEF Before
    <3>2. i = n
      BY <1>1, <3>1
    <3>3. i = j
      BY <1>3, <1>4, <3>1, <3>2
    <3> QED
      BY <3>1, <3>3
  <2> QED
    BY <1>1, <1>2, <1>4, <2>1
<1>5. CASE n # Len(c)
  <2>1. n + 1 \in 1..Len(c) /\ n + 1 # n
    BY <1>3, <1>5
  <2>2. /\ Follower(c, e) = c[n + 1] /\ c[n + 1] \in S /\ c[n + 1] # e
        /\ In(c, c[n + 1])
    BY <1>1, <1>2, <1>5, <2>1 DEF In
  <2>3. ASSUME NEW x, Before(c, e, x), x # e PROVE Before(c, c[n + 1], x)
    <3>1. PICK j \in 1..Len(c) : c[j] = x /\ n <= j /\ n # j
      BY <1>1, <2>3 DEF Before
    <3>2. n + 1 <= j
      BY <1>3, <3>1
    <3> QED
      BY <1>1, <2>1, <3>1, <3>2 DEF Before
  <2> QED
    BY <2>2, <2>3
<1> QED
  BY <1>4, <1>5

(* A new node at the front.                                                *)
LEMMA Linked ==
    ASSUME NEW S, NEW c \in Seq(S), NEW e \in S, ~In(c, e), Distinct(c)
    PROVE  /\ <<e>> \o c \in Seq(S)
           /\ Distinct(<<e>> \o c)
           /\ \A x : In(<<e>> \o c, x) <=> x = e \/ In(c, x)
<1> DEFINE w == <<e>> \o c
<1>1. /\ Len(c) \in Nat /\ DOMAIN c = 1..Len(c)
      /\ w \in Seq(S) /\ DOMAIN w = 1..(Len(c) + 1)
      /\ w[1] = e /\ \A i \in 2..(Len(c) + 1) : w[i] = c[i - 1]
  OBVIOUS
<1> HIDE DEF w
<1>2. \A i \in 1..(Len(c) + 1) : i = 1 \/ (i - 1 \in 1..Len(c) /\ w[i] = c[i - 1])
  BY <1>1
<1>3. \A i \in 1..Len(c) : i + 1 \in 1..(Len(c) + 1) /\ w[i + 1] = c[i]
  BY <1>1
<1>4. \A i \in 1..Len(c) : c[i] # e
  BY <1>1 DEF In
<1>5. Distinct(w)
  <2> SUFFICES ASSUME NEW i \in 1..(Len(c) + 1), NEW j \in 1..(Len(c) + 1), w[i] = w[j]
               PROVE  i = j
    BY <1>1 DEF Distinct
  <2>1. CASE i = 1 \/ j = 1
    BY <1>1, <1>2, <1>4, <2>1
  <2>2. CASE i # 1 /\ j # 1
    <3>1. c[i - 1] = c[j - 1] /\ i - 1 \in DOMAIN c /\ j - 1 \in DOMAIN c
      BY <1>1, <1>2, <2>2
    <3>2. i - 1 = j - 1
      BY <3>1 DEF Distinct
    <3> QED
      BY <3>2
  <2> QED
    BY <2>1, <2>2
<1>6. ASSUME NEW x PROVE In(w, x) <=> x = e \/ In(c, x)
  <2>1. In(w, x) => x = e \/ In(c, x)
    BY <1>1, <1>2 DEF In
  <2>2. 1 \in DOMAIN w
    BY <1>1
  <2>3. In(w, e)
    BY <1>1, <2>2 DEF In
  <2>4. In(c, x) => In(w, x)
    BY <1>1, <1>3 DEF In
  <2> QED
    BY <2>1, <2>3, <2>4
<1> QED
  BY <1>1, <1>5, <1>6 DEF w

(* The empty chain has no members.                                         *)
LEMMA Emptiness == \A x : ~In(<<>>, x)
BY DEF In

(* All members come after the first.                                       *)
LEMMA Headed ==
    ASSUME NEW S, NEW c \in Seq(S)
    PROVE  /\ HeadOrNull(c) \in S \cup {NULL}
           /\ HeadOrNull(c) # NULL => In(c, HeadOrNull(c))
           /\ \A x : In(c, x) => Before(c, HeadOrNull(c), x)
           /\ c # <<>> => Head(c) \in S /\ In(c, Head(c))
           /\ (\A x \in S : ~In(c, x)) => c = <<>>
<1>1. CASE c = <<>>
  BY <1>1 DEF HeadOrNull, In, Before
<1>2. CASE c # <<>>
  <2>1. /\ DOMAIN c = 1..Len(c) /\ 1 \in DOMAIN c /\ \A i \in DOMAIN c : 1 <= i
        /\ Head(c) = c[1] /\ c[1] \in S
    BY <1>2
  <2>2. HeadOrNull(c) = c[1] /\ In(c, c[1])
    BY <1>2, <2>1 DEF HeadOrNull, In
  <2>3. \A x : In(c, x) => Before(c, c[1], x)
    BY <2>1 DEF In, Before
  <2> QED
    BY <2>1, <2>2, <2>3
<1> QED
  BY <1>1, <1>2

USE DEF chains, locks, counts, Goto, Move, User, WorkOn, Done, Take, Release

(***************************************************************************)
(* Steps that leave the chains alone                                       *)
(***************************************************************************)

(* pthread_setspecific on a key with a destructor begins.                  *)
LEMMA SetIInv ==
    ASSUME KIInv, NEW t \in Threads, NEW k \in Keys, Set(t, k)
    PROVE  KIInv'
<1>1. KTypeOK'
  BY DEF KIInv, KTypeOK, KPoints, Setting, Deleting, Trying, Ending, Set, Usable
<1>2. Chained' /\ Valued'
  BY DEF KIInv, KTypeOK, Chained, Valued, Set, Usable
<1>3. Working'
  BY DEF KIInv, KTypeOK, Chained, Working, KPoints, Setting, Deleting, Trying, Ending, Set,
     Usable
<1>4. Held'
  BY DEF KIInv, KTypeOK, Working, Held, KPoints, Setting, Deleting, Trying, Ending, Set,
     Usable
<1>5. Passing'
  BY DEF KIInv, KTypeOK, Passing, Ahead, KPoints, Setting, Deleting, Trying, Ending, Set,
     Usable
<1> QED
  BY <1>1, <1>2, <1>3, <1>4, <1>5 DEF KIInv

(* It gets keyLock.                                                        *)
LEMMA SetLockIInv ==
    ASSUME KIInv, NEW t \in Threads, SetLock(t)
    PROVE  KIInv'
<1>1. KTypeOK'
  BY DEF KIInv, KTypeOK, KPoints, Setting, Deleting, Trying, Ending, SetLock
<1>2. Chained' /\ Valued'
  BY DEF KIInv, KTypeOK, Chained, Valued, SetLock
<1>3. Working'
  BY DEF KIInv, KTypeOK, Chained, Working, KPoints, Setting, Deleting, Trying, Ending,
     SetLock
<1>4. Held'
  BY DEF KIInv, KTypeOK, Working, Held, KPoints, Setting, Deleting, Trying, Ending, SetLock
<1>5. Passing'
  BY DEF KIInv, KTypeOK, Passing, Ahead, KPoints, Setting, Deleting, Trying, Ending, SetLock
<1> QED
  BY <1>1, <1>2, <1>3, <1>4, <1>5 DEF KIInv

(* pthread_key_delete begins; it skips its loop when nobody has a value.   *)
LEMMA DeleteIInv ==
    ASSUME KIInv, NEW t \in Threads, NEW k \in Keys, Delete(t, k)
    PROVE  KIInv'
<1>1. KTypeOK'
  BY DEF KIInv, KTypeOK, KPoints, Setting, Deleting, Trying, Ending, Delete, Usable, InUse
<1>2. Chained' /\ Valued'
  BY DEF KIInv, KTypeOK, Chained, Valued, Delete, Usable, InUse
<1>3. Working'
  <2>1. ~destructor[k] => threads[k] = <<>>
    BY Headed DEF KIInv, KTypeOK, Chained
  <2>2. \A u \in Threads : key[u] = k => pc[u] \notin Setting \cup Deleting
    BY DEF KIInv, Working, Delete, Usable, InUse, Setting
  <2>3. /\ pc'[t] = IF threads[k] # <<>> /\ destructor[k] THEN "delKey" ELSE "delFree"
        /\ key'[t] = k /\ status'[k] = "deleting" /\ status[k] = "alive"
        /\ \A u \in Threads \ {t} : pc'[u] = pc[u] /\ key'[u] = key[u]
        /\ \A l \in Keys \ {k} : status'[l] = status[l]
    BY DEF KIInv, KTypeOK, Delete, Usable
  <2>4. UNCHANGED <<destructor, threads, nextAssoc>>
    BY DEF Delete
  <2> QED
    BY <2>1, <2>2, <2>3, <2>4 DEF KIInv, Working, KPoints, Setting, Deleting, Trying, Ending
<1>4. Held'
  BY DEF KIInv, KTypeOK, Working, Held, KPoints, Setting, Deleting, Trying, Ending, Delete,
     Usable, InUse
<1>5. Passing'
  BY DEF KIInv, KTypeOK, Passing, Ahead, KPoints, Setting, Deleting, Trying, Ending,
     Delete, Usable, InUse
<1> QED
  BY <1>1, <1>2, <1>3, <1>4, <1>5 DEF KIInv

(* It gets keyLock.                                                        *)
LEMMA DelLockIInv ==
    ASSUME KIInv, NEW t \in Threads, DelLock(t)
    PROVE  KIInv'
<1>1. KTypeOK'
  BY DEF KIInv, KTypeOK, KPoints, Setting, Deleting, Trying, Ending, DelLock
<1>2. Chained' /\ Valued'
  BY DEF KIInv, KTypeOK, Chained, Valued, DelLock
<1>3. Working'
  BY DEF KIInv, KTypeOK, Chained, Working, KPoints, Setting, Deleting, Trying, Ending,
     DelLock
<1>4. Held'
  BY DEF KIInv, KTypeOK, Working, Held, KPoints, Setting, Deleting, Trying, Ending, DelLock
<1>5. Passing'
  BY DEF KIInv, KTypeOK, Passing, Ahead, KPoints, Setting, Deleting, Trying, Ending, DelLock
<1> QED
  BY <1>1, <1>2, <1>3, <1>4, <1>5 DEF KIInv

(* The head of the loop.                                                   *)
LEMMA DelLoopIInv ==
    ASSUME KIInv, NEW t \in Threads, DelLoop(t)
    PROVE  KIInv'
<1>1. KTypeOK'
  BY DEF KIInv, KTypeOK, KPoints, Setting, Deleting, Trying, Ending, DelLoop
<1>2. Chained' /\ Valued'
  BY DEF KIInv, KTypeOK, Chained, Valued, DelLoop
<1>3. Working'
  BY DEF KIInv, KTypeOK, Chained, Working, KPoints, Setting, Deleting, Trying, Ending,
     DelLoop
<1>4. Held'
  BY DEF KIInv, KTypeOK, Working, Held, KPoints, Setting, Deleting, Trying, Ending, DelLoop
<1>5. Passing'
  BY DEF KIInv, KTypeOK, Passing, Ahead, KPoints, Setting, Deleting, Trying, Ending, DelLoop
<1> QED
  BY <1>1, <1>2, <1>3, <1>4, <1>5 DEF KIInv

(* No thread has an association with the key that is freed.                *)
LEMMA DelFreeIInv ==
    ASSUME KIInv, NEW t \in Threads, DelFree(t)
    PROVE  KIInv'
<1>1. KTypeOK'
  BY DEF KIInv, KTypeOK, KPoints, Setting, Deleting, Trying, Ending, DelFree
<1> DEFINE k == key[t]
<1>2. /\ k \in Keys /\ status[k] = "deleting" /\ threads[k] = <<>>
      /\ \A u \in Threads : pc[u] \in Deleting /\ key[u] = k => u = t
  BY DEF KIInv, Working, DelFree, Deleting
<1>3. \A u \in Threads : ~In(keys[u], k)
  <2>1. \A u \in Threads : ~In(threads[k], u)
    BY <1>2, Emptiness
  <2> QED
    BY <1>2, <2>1 DEF KIInv, Chained
<1>4. /\ UNCHANGED <<destructor, value, chains, nextAssoc, locks, counts>>
      /\ pc'[t] = User(t) /\ key'[t] = NULL /\ status'[k] = "freed"
      /\ \A u \in Threads \ {t} : pc'[u] = pc[u] /\ key'[u] = key[u]
      /\ \A l \in Keys \ {k} : status'[l] = status[l]
  BY <1>2 DEF KIInv, KTypeOK, DelFree
<1>5. Chained' /\ Valued'
  BY <1>2, <1>3, <1>4 DEF KIInv, Chained, Valued
<1>6. Working'
  <2>1. \A u \in Threads : pc[u] \in {"unlockCall", "unlock"} => key[u] # k
    BY DEF KIInv, Working, Held, DelFree
  <2> QED
    BY <1>2, <1>4, <2>1 DEF KIInv, Working, KPoints, Setting, Deleting, Trying, Ending
<1>7. Held'
  BY DEF KIInv, KTypeOK, Working, Held, KPoints, Setting, Deleting, Trying, Ending, DelFree
<1>8. Passing'
  BY DEF KIInv, KTypeOK, Passing, Ahead, KPoints, Setting, Deleting, Trying, Ending, DelFree
<1> QED
  BY <1>1, <1>5, <1>6, <1>7, <1>8 DEF KIInv

(* A thread ends.                                                          *)
LEMMA EndIInv ==
    ASSUME KIInv, NEW t \in Threads, End(t)
    PROVE  KIInv'
<1>1. KTypeOK'
  BY DEF KIInv, KTypeOK, KPoints, Setting, Deleting, Trying, Ending, End
<1>2. Chained' /\ Valued'
  BY DEF KIInv, KTypeOK, Chained, Valued, End
<1>3. Working'
  BY DEF KIInv, KTypeOK, Chained, Working, KPoints, Setting, Deleting, Trying, Ending, End
<1>4. Held'
  BY DEF KIInv, KTypeOK, Working, Held, KPoints, Setting, Deleting, Trying, Ending, End
<1>5. Passing'
  BY DEF KIInv, KTypeOK, Passing, Ahead, KPoints, Setting, Deleting, Trying, Ending, End
<1> QED
  BY <1>1, <1>2, <1>3, <1>4, <1>5 DEF KIInv

(* A pass begins at the head of the chain: all of it lies ahead.           *)
LEMMA PassIInv ==
    ASSUME KIInv, NEW t \in Threads, Pass(t)
    PROVE  KIInv'
<1>1. /\ keys[t] \in Seq(Keys) /\ HeadOrNull(keys[t]) \in Keys \cup {NULL}
      /\ HeadOrNull(keys[t]) # NULL => In(keys[t], HeadOrNull(keys[t]))
      /\ \A k \in Keys : In(keys[t], k) => Before(keys[t], HeadOrNull(keys[t]), k)
  BY Headed DEF KIInv, KTypeOK
<1>2. KTypeOK'
  BY <1>1 DEF KIInv, KTypeOK, KPoints, Setting, Deleting, Trying, Ending, Pass
<1>3. Chained' /\ Valued'
  BY DEF KIInv, KTypeOK, Chained, Valued, Pass
<1>4. Working'
  BY DEF KIInv, KTypeOK, Chained, Working, KPoints, Setting, Deleting, Trying, Ending, Pass
<1>5. Held'
  BY DEF KIInv, KTypeOK, Working, Held, KPoints, Setting, Deleting, Trying, Ending, Pass
<1>6. Passing'
  <2>1. /\ keys' = keys /\ nextAssoc'[t] = HeadOrNull(keys[t]) /\ pc'[t] = "assoc"
        /\ iterations'[t] > 0
        /\ \A u \in Threads \ {t} : /\ pc'[u] = pc[u] /\ nextAssoc'[u] = nextAssoc[u]
                                      /\ iterations'[u] = iterations[u] /\ remaining'[u] = remaining[u]
    BY DEF KIInv, KTypeOK, Pass
  <2> QED
    BY <1>1, <2>1 DEF KIInv, Passing, Ahead, Before, KPoints, Setting, Deleting, Trying,
       Ending
<1> QED
  BY <1>2, <1>3, <1>4, <1>5, <1>6 DEF KIInv

(* A pass that left nothing to do is the last.                             *)
LEMMA FinishedIInv ==
    ASSUME KIInv, NEW t \in Threads, Finished(t)
    PROVE  KIInv'
<1>1. KTypeOK'
  BY DEF KIInv, KTypeOK, KPoints, Setting, Deleting, Trying, Ending, Finished
<1>2. Chained' /\ Valued'
  BY DEF KIInv, KTypeOK, Chained, Valued, Finished
<1>3. Working'
  BY DEF KIInv, KTypeOK, Chained, Working, KPoints, Setting, Deleting, Trying, Ending,
     Finished
<1>4. Held'
  BY DEF KIInv, KTypeOK, Working, Held, KPoints, Setting, Deleting, Trying, Ending, Finished
<1>5. Passing'
  <2>1. \A k \in Keys : In(keys[t], k) => remaining[t]
    <3>1. \A i \in DOMAIN keys[t] : keys[t][i] # NULL
      BY DEF KIInv, KTypeOK
    <3> QED
      BY <3>1 DEF KIInv, Passing, Ahead, Ending, Finished
  <2>2. ~remaining[t] => keys[t] = <<>>
    BY <2>1, Headed DEF KIInv, KTypeOK
  <2>3. /\ UNCHANGED <<keys, nextAssoc, counts>>
        /\ pc'[t] = IF remaining[t] THEN "pass" ELSE "ended"
        /\ \A u \in Threads \ {t} : pc'[u] = pc[u]
    BY DEF KIInv, KTypeOK, Finished
  <2> QED
    BY <2>2, <2>3 DEF KIInv, Passing, Ahead, KPoints, Setting, Deleting, Trying, Ending
<1> QED
  BY <1>1, <1>2, <1>3, <1>4, <1>5 DEF KIInv

(* The thread locks itself and looks at the association.                   *)
LEMMA AssocIInv ==
    ASSUME KIInv, NEW t \in Threads, Assoc(t)
    PROVE  KIInv'
<1>1. KTypeOK'
  BY DEF KIInv, KTypeOK, KPoints, Setting, Deleting, Trying, Ending, Assoc
<1>2. Chained' /\ Valued'
  BY DEF KIInv, KTypeOK, Chained, Valued, Assoc
<1>3. Working'
  BY DEF KIInv, KTypeOK, Chained, Working, KPoints, Setting, Deleting, Trying, Ending, Assoc
<1>4. Held'
  BY DEF KIInv, KTypeOK, Working, Held, KPoints, Setting, Deleting, Trying, Ending, Assoc
<1>5. Passing'
  BY DEF KIInv, KTypeOK, Passing, Ahead, KPoints, Setting, Deleting, Trying, Ending, Assoc
<1> QED
  BY <1>1, <1>2, <1>3, <1>4, <1>5 DEF KIInv

(* It gets the keyLock without waiting.                                    *)
LEMMA TryLockIInv ==
    ASSUME KIInv, NEW t \in Threads, TryLock(t)
    PROVE  KIInv'
<1>1. KTypeOK'
  BY DEF KIInv, KTypeOK, KPoints, Setting, Deleting, Trying, Ending, TryLock
<1>2. Chained' /\ Valued'
  BY DEF KIInv, KTypeOK, Chained, Valued, TryLock
<1>3. Working'
  BY DEF KIInv, KTypeOK, Chained, Working, KPoints, Setting, Deleting, Trying, Ending,
     TryLock
<1>4. Held'
  BY DEF KIInv, KTypeOK, Working, Held, KPoints, Setting, Deleting, Trying, Ending, TryLock
<1>5. Passing'
  BY DEF KIInv, KTypeOK, Passing, Ahead, KPoints, Setting, Deleting, Trying, Ending, TryLock
<1> QED
  BY <1>1, <1>2, <1>3, <1>4, <1>5 DEF KIInv

(* It does not get the keyLock, and gives its own lock back.               *)
LEMMA TryBusyIInv ==
    ASSUME KIInv, NEW t \in Threads, TryBusy(t)
    PROVE  KIInv'
<1>1. KTypeOK'
  BY DEF KIInv, KTypeOK, KPoints, Setting, Deleting, Trying, Ending, TryBusy
<1>2. Chained' /\ Valued'
  BY DEF KIInv, KTypeOK, Chained, Valued, TryBusy
<1>3. Working'
  BY DEF KIInv, KTypeOK, Chained, Working, KPoints, Setting, Deleting, Trying, Ending,
     TryBusy
<1>4. Held'
  BY DEF KIInv, KTypeOK, Working, Held, KPoints, Setting, Deleting, Trying, Ending, TryBusy
<1>5. Passing'
  BY DEF KIInv, KTypeOK, Passing, Ahead, KPoints, Setting, Deleting, Trying, Ending, TryBusy
<1> QED
  BY <1>1, <1>2, <1>3, <1>4, <1>5 DEF KIInv

(* Both locks are given back.                                              *)
LEMMA ReleaseKeyIInv ==
    ASSUME KIInv, NEW t \in Threads, ReleaseKey(t)
    PROVE  KIInv'
<1>1. KTypeOK'
  BY DEF KIInv, KTypeOK, KPoints, Setting, Deleting, Trying, Ending, ReleaseKey
<1>2. Chained' /\ Valued'
  BY DEF KIInv, KTypeOK, Chained, Valued, ReleaseKey
<1>3. Working'
  BY DEF KIInv, KTypeOK, Chained, Working, KPoints, Setting, Deleting, Trying, Ending,
     ReleaseKey
<1>4. Held'
  BY DEF KIInv, KTypeOK, Working, Held, KPoints, Setting, Deleting, Trying, Ending,
     ReleaseKey
<1>5. Passing'
  BY DEF KIInv, KTypeOK, Passing, Ahead, KPoints, Setting, Deleting, Trying, Ending,
     ReleaseKey
<1> QED
  BY <1>1, <1>2, <1>3, <1>4, <1>5 DEF KIInv

(* The destructor returns, whatever it has done.                           *)
LEMMA DestructorReturnsIInv ==
    ASSUME KIInv, NEW t \in Threads, DestructorReturns(t)
    PROVE  KIInv'
<1>1. KTypeOK'
  BY DEF KIInv, KTypeOK, KPoints, Setting, Deleting, Trying, Ending, DestructorReturns
<1>2. Chained' /\ Valued'
  BY DEF KIInv, KTypeOK, Chained, Valued, DestructorReturns
<1>3. Working'
  BY DEF KIInv, KTypeOK, Chained, Working, KPoints, Setting, Deleting, Trying, Ending,
     DestructorReturns
<1>4. Held'
  BY DEF KIInv, KTypeOK, Working, Held, KPoints, Setting, Deleting, Trying, Ending,
     DestructorReturns
<1>5. Passing'
  BY DEF KIInv, KTypeOK, Passing, Ahead, KPoints, Setting, Deleting, Trying, Ending,
     DestructorReturns
<1> QED
  BY <1>1, <1>2, <1>3, <1>4, <1>5 DEF KIInv

(* A key that is created has no associations.                              *)
LEMMA CreateIInv ==
    ASSUME KIInv, NEW t \in Threads, NEW k \in Keys, NEW b \in BOOLEAN, Create(t, k, b)
    PROVE  KIInv'
<1>1. KTypeOK'
  BY DEF KIInv, KTypeOK, KPoints, Setting, Deleting, Trying, Ending, Create
<1>2. Chained' /\ Valued'
  BY DEF KIInv, KTypeOK, Chained, Valued, Create
<1>3. Working'
  BY DEF KIInv, KTypeOK, Chained, Working, KPoints, Setting, Deleting, Trying, Ending,
     Create
<1>4. Held'
  BY DEF KIInv, KTypeOK, Working, Held, KPoints, Setting, Deleting, Trying, Ending, Create
<1>5. Passing'
  BY DEF KIInv, KTypeOK, Passing, Ahead, KPoints, Setting, Deleting, Trying, Ending, Create
<1> QED
  BY <1>1, <1>2, <1>3, <1>4, <1>5 DEF KIInv

(* pthread_setspecific where no association is needed.                     *)
LEMMA SetPlainIInv ==
    ASSUME KIInv, NEW t \in Threads, NEW k \in Keys, NEW b \in BOOLEAN, SetPlain(t, k, b)
    PROVE  KIInv'
<1>1. KTypeOK'
  BY DEF KIInv, KTypeOK, KPoints, Setting, Deleting, Trying, Ending, SetPlain, Usable,
     SetValue
<1>2. Chained' /\ Valued'
  BY DEF KIInv, KTypeOK, Chained, Valued, SetPlain, Usable, SetValue
<1>3. Working'
  BY DEF KIInv, KTypeOK, Chained, Working, KPoints, Setting, Deleting, Trying, Ending,
     SetPlain, Usable, SetValue
<1>4. Held'
  BY DEF KIInv, KTypeOK, Working, Held, KPoints, Setting, Deleting, Trying, Ending,
     SetPlain, Usable, SetValue
<1>5. Passing'
  BY DEF KIInv, KTypeOK, Passing, Ahead, KPoints, Setting, Deleting, Trying, Ending,
     SetPlain, Usable, SetValue
<1> QED
  BY <1>1, <1>2, <1>3, <1>4, <1>5 DEF KIInv

(* The value is taken; what follows it is next, and there is another pass. *)
LEMMA CallDestructorIInv ==
    ASSUME KIInv, NEW t \in Threads, CallDestructor(t)
    PROVE  KIInv'
<1> DEFINE k == key[t]
           f == Follower(keys[t], k)
<1>1. k \in Keys /\ k = nextAssoc[t] /\ In(keys[t], k)
  BY DEF KIInv, Working, Passing, CallDestructor, Trying
<1>2. /\ f \in Keys \cup {NULL}
      /\ f # NULL => In(keys[t], f)
  BY <1>1, Followed DEF KIInv, KTypeOK, Chained
<1>3. destructor[k] /\ status[k] \in {"alive", "deleting"}
  BY <1>1 DEF KIInv, Chained
<1> HIDE DEF f
<1>4. /\ UNCHANGED <<status, destructor, chains, keyLock, key, iterations>>
      /\ pc[t] = "locked" /\ pc' = [pc EXCEPT ![t] = "unlockCall"]
      /\ nextAssoc' = [nextAssoc EXCEPT ![t] = f]
      /\ value' = [value EXCEPT ![t][k] = FALSE]
      /\ remaining' = [remaining EXCEPT ![t] = TRUE]
      /\ threadLock' = [threadLock EXCEPT ![t] = NULL]
  BY DEF CallDestructor, SetValue, f
<1>5. KTypeOK'
  BY <1>1, <1>2, <1>4 DEF KIInv, KTypeOK, KPoints, Setting, Deleting, Trying, Ending
<1>6. Chained' /\ Valued'
  BY DEF KIInv, KTypeOK, Chained, Valued, CallDestructor, SetValue
<1>7. Working'
  BY <1>1, <1>3, <1>4 DEF KIInv, KTypeOK, Working, KPoints, Setting, Deleting, Trying,
     Ending
<1>8. Held'
  BY DEF KIInv, KTypeOK, Working, Held, KPoints, Setting, Deleting, Trying, Ending,
     CallDestructor, SetValue
<1>9. Passing'
  BY <1>2, <1>4 DEF KIInv, KTypeOK, Passing, Ahead, KPoints, Setting, Deleting, Trying,
     Ending
<1> QED
  BY <1>5, <1>6, <1>7, <1>8, <1>9 DEF KIInv

(***************************************************************************)
(* Steps that change the chains                                            *)
(***************************************************************************)
(* An association taken out of both chains: the pointer of an ending       *)
(* thread moves on, and what was ahead of it still is.                     *)
LEMMA Destroyed ==
    ASSUME KIInv, NEW t \in Threads, NEW k \in Keys, In(keys[t], k),
           keys' = [keys EXCEPT ![t] = Without(@, k)],
           threads' = [threads EXCEPT ![k] = Without(@, t)],
           nextAssoc' = IF nextAssoc[t] = k
                        THEN [nextAssoc EXCEPT ![t] = Follower(keys[t], k)]
                        ELSE nextAssoc,
           UNCHANGED <<status, destructor>>
    PROVE  /\ keys' \in [Threads -> Seq(Keys)] /\ threads' \in [Keys -> Seq(Threads)]
           /\ nextAssoc' \in [Threads -> Keys \cup {NULL}]
           /\ Chained'
           /\ \A u \in Threads, l \in Keys :
                 /\ In(keys'[u], l) <=> In(keys[u], l) /\ ~(u = t /\ l = k)
                 /\ Ahead(u, l) /\ ~(u = t /\ l = k) => Ahead(u, l)'
           /\ \A u \in Threads : nextAssoc'[u] # NULL => In(keys'[u], nextAssoc'[u])
           /\ \A l \in Keys : threads[l] = <<>> => threads'[l] = <<>>
           /\ \A u \in Threads : keys[u] = <<>> => keys'[u] = <<>>
<1> DEFINE c == keys[t]
           w == Without(c, k)
           d == threads[k]
           v == Without(d, t)
           f == Follower(c, k)
<1>1. /\ c \in Seq(Keys) /\ d \in Seq(Threads) /\ Distinct(c) /\ Distinct(d)
      /\ In(c, k) /\ In(d, t)
  BY DEF KIInv, KTypeOK, Chained
<1>2. /\ w \in Seq(Keys) /\ Distinct(w)
      /\ \A x : In(w, x) <=> In(c, x) /\ x # k
      /\ \A a, b : Before(c, a, b) /\ a # k /\ b # k => Before(w, a, b)
  BY <1>1, Unlinked
<1>3. /\ v \in Seq(Threads) /\ Distinct(v)
      /\ \A x : In(v, x) <=> In(d, x) /\ x # t
  BY <1>1, Unlinked
<1>4. /\ f \in Keys \cup {NULL} /\ f # k
      /\ f # NULL => In(c, f)
      /\ \A x : Before(c, k, x) /\ x # k => Before(c, f, x)
  BY <1>1, Followed
<1>5. c # <<>> /\ d # <<>>
  BY <1>1 DEF In
<1> HIDE DEF w, v, f
<1>6. /\ keys' = [keys EXCEPT ![t] = w] /\ threads' = [threads EXCEPT ![k] = v]
      /\ nextAssoc' = IF nextAssoc[t] = k THEN [nextAssoc EXCEPT ![t] = f] ELSE nextAssoc
  BY DEF w, v, f
<1>7. /\ keys' \in [Threads -> Seq(Keys)] /\ threads' \in [Keys -> Seq(Threads)]
      /\ nextAssoc' \in [Threads -> Keys \cup {NULL}]
  BY <1>2, <1>3, <1>4, <1>6 DEF KIInv, KTypeOK
<1>8. /\ keys'[t] = w /\ \A u \in Threads \ {t} : keys'[u] = keys[u]
      /\ threads'[k] = v /\ \A l \in Keys \ {k} : threads'[l] = threads[l]
      /\ nextAssoc'[t] = IF nextAssoc[t] = k THEN f ELSE nextAssoc[t]
      /\ \A u \in Threads \ {t} : nextAssoc'[u] = nextAssoc[u]
  BY <1>6 DEF KIInv, KTypeOK
<1>9. \A u \in Threads, l \in Keys : In(keys'[u], l) <=> In(keys[u], l) /\ ~(u = t /\ l = k)
  BY <1>2, <1>8
<1>10. \A u \in Threads, l \in Keys :
          In(threads'[l], u) <=> In(threads[l], u) /\ ~(u = t /\ l = k)
  BY <1>3, <1>8
<1>11. Chained'
  BY <1>2, <1>3, <1>8, <1>9, <1>10 DEF KIInv, Chained
<1>12. ASSUME NEW u \in Threads, NEW l \in Keys, Ahead(u, l), ~(u = t /\ l = k)
       PROVE  Ahead(u, l)'
  <2>1. Before(keys[u], nextAssoc[u], l)
    BY <1>12 DEF Ahead, Before
  <2>2. Before(keys'[u], nextAssoc'[u], l)
    <3>1. CASE u # t
      BY <1>8, <2>1, <3>1
    <3>2. CASE u = t /\ nextAssoc[t] = k
      BY <1>2, <1>4, <1>8, <1>12, <2>1, <3>2
    <3>3. CASE u = t /\ nextAssoc[t] # k
      BY <1>2, <1>8, <1>12, <2>1, <3>3
    <3> QED
      BY <3>1, <3>2, <3>3
  <2> QED
    BY <2>2 DEF Ahead, Before
<1>13. \A u \in Threads : nextAssoc'[u] # NULL => In(keys'[u], nextAssoc'[u])
  BY <1>2, <1>4, <1>8 DEF KIInv, Passing
<1> QED
  BY <1>5, <1>7, <1>8, <1>9, <1>11, <1>12, <1>13

(* One round of the loop of pthread_key_delete.  The key has a destructor, *)
(* and is not alive any more.                                              *)
LEMMA DelAssocIInv ==
    ASSUME KIInv, NEW t \in Threads, DelAssoc(t)
    PROVE  KIInv'
<1> DEFINE k == key[t]
           u == Head(threads[k])
<1>1. /\ k \in Keys /\ pc[t] = "delAssoc" /\ status[k] = "deleting" /\ keyLock[k] = t
      /\ threads[k] # <<>> /\ threadLock[u] = NULL
  BY DEF KIInv, Working, DelAssoc, Deleting
<1>2. u \in Threads /\ In(keys[u], k)
  BY <1>1, Headed DEF KIInv, KTypeOK, Chained
<1> HIDE DEF u
<1>3. /\ keys' = [keys EXCEPT ![u] = Without(@, k)]
      /\ threads' = [threads EXCEPT ![k] = Without(@, u)]
      /\ nextAssoc' = IF nextAssoc[u] = k
                      THEN [nextAssoc EXCEPT ![u] = Follower(keys[u], k)]
                      ELSE nextAssoc
      /\ UNCHANGED <<status, destructor, value, threadLock, key, counts>>
      /\ pc' = [pc EXCEPT ![t] = "delLoop"] /\ keyLock' = [keyLock EXCEPT ![k] = NULL]
  BY DEF DelAssoc, AssocDestroy, u
<1>4. /\ keys' \in [Threads -> Seq(Keys)] /\ threads' \in [Keys -> Seq(Threads)]
      /\ nextAssoc' \in [Threads -> Keys \cup {NULL}]
      /\ Chained'
      /\ \A r \in Threads, l \in Keys :
            /\ In(keys'[r], l) <=> In(keys[r], l) /\ ~(r = u /\ l = k)
            /\ Ahead(r, l) /\ ~(r = u /\ l = k) => Ahead(r, l)'
      /\ \A r \in Threads : nextAssoc'[r] # NULL => In(keys'[r], nextAssoc'[r])
      /\ \A l \in Keys : threads[l] = <<>> => threads'[l] = <<>>
      /\ \A r \in Threads : keys[r] = <<>> => keys'[r] = <<>>
  BY <1>1, <1>2, <1>3, Destroyed
<1>5. KTypeOK'
  BY <1>3, <1>4 DEF KIInv, KTypeOK, KPoints, Deleting
<1>6. Valued'
  BY <1>1, <1>3, <1>4 DEF KIInv, Valued
<1>7. \A r \in Threads : pc[r] \in Trying => nextAssoc'[r] = nextAssoc[r]
  BY <1>1, <1>2, <1>3 DEF KIInv, KTypeOK, Held
<1>8. pc'[t] = "delLoop" /\ \A r \in Threads \ {t} : pc'[r] = pc[r]
  BY <1>3 DEF KIInv, KTypeOK
<1>9. Working'
  BY <1>1, <1>3, <1>4, <1>7, <1>8 DEF KIInv, Working, Setting, Deleting, Trying
<1>10. Held'
  BY <1>1, <1>3 DEF KIInv, KTypeOK, Held, Trying
<1>11. Passing'
  BY <1>1, <1>3, <1>4, <1>8 DEF KIInv, Passing, Setting, Deleting, Trying, Ending
<1> QED
  BY <1>4, <1>5, <1>6, <1>9, <1>10, <1>11 DEF KIInv

(* An ending thread drops an association.                                  *)
LEMMA DropIInv ==
    ASSUME KIInv, NEW t \in Threads, Drop(t)
    PROVE  KIInv'
<1> DEFINE k == key[t]
<1>1. /\ k \in Keys /\ pc[t] = "locked" /\ nextAssoc[t] = k /\ In(keys[t], k)
      /\ destructor[k] /\ status[k] \in {"alive", "deleting"}
  BY DEF KIInv, Working, Chained, Passing, Drop, Trying
<1>2. /\ keys' = [keys EXCEPT ![t] = Without(@, k)]
      /\ threads' = [threads EXCEPT ![k] = Without(@, t)]
      /\ nextAssoc' = IF nextAssoc[t] = k
                      THEN [nextAssoc EXCEPT ![t] = Follower(keys[t], k)]
                      ELSE nextAssoc
      /\ UNCHANGED <<status, destructor, keyLock, key, counts>>
      /\ pc' = [pc EXCEPT ![t] = "unlock"] /\ threadLock' = [threadLock EXCEPT ![t] = NULL]
      /\ value' = [value EXCEPT ![t][k] = FALSE]
  BY <1>1 DEF Drop, SetValue
<1>3. /\ keys' \in [Threads -> Seq(Keys)] /\ threads' \in [Keys -> Seq(Threads)]
      /\ nextAssoc' \in [Threads -> Keys \cup {NULL}]
      /\ Chained'
      /\ \A r \in Threads, l \in Keys :
            /\ In(keys'[r], l) <=> In(keys[r], l) /\ ~(r = t /\ l = k)
            /\ Ahead(r, l) /\ ~(r = t /\ l = k) => Ahead(r, l)'
      /\ \A r \in Threads : nextAssoc'[r] # NULL => In(keys'[r], nextAssoc'[r])
      /\ \A l \in Keys : threads[l] = <<>> => threads'[l] = <<>>
      /\ \A r \in Threads : keys[r] = <<>> => keys'[r] = <<>>
  BY <1>1, <1>2, Destroyed
<1>4. KTypeOK'
  BY <1>1, <1>2, <1>3 DEF KIInv, KTypeOK, KPoints, Ending
<1>5. Valued'
  BY <1>1, <1>2, <1>3 DEF KIInv, KTypeOK, Valued
<1>6. \A r \in Threads \ {t} : pc'[r] = pc[r] /\ nextAssoc'[r] = nextAssoc[r]
  BY <1>2 DEF KIInv, KTypeOK
<1>7. Working'
  BY <1>1, <1>2, <1>3, <1>6 DEF KIInv, KTypeOK, Working, Setting, Deleting, Trying
<1>8. Held'
  BY <1>1, <1>2 DEF KIInv, KTypeOK, Held, Trying
<1>9. Passing'
  BY <1>1, <1>2, <1>3 DEF KIInv, KTypeOK, Passing, Setting, Deleting, Trying, Ending
<1> QED
  BY <1>3, <1>4, <1>5, <1>7, <1>8, <1>9 DEF KIInv

(* pthread_setspecific has an association or makes one.                    *)
LEMMA SetAssocIInv ==
    ASSUME KIInv, NEW t \in Threads, SetAssoc(t)
    PROVE  KIInv'
<1> DEFINE k == key[t]
<1>1. /\ k \in Keys /\ pc[t] = "setThread" /\ status[k] = "alive" /\ destructor[k]
      /\ keyLock[k] = t
  BY DEF KIInv, Working, Held, SetAssoc, Setting
<1>2. /\ UNCHANGED <<status, destructor, nextAssoc, threadLock, counts>>
      /\ pc' = [pc EXCEPT ![t] = IF iterations[t] = 0 THEN "run" ELSE "destructor"]
      /\ keyLock' = [keyLock EXCEPT ![k] = NULL]
      /\ value' = [value EXCEPT ![t][k] = TRUE]
      /\ key' = [key EXCEPT ![t] = NULL]
  BY DEF SetAssoc, SetValue
<1>3. /\ keys' \in [Threads -> Seq(Keys)] /\ threads' \in [Keys -> Seq(Threads)]
      /\ \A r \in Threads \ {t} : keys'[r] = keys[r]
      /\ \A l \in Keys \ {k} : threads'[l] = threads[l]
      /\ \A l \in Keys : In(keys'[t], l) <=> l = k \/ In(keys[t], l)
      /\ \A r \in Threads : In(threads'[k], r) <=> r = t \/ In(threads[k], r)
      /\ Distinct(keys'[t]) /\ Distinct(threads'[k])
  <2>1. CASE In(keys[t], k)
    <3>1. UNCHANGED chains
      BY <2>1 DEF SetAssoc
    <3> QED
      BY <1>1, <2>1, <3>1 DEF KIInv, KTypeOK, Chained
  <2>2. CASE ~In(keys[t], k)
    <3> DEFINE c == <<k>> \o keys[t]
               d == <<t>> \o threads[k]
    <3>1. /\ keys' = [keys EXCEPT ![t] = c] /\ threads' = [threads EXCEPT ![k] = d]
      BY <2>2 DEF SetAssoc, AssocCreate
    <3>2. c \in Seq(Keys) /\ Distinct(c) /\ \A x : In(c, x) <=> x = k \/ In(keys[t], x)
      BY <1>1, <2>2, Linked DEF KIInv, KTypeOK, Chained
    <3>3. /\ d \in Seq(Threads) /\ Distinct(d)
          /\ \A x : In(d, x) <=> x = t \/ In(threads[k], x)
      BY <1>1, <2>2, Linked DEF KIInv, KTypeOK, Chained
    <3> HIDE DEF c, d
    <3> QED
      BY <1>1, <3>1, <3>2, <3>3 DEF KIInv, KTypeOK
  <2> QED
    BY <2>1, <2>2
<1>4. Chained'
  <2>1. /\ \A r \in Threads : Distinct(keys'[r])
        /\ \A l \in Keys : Distinct(threads'[l])
    BY <1>3 DEF KIInv, Chained
  <2>2. \A r \in Threads, l \in Keys :
          /\ In(keys'[r], l) <=> In(keys[r], l) \/ (r = t /\ l = k)
          /\ In(threads'[l], r) <=> In(threads[l], r) \/ (r = t /\ l = k)
    BY <1>1, <1>3
  <2> QED
    BY <1>1, <1>2, <2>1, <2>2 DEF KIInv, Chained
<1>5. KTypeOK'
  BY <1>1, <1>2, <1>3 DEF KIInv, KTypeOK, KPoints, Ending
<1>6. Valued'
  BY <1>1, <1>2, <1>3 DEF KIInv, KTypeOK, Valued
<1>7. /\ pc'[t] = IF iterations[t] = 0 THEN "run" ELSE "destructor"
      /\ key'[t] = NULL
      /\ \A r \in Threads \ {t} : pc'[r] = pc[r] /\ key'[r] = key[r]
  BY <1>2 DEF KIInv, KTypeOK
<1>8. pc'[t] \in {"run", "destructor"}
  BY <1>7
<1>9. Working'
  <2>1. \A r \in Threads :
          pc'[r] \in Setting \cup Deleting \cup Trying \cup {"unlockCall", "unlock"} =>
             r # t /\ pc'[r] = pc[r] /\ key'[r] = key[r]
    BY <1>7, <1>8 DEF Setting, Deleting, Trying
  <2>2. \A r \in Threads : pc[r] \in Deleting => key[r] \in Keys \ {k}
    BY <1>1 DEF KIInv, Working
  <2>3. UNCHANGED <<status, destructor, nextAssoc>>
    BY <1>2
  <2>4. ASSUME NEW r \in Threads, pc'[r] \in Deleting
        PROVE  /\ key'[r] \in Keys /\ status'[key'[r]] = "deleting"
               /\ pc'[r] # "delFree" => destructor'[key'[r]]
               /\ pc'[r] = "delFree" => threads'[key'[r]] = <<>>
               /\ \A u \in Threads : pc'[u] \in Deleting /\ key'[u] = key'[r] => u = r
    <3>1. r # t /\ pc'[r] = pc[r] /\ key'[r] = key[r] /\ key[r] \in Keys \ {k}
      BY <2>1, <2>2, <2>4
    <3>2. \A u \in Threads : pc'[u] \in Deleting => pc'[u] = pc[u] /\ key'[u] = key[u]
      BY <2>1
    <3>3. /\ status[key[r]] = "deleting"
          /\ pc[r] # "delFree" => destructor[key[r]]
          /\ pc[r] = "delFree" => threads[key[r]] = <<>>
          /\ \A u \in Threads : pc[u] \in Deleting /\ key[u] = key[r] => u = r
      BY <2>4, <3>1 DEF KIInv, Working
    <3> QED
      BY <1>3, <2>3, <3>1, <3>2, <3>3
  <2>5. ASSUME NEW r \in Threads,
               pc'[r] \in Setting \cup Trying \cup {"unlockCall", "unlock"}
        PROVE  /\ key'[r] \in Keys
               /\ pc'[r] \in Setting => status'[key'[r]] = "alive" /\ destructor'[key'[r]]
               /\ pc'[r] \in Trying => key'[r] = nextAssoc'[r]
               /\ pc'[r] \in {"unlockCall", "unlock"} =>
                     destructor'[key'[r]] /\ status'[key'[r]] \in {"alive", "deleting"}
    BY <2>1, <2>3, <2>5 DEF KIInv, Working
  <2> QED
    BY <2>4, <2>5 DEF Working
<1>10. Held'
  BY <1>1, <1>2 DEF KIInv, KTypeOK, Held, Trying
<1>11. Passing'
  <2>1. \A r \in Threads \ {t} : \A l \in Keys : Ahead(r, l)' <=> Ahead(r, l)
    BY <1>2, <1>3 DEF Ahead
  <2>2. nextAssoc[t] \in Keys \cup {NULL} /\ iterations[t] \in Nat
    BY DEF KIInv, KTypeOK
  <2>3. iterations[t] > 0 => remaining[t]
    BY <1>1, <2>2 DEF KIInv, Passing, Setting
  <2>4. UNCHANGED <<nextAssoc, counts>>
    BY <1>2
  <2>5. ASSUME NEW r \in Threads \ {t}
        PROVE  /\ nextAssoc'[r] # NULL => In(keys'[r], nextAssoc'[r])
               /\ pc'[r] \in Ending =>
                     \A l \in Keys : In(keys'[r], l) => Ahead(r, l)' \/ remaining'[r]
               /\ pc'[r] = "ended" => keys'[r] = <<>>
    BY <1>3, <1>7, <2>1, <2>4 DEF KIInv, Passing
  <2>6. /\ nextAssoc'[t] # NULL => In(keys'[t], nextAssoc'[t])
        /\ pc'[t] = "run" => iterations'[t] = 0
        /\ pc'[t] \in Ending => iterations'[t] > 0 /\ remaining'[t]
        /\ pc'[t] \notin Setting \cup Deleting /\ pc'[t] # "ended"
    BY <1>3, <1>7, <2>2, <2>3, <2>4 DEF KIInv, Passing, Setting, Deleting, Trying, Ending
  <2>7. ASSUME NEW r \in Threads \ {t}
        PROVE  /\ pc'[r] = "run" => iterations'[r] = 0
               /\ pc'[r] \in Ending => iterations'[r] > 0
               /\ pc'[r] \in {"unlockCall", "destructor"} => remaining'[r]
               /\ pc'[r] \in Setting \cup Deleting /\ iterations'[r] > 0 => remaining'[r]
    BY <1>7, <2>4 DEF KIInv, Passing
  <2>8. pc'[t] \in {"unlockCall", "destructor"} => pc'[t] \in Ending
    BY DEF Ending
  <2> QED
    BY <2>5, <2>6, <2>7, <2>8 DEF Passing
<1> QED
  BY <1>4, <1>5, <1>6, <1>9, <1>10, <1>11 DEF KIInv

(***************************************************************************)
(* The invariant holds                                                     *)
(***************************************************************************)
LEMMA KInitIInv == KInit => KIInv
<1> SUFFICES ASSUME KInit PROVE KIInv
  OBVIOUS
<1>1. KTypeOK
  BY DEF KInit, KTypeOK, KPoints
<1>2. \A t \in Threads, k \in Keys : ~In(keys[t], k) /\ ~In(threads[k], t)
  BY DEF KInit, In
<1>3. Chained /\ Valued
  BY <1>2 DEF KInit, Chained, Valued, Distinct
<1>4. Working /\ Held
  BY DEF KInit, Working, Held, Setting, Deleting, Trying
<1>5. Passing
  BY DEF KInit, Passing, Setting, Deleting, Trying, Ending
<1> QED
  BY <1>1, <1>3, <1>4, <1>5 DEF KIInv

(* The invariant is inductive.                                             *)
LEMMA KNextIInv ==
    ASSUME KIInv, [KNext]_kvars
    PROVE  KIInv'
<1>1. ASSUME NEW t \in Threads, Use(t)
      PROVE  KIInv'
  BY <1>1, CreateIInv, SetPlainIInv, SetIInv, DeleteIInv, EndIInv DEF Use
<1>2. ASSUME NEW t \in Threads, Acquire(t)
      PROVE  KIInv'
  BY <1>2, SetLockIInv, SetAssocIInv, DelLockIInv, DelAssocIInv, DelFreeIInv DEF Acquire
<1>3. ASSUME NEW t \in Threads, KStep(t)
      PROVE  KIInv'
  BY <1>3, DelLoopIInv, PassIInv, FinishedIInv, AssocIInv, TryLockIInv, TryBusyIInv,
     CallDestructorIInv, DropIInv, ReleaseKeyIInv, DestructorReturnsIInv DEF KStep
<1>4. CASE UNCHANGED kvars
  <2>1. KTypeOK' /\ Chained' /\ Valued'
    BY <1>4 DEF kvars, KIInv, KTypeOK, Chained, Valued
  <2>2. Working' /\ Held' /\ Passing'
    BY <1>4 DEF kvars, KIInv, Working, Held, Passing, Ahead
  <2> QED
    BY <2>1, <2>2 DEF KIInv
<1> QED
  BY <1>1, <1>2, <1>3, <1>4 DEF KNext

(* The inductive invariant holds: pthread_key_delete, pthread_setspecific  *)
(* and ending threads keep the chains in step.                             *)
THEOREM KInvariance == KSpec => []KIInv
BY KInitIInv, KNextIInv, PTL DEF KSpec

(* An ending thread finds its way through associations that others delete. *)
THEOREM PointerValid == KSpec => []NextAssocValid
<1>1. KIInv => NextAssocValid
  BY DEF KIInv, KTypeOK, Working, Passing, Trying, Ending, NextAssocValid
<1> QED
  BY KInvariance, <1>1, PTL

(* Nothing is left of a thread that has ended.                             *)
THEOREM NothingLeft == KSpec => []EndsClean
<1>1. KIInv => EndsClean
  <2> SUFFICES ASSUME KIInv, NEW t \in Threads, pc[t] = "ended"
               PROVE  /\ keys[t] = <<>>
                      /\ \A k \in Keys : /\ ~In(threads[k], t)
                                         /\ status[k] = "alive" /\ destructor[k] => ~value[t][k]
    BY DEF EndsClean
  <2>1. keys[t] = <<>>
    BY DEF KIInv, Passing
  <2>2. \A k \in Keys : ~In(keys[t], k)
    BY <2>1 DEF In
  <2> QED
    BY <2>1, <2>2 DEF KIInv, Chained, Valued
<1> QED
  BY KInvariance, <1>1, PTL

(* A key stays until nobody works on it.                                   *)
THEOREM KeysLast == KSpec => []KeyValid
<1>1. KIInv => KeyValid
  BY DEF KIInv, Chained, Working, Passing, Setting, Trying, KeyValid
<1> QED
  BY KInvariance, <1>1, PTL
=============================================================================
