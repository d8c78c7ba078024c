-------------------------- MODULE SemaphoreProofs --------------------------
(***************************************************************************)
(* Proofs about Semaphore, for any finite set of threads and any maximum.  *)
(***************************************************************************)
EXTENDS Semaphore, FiniteSetTheorems, TLAPS

USE DEF Goto

(* Entering and leaving a wait change the number of threads inside by one. *)

(* The threads inside a wait can be counted.                               *)
LEMMA InsideFinite == IsFiniteSet(Inside) /\ Cardinality(Inside) \in Nat
BY ThreadsAssumption, FS_Subset, FS_CardinalityType DEF Inside

(* A thread that enters a wait makes them one more.                        *)
LEMMA InsideGrows ==
    ASSUME NEW t \in Threads, TypeOK, pc[t] = "idle", Goto(t, "blocked")
    PROVE  Cardinality(Inside') = Cardinality(Inside) + 1
<1>1. Inside' = Inside \cup {t} /\ t \notin Inside
  BY DEF Inside, TypeOK
<1> QED
  BY <1>1, InsideFinite, FS_AddElement

(* A thread that leaves a wait makes them one fewer.                       *)
LEMMA InsideShrinks ==
    ASSUME NEW t \in Threads, TypeOK, pc[t] # "idle", Goto(t, "idle")
    PROVE  Cardinality(Inside') = Cardinality(Inside) - 1
<1>1. Inside' = Inside \ {t} /\ t \in Inside
  BY DEF Inside, TypeOK
<1> QED
  BY <1>1, InsideFinite, FS_RemoveElement

(* A thread that gives up its wait is still inside the call.               *)
LEMMA InsideKept ==
    ASSUME NEW t \in Threads, TypeOK, pc[t] = "blocked", Goto(t, "cleanup")
    PROVE  Inside' = Inside
BY DEF Inside, TypeOK

(* Somebody inside means that there is at least one.                       *)
LEMMA InsideSome ==
    ASSUME NEW t \in Threads, pc[t] # "idle"
    PROVE  Cardinality(Inside) >= 1
<1>1. t \in Inside
  BY DEF Inside
<1> QED
  BY <1>1, InsideFinite, FS_EmptySet

(* The inductive invariant, action by action.                              *)

(* The decrement in sem_wait, sem_timedwait and ptw32_semwait.             *)
LEMMA WaitIInv ==
    ASSUME IInv, NEW t \in Threads, NEW c \in Calls, Wait(t, c)
    PROVE  IInv'
<1>1. TypeOK'
  BY MaxAssumption DEF IInv, TypeOK, Points, Wait, Claimed, MustWait
<1>2. \/ ~MustWait(s) /\ Inside' = Inside
      \/ MustWait(s) /\ Cardinality(Inside') = Cardinality(Inside) + 1
  BY InsideGrows DEF IInv, Wait, Inside
<1>3. Accounting'
  BY <1>2, InsideFinite, MaxAssumption DEF IInv, TypeOK, Accounting, Waiters, Wait, Claimed, MustWait
<1>4. Conservation'
  BY <1>2, InsideFinite, MaxAssumption DEF IInv, TypeOK, Accounting, Waiters, Conservation, Units, Wait, Claimed, MustWait
<1> QED
  BY <1>1, <1>3, <1>4 DEF IInv

(* A wait on s->sem is satisfied.                                          *)
LEMMA AcquireIInv ==
    ASSUME IInv, NEW t \in Threads, Acquire(t)
    PROVE  IInv'
<1>1. TypeOK'
  BY MaxAssumption DEF IInv, TypeOK, Points, Acquire, Taken
<1>2. Cardinality(Inside') = Cardinality(Inside) - 1 /\ Cardinality(Inside) >= 1
  BY InsideShrinks, InsideSome DEF IInv, Acquire
<1>3. Accounting'
  BY <1>2, InsideFinite, MaxAssumption DEF IInv, TypeOK, Accounting, Waiters, Acquire, Taken
<1>4. Conservation'
  BY <1>2, InsideFinite, MaxAssumption DEF IInv, TypeOK, Accounting, Waiters, Conservation, Units, Acquire, Taken
<1> QED
  BY <1>1, <1>3, <1>4 DEF IInv

(* A timeout or a cancelation; nothing is settled yet.                     *)
LEMMA GiveUpIInv ==
    ASSUME IInv, NEW t \in Threads, GiveUp(t)
    PROVE  IInv'
<1>1. TypeOK'
  BY MaxAssumption DEF IInv, TypeOK, Points, GiveUp
<1>2. Inside' = Inside
  BY InsideKept DEF IInv, GiveUp
<1>3. Accounting'
  BY <1>2, InsideFinite, MaxAssumption DEF IInv, TypeOK, Accounting, Waiters, GiveUp
<1>4. Conservation'
  BY <1>2, InsideFinite, MaxAssumption DEF IInv, TypeOK, Accounting, Waiters, Conservation, Units, GiveUp
<1> QED
  BY <1>1, <1>3, <1>4 DEF IInv

(* The cleanup of sem_timedwait takes a late post or leaves the count.     *)
LEMMA TimedCleanupIInv ==
    ASSUME IInv, NEW t \in Threads, TimedCleanup(t)
    PROVE  IInv'
<1>1. Cardinality(Inside') = Cardinality(Inside) - 1 /\ Cardinality(Inside) >= 1
  BY InsideShrinks, InsideSome DEF IInv, TimedCleanup
<1>2. TypeOK'
  BY <1>1, InsideFinite, MaxAssumption DEF IInv, TypeOK, Points, Accounting, Waiters, TimedCleanup, Settled, Taken
<1>3. Accounting'
  BY <1>1, InsideFinite, MaxAssumption DEF IInv, TypeOK, Accounting, Waiters, TimedCleanup, Settled, Taken
<1>4. Conservation'
  BY <1>1, InsideFinite, MaxAssumption DEF IInv, TypeOK, Accounting, Waiters, Conservation, Units, TimedCleanup, Settled, Taken
<1> QED
  BY <1>2, <1>3, <1>4 DEF IInv

(* The cleanup of sem_wait, which may do neither.                          *)
LEMMA WaitCleanupIInv ==
    ASSUME IInv, NEW t \in Threads, WaitCleanup(t)
    PROVE  IInv'
<1>1. Cardinality(Inside') = Cardinality(Inside) - 1 /\ Cardinality(Inside) >= 1
  BY InsideShrinks, InsideSome DEF IInv, WaitCleanup
<1>2. TypeOK'
  BY SMTT(60), <1>1, InsideFinite, MaxAssumption DEF IInv, TypeOK, Points, Accounting, Waiters, WaitCleanup, SettledByWait, Settled, Taken
<1>3. Accounting'
  BY <1>1, InsideFinite, MaxAssumption DEF IInv, TypeOK, Accounting, Waiters, WaitCleanup, SettledByWait, Settled, Taken
<1>4. Conservation'
  BY <1>1, InsideFinite, MaxAssumption DEF IInv, TypeOK, Accounting, Waiters, Conservation, Units, WaitCleanup, SettledByWait, Settled, Taken
<1> QED
  BY <1>2, <1>3, <1>4 DEF IInv

(* sem_trywait.                                                            *)
LEMMA TrywaitIInv ==
    ASSUME IInv, NEW t \in Threads, Trywait(t)
    PROVE  IInv'
<1>1. TypeOK'
  BY MaxAssumption DEF IInv, TypeOK, Points, Trywait, Claimed
<1>2. Inside' = Inside
  BY DEF Inside, Trywait
<1>3. Accounting'
  BY <1>2, InsideFinite, MaxAssumption DEF IInv, TypeOK, Accounting, Waiters, Trywait, Claimed
<1>4. Conservation'
  BY <1>2, InsideFinite, MaxAssumption DEF IInv, TypeOK, Accounting, Waiters, Conservation, Units, Trywait, Claimed
<1> QED
  BY <1>1, <1>3, <1>4 DEF IInv

(* sem_post.                                                               *)
LEMMA PostIInv ==
    ASSUME IInv, NEW t \in Threads, Post(t)
    PROVE  IInv'
<1>1. TypeOK'
  BY MaxAssumption DEF IInv, TypeOK, Points, Post, Posted, PostRelease
<1>2. Inside' = Inside
  BY DEF Inside, Post
<1>3. Accounting'
  BY <1>2, InsideFinite, MaxAssumption DEF IInv, TypeOK, Accounting, Waiters, Post, Posted, PostRelease
<1>4. Conservation'
  BY <1>2, InsideFinite, MaxAssumption DEF IInv, TypeOK, Accounting, Waiters, Conservation, Units, Post, Posted, PostRelease
<1> QED
  BY <1>1, <1>3, <1>4 DEF IInv

(* sem_post_multiple.                                                      *)
LEMMA PostMultipleIInv ==
    ASSUME IInv, NEW t \in Threads, NEW count \in 1..MaxCount, PostMultiple(t, count)
    PROVE  IInv'
<1>1. TypeOK'
  BY MaxAssumption DEF IInv, TypeOK, Points, PostMultiple, PostedMultiple, PostMultipleRelease
<1>2. Inside' = Inside
  BY DEF Inside, PostMultiple
<1>3. Accounting'
  BY <1>2, InsideFinite, MaxAssumption DEF IInv, TypeOK, Accounting, Waiters, PostMultiple, PostedMultiple, PostMultipleRelease
<1>4. Conservation'
  BY <1>2, InsideFinite, MaxAssumption DEF IInv, TypeOK, Accounting, Waiters, Conservation, Units, PostMultiple, PostedMultiple, PostMultipleRelease
<1> QED
  BY <1>1, <1>3, <1>4 DEF IInv

(* sem_destroy, after which no unit can be had; the value was not negative *)
(* and is not negative.                                                    *)
LEMMA DestroyIInv ==
    ASSUME IInv, NEW t \in Threads, Destroy(t)
    PROVE  IInv'
<1>1. s' = [value |-> SEM_VALUE_MAX, sem |-> s.sem]
  BY DEF IInv, TypeOK, Destroy
<1>2. TypeOK'
  <2>1. s' \in [value : Int, sem : 0..SEM_VALUE_MAX] /\ s'.value <= SEM_VALUE_MAX
    BY <1>1, MaxAssumption DEF IInv, TypeOK
  <2> QED
    BY <2>1, Zenon DEF IInv, TypeOK, Destroy
<1>3. Inside' = Inside /\ skipped' = skipped
  BY DEF Inside, Destroy
<1>4. Accounting'
  <2>1. Waiters = 0 /\ Waiters' = 0 /\ s'.sem = s.sem
    BY <1>1, MaxAssumption DEF IInv, TypeOK, Waiters, Destroy
  <2> QED
    BY <2>1, <1>3 DEF IInv, Accounting
<1>5. Conservation'
  BY DEF Conservation, Destroy
<1> QED
  BY <1>2, <1>4, <1>5 DEF IInv

(* A semaphore as sem_init leaves it satisfies the invariant.              *)
LEMMA InitIInv == Init => IInv
<1> SUFFICES ASSUME Init PROVE IInv
  OBVIOUS
<1>1. PICK v \in 0..SEM_VALUE_MAX : s = SemInit(v) /\ tokens = v
  BY DEF Init
<1>2. TypeOK
  BY <1>1, MaxAssumption DEF Init, TypeOK, SemInit, Points, Calls
<1>3. Inside = {}
  BY DEF Init, Inside
<1>4. Cardinality(Inside) = 0
  BY <1>3, FS_EmptySet
<1>5. Accounting /\ Conservation
  BY <1>1, <1>4, MaxAssumption DEF Init, Accounting, Waiters, Conservation, Units, SemInit
<1> QED
  BY <1>2, <1>5 DEF IInv

(* The invariant is about the variables of the specification only.         *)
LEMMA StutterIInv == IInv /\ UNCHANGED vars => IInv'
BY DEF IInv, vars, TypeOK, Accounting, Waiters, Inside, Conservation, Units

(* Every step preserves the invariant.                                     *)
LEMMA NextIInv == IInv /\ [Next]_vars => IInv'
<1> SUFFICES ASSUME IInv, [Next]_vars PROVE IInv'
  OBVIOUS
<1>1. CASE UNCHANGED vars
  BY <1>1, StutterIInv
<1>2. ASSUME NEW t \in Threads, Call(t) PROVE IInv'
  BY <1>2, WaitIInv, TrywaitIInv, PostIInv, PostMultipleIInv, DestroyIInv DEF Call
<1>3. ASSUME NEW t \in Threads, Step(t) PROVE IInv'
  BY <1>3, AcquireIInv, TimedCleanupIInv, WaitCleanupIInv DEF Step
<1>4. ASSUME NEW t \in Threads, Timeout(t) \/ Cancel(t) PROVE IInv'
  BY <1>4, GiveUpIInv DEF Timeout, Cancel
<1> QED
  BY <1>1, <1>2, <1>3, <1>4 DEF Next

(* The inductive invariant: types, the exact count of the waiters, and no  *)
(* unit lost, with any timeouts, cancelations and destruction.             *)
THEOREM Invariance == Spec => []IInv
BY InitIInv, NextIInv, PTL DEF Spec

(* The fields of *s and the positions of the threads keep their types;     *)
(* above all, neither count passes SEM_VALUE_MAX.                          *)
THEOREM TypeCorrect == Spec => []TypeOK
<1>1. IInv => TypeOK
  BY DEF IInv
<1> QED
  BY <1>1, Invariance, PTL

(* The threads inside a wait are exactly those counted in a negative value *)
(* and those with a unit ready, but for the cleanups of sem_wait that did  *)
(* nothing: races of posts with timeouts and cancelations never leave the  *)
(* count wrong in any other way.                                           *)
THEOREM WaitersExact == Spec => []Accounting
<1>1. IInv => Accounting
  BY DEF IInv
<1> QED
  BY <1>1, Invariance, PTL

(* Posts are neither lost nor made up, also where a cancelation of         *)
(* sem_wait leaves the number of waiters wrong.                            *)
THEOREM UnitsConserved == Spec => []Conservation
<1>1. IInv => Conservation
  BY DEF IInv
<1> QED
  BY <1>1, Invariance, PTL
=============================================================================
