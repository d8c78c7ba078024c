--------------------------- MODULE CondVarProofs ---------------------------
(***************************************************************************)
(* Proofs about CondVar, for any finite set of threads and any limit of    *)
(* the gone count, with timeouts and cancelations at every wait: the       *)
(* counters count, the gate has one key, a broadcast reaches every thread  *)
(* that was waiting, and destroy takes nothing from anybody's hands.       *)
(***************************************************************************)
EXTENDS CondVar, FiniteSetTheorems, TLAPS

(***************************************************************************)
(* The invariant                                                           *)
(***************************************************************************)
(* The points of a call at the gate.                                       *)
At(x) == {x, Asleep[x], Passed[x]}

WaitPoints == {"open", "release", "enqueue", "queued", "late", "cleanup"}

KeyPoints == {"open", "reopen", "enterPassed", "gonePassed", "signalPassed", "destroyPassed"}

SleepPoints == {"canceled", "enterSleeps", "goneSleeps", "signalSleeps", "destroySleeps"}

Sleepers == {t \in Threads : pc[t] \in SleepPoints}

(* How many may sleep on s: each has a unit of s.sem to come, or is        *)
(* counted in the negative value.                                          *)
Room(s) == s.sem + (IF s.value < 0 THEN -s.value ELSE 0)

(* Nobody sleeps at the gate uncounted.  There may be fewer than counted,  *)
(* since a cleanup that finds the value 0 does nothing.                    *)
GateCounted == Cardinality(Sleepers) <= Room(semBlockLock)

(* Who has mtxUnblockLock while it waits at the gate, and what it found.   *)
Guarded ==
    \A t \in Threads :
        /\ mtxUnblockLock = t <=> pc[t] \in At("gone") \cup At("signal")
        /\ mtxUnblockLock = t => nWaitersToUnblock = 0
        /\ pc[t] \in At("signal") => nWaitersBlocked > nWaitersGone

(* The gone are forgotten when the gate is shut.                           *)
GoneReset == nWaitersToUnblock > 0 => nWaitersGone = 0

(* While a broadcast has threads to unblock, these are all that wait.      *)
DueFirst == due # {} => due = Counted /\ nWaitersBlocked = 0

(* Nobody starts a call while a thread destroys the condition variable.    *)
Closing ==
    /\ closing # NULL => Starting = {}
    /\ ~valid => closing # NULL
    /\ valid => \A t \in Threads : closing = t <=> pc[t] \in At("destroy")

IInv == /\ TypeOK
        /\ WaitersCounted
        /\ OneKey
        /\ DestroySafe
        /\ GateCounted
        /\ Guarded
        /\ GoneReset
        /\ DueFirst
        /\ Closing

USE NullAssumption, ThreadsAssumption, LimitAssumption
USE DEF GateCalls, Asleep, Passed, At, counters

(* The points one by one.                                                  *)
LEMMA PointNames ==
    Points = WaitPoints \cup KeyPoints \cup SleepPoints
               \cup {"idle", "enter", "gone", "signal", "destroy", "relock", "post"}
<1>1. {Asleep[x] : x \in GateCalls} = {"enterSleeps", "goneSleeps", "signalSleeps", "destroySleeps"}
  OBVIOUS
<1>2. {Passed[x] : x \in GateCalls} = {"enterPassed", "gonePassed", "signalPassed", "destroyPassed"}
  OBVIOUS
<1> QED
  BY <1>1, <1>2 DEF Points, WaitPoints, KeyPoints, SleepPoints

(***************************************************************************)
(* Counting                                                                *)
(***************************************************************************)
(* A set of threads can be counted.                                        *)
LEMMA Counts ==
    ASSUME NEW S \in SUBSET Threads
    PROVE  /\ IsFiniteSet(S)
           /\ Cardinality(S) \in Nat
           /\ Cardinality(S) = 0 <=> S = {}
BY FS_Subset, FS_CardinalityType, FS_EmptySet

(* One thread more or less.                                                *)
LEMMA CountsOne ==
    ASSUME NEW S \in SUBSET Threads, NEW t \in Threads
    PROVE  /\ t \notin S => Cardinality(S \cup {t}) = Cardinality(S) + 1
           /\ t \in S => Cardinality(S \ {t}) = Cardinality(S) - 1
BY Counts, FS_AddElement, FS_RemoveElement

(* A thread that goes from one point to another moves in or out of the     *)
(* sets of threads at given points.                                        *)
LEMMA MoveCounts ==
    ASSUME pc \in [Threads -> Points], NEW t \in Threads, NEW p, Goto(t, p), NEW W
    PROVE  Cardinality({u \in Threads : pc'[u] \in W})
             = Cardinality({u \in Threads : pc[u] \in W})
                 + (IF p \in W THEN 1 ELSE 0) - (IF pc[t] \in W THEN 1 ELSE 0)
<1> DEFINE S == {u \in Threads : pc[u] \in W}
           T == {u \in Threads : pc'[u] \in W}
<1>1. S \in SUBSET Threads /\ Cardinality(S) \in Nat
  BY Counts
<1>2. pc'[t] = p /\ \A u \in Threads \ {t} : pc'[u] = pc[u]
  BY DEF Goto
<1>3. CASE p \in W /\ pc[t] \in W
  <2>1. T = S
    BY <1>2, <1>3
  <2>2. Cardinality(T) = Cardinality(S)
    BY <2>1
  <2> QED
    BY <2>2, <1>1, <1>3
<1>4. CASE p \in W /\ pc[t] \notin W
  <2>1. T = S \cup {t} /\ t \notin S
    BY <1>2, <1>4
  <2> QED
    BY <2>1, <1>1, <1>4, CountsOne
<1>5. CASE p \notin W /\ pc[t] \in W
  <2>1. T = S \ {t} /\ t \in S
    BY <1>2, <1>5
  <2> QED
    BY <2>1, <1>1, <1>5, CountsOne
<1>6. CASE p \notin W /\ pc[t] \notin W
  <2>1. T = S
    BY <1>2, <1>6
  <2>2. Cardinality(T) = Cardinality(S)
    BY <2>1
  <2> QED
    BY <2>2, <1>1, <1>6
<1> QED
  BY <1>3, <1>4, <1>5, <1>6

(* The three sets of threads that the invariant counts.                    *)
LEMMA Moves ==
    ASSUME TypeOK, NEW t \in Threads, NEW p, Goto(t, p)
    PROVE  /\ Cardinality(Counted') = Cardinality(Counted)
                + (IF p \in WaitPoints THEN 1 ELSE 0) - (IF pc[t] \in WaitPoints THEN 1 ELSE 0)
           /\ Cardinality(KeyHolders') = Cardinality(KeyHolders)
                + (IF p \in KeyPoints THEN 1 ELSE 0) - (IF pc[t] \in KeyPoints THEN 1 ELSE 0)
           /\ Cardinality(Sleepers') = Cardinality(Sleepers)
                + (IF p \in SleepPoints THEN 1 ELSE 0) - (IF pc[t] \in SleepPoints THEN 1 ELSE 0)
           /\ Cardinality(Counted') \in Nat
           /\ Cardinality(KeyHolders') \in Nat
           /\ Cardinality(Sleepers') \in Nat
<1>1. pc \in [Threads -> Points]
  BY DEF TypeOK
<1>2. /\ Counted = {u \in Threads : pc[u] \in WaitPoints}
      /\ Counted' = {u \in Threads : pc'[u] \in WaitPoints}
  BY DEF Counted, WaitPoints
<1>3. /\ KeyHolders = {u \in Threads : pc[u] \in KeyPoints}
      /\ KeyHolders' = {u \in Threads : pc'[u] \in KeyPoints}
  BY DEF KeyHolders, KeyPoints
<1>4. /\ Sleepers = {u \in Threads : pc[u] \in SleepPoints}
      /\ Sleepers' = {u \in Threads : pc'[u] \in SleepPoints}
  BY DEF Sleepers, SleepPoints
<1>5. Cardinality(Counted') = Cardinality(Counted)
        + (IF p \in WaitPoints THEN 1 ELSE 0) - (IF pc[t] \in WaitPoints THEN 1 ELSE 0)
  BY <1>1, <1>2, MoveCounts
<1>6. Cardinality(KeyHolders') = Cardinality(KeyHolders)
        + (IF p \in KeyPoints THEN 1 ELSE 0) - (IF pc[t] \in KeyPoints THEN 1 ELSE 0)
  BY <1>1, <1>3, MoveCounts
<1>7. Cardinality(Sleepers') = Cardinality(Sleepers)
        + (IF p \in SleepPoints THEN 1 ELSE 0) - (IF pc[t] \in SleepPoints THEN 1 ELSE 0)
  BY <1>1, <1>4, MoveCounts
<1>8. /\ Cardinality(Counted') \in Nat
      /\ Cardinality(KeyHolders') \in Nat
      /\ Cardinality(Sleepers') \in Nat
  BY Counts DEF Counted, KeyHolders, Sleepers
<1> QED
  BY <1>5, <1>6, <1>7, <1>8

(* The sets can be counted.                                                *)
LEMMA Cardinals ==
    /\ Cardinality(Counted) \in Nat
    /\ Cardinality(KeyHolders) \in Nat
    /\ Cardinality(Sleepers) \in Nat
    /\ Cardinality(Counted) = 0 => Counted = {}
<1>1. Counted \in SUBSET Threads /\ KeyHolders \in SUBSET Threads /\ Sleepers \in SUBSET Threads
  BY DEF Counted, KeyHolders, Sleepers
<1> QED
  BY <1>1, Counts

(***************************************************************************)
(* Semaphores                                                              *)
(***************************************************************************)
(* A post brings one unit, and room for nobody.                            *)
LEMMA PostedUnits ==
    ASSUME NEW s \in SemType
    PROVE  /\ Posted(s) \in SemType
           /\ Units(Posted(s)) = Units(s) + 1
           /\ Room(Posted(s)) = Room(s)
BY DEF SemType, Posted, PostRelease, Units, Room

(* A wait takes a unit, or a place among the sleepers.                     *)
LEMMA ClaimedUnits ==
    ASSUME NEW s \in SemType
    PROVE  /\ Claimed(s) \in SemType
           /\ MustWait(s) => Units(Claimed(s)) = Units(s) /\ Room(Claimed(s)) = Room(s) + 1
           /\ ~MustWait(s) => Units(Claimed(s)) = Units(s) - 1 /\ Room(Claimed(s)) = Room(s)
BY DEF SemType, Claimed, MustWait, Units, Room

(* A sleeper that wakes up takes a unit with it.                           *)
LEMMA TakenUnits ==
    ASSUME NEW s \in SemType, s.sem > 0
    PROVE  /\ Taken(s) \in SemType
           /\ Units(Taken(s)) = Units(s) - 1
           /\ Room(Taken(s)) = Room(s) - 1
BY DEF SemType, Taken, Units, Room

(* The other operations of the queue keep its type.                        *)
LEMMA QueueTypes ==
    ASSUME NEW s \in SemType, NEW n \in Nat
    PROVE  Settled(s) \in SemType /\ PostedMultiple(s, n) \in SemType
BY DEF SemType, Settled, Taken, PostedMultiple, PostMultipleRelease

(* A sleeper that has been canceled gives its place back, or takes the     *)
(* unit that came for it; with the value 0, it leaves both to others.      *)
LEMMA SettledUnits ==
    ASSUME NEW s \in SemType, Room(s) > 0
    PROVE  /\ SettledByWait(s) \in SemType
           /\ s.sem >= SettledByWait(s).sem
           /\ Units(SettledByWait(s)) = Units(s) - (s.sem - SettledByWait(s).sem)
           /\ Room(SettledByWait(s)) >= Room(s) - 1
BY DEF SemType, SettledByWait, Settled, Taken, Units, Room

(***************************************************************************)
(* The gate has one key                                                    *)
(***************************************************************************)
(* Who has the key has it alone, and nobody is being unblocked.            *)
LEMMA KeyAlone ==
    ASSUME IInv, NEW t \in Threads, pc[t] \in KeyPoints
    PROVE  /\ valid
           /\ nWaitersToUnblock = 0
           /\ \A u \in Threads \ {t} : pc[u] \notin KeyPoints
<1>1. valid
  BY DEF IInv, DestroySafe, KeyPoints
<1>2. /\ Units(semBlockLock) \in Nat /\ lostKeys \in Nat /\ nWaitersToUnblock \in Nat
      /\ Keys + lostKeys = 1
  BY <1>1 DEF IInv, TypeOK, SemType, Units, OneKey
<1>3. KeyHolders \in SUBSET Threads /\ t \in KeyHolders
  BY DEF KeyHolders, KeyPoints
<1>4. Cardinality(KeyHolders \ {t}) = Cardinality(KeyHolders) - 1
  BY <1>3, CountsOne
<1>5. Cardinality(KeyHolders \ {t}) \in Nat /\ Cardinality(KeyHolders) \in Nat
  BY <1>3, Counts
<1>6. nWaitersToUnblock = 0 /\ Cardinality(KeyHolders \ {t}) = 0
  BY <1>2, <1>4, <1>5 DEF Keys
<1>7. KeyHolders \ {t} = {}
  BY <1>3, <1>6, Counts
<1> QED
  BY <1>1, <1>6, <1>7 DEF KeyHolders, KeyPoints

(* A broadcast that has threads to unblock has shut the gate.              *)
LEMMA DueShut ==
    ASSUME IInv, nWaitersToUnblock = 0
    PROVE  due = {}
<1> SUFFICES ASSUME due # {} PROVE FALSE
  OBVIOUS
<1>1. due = Counted /\ nWaitersBlocked = 0 /\ nWaitersGone \in Nat
  BY DEF IInv, DueFirst, TypeOK
<1>2. Cardinality(Counted) = 0
  BY <1>1, Cardinals DEF IInv, WaitersCounted
<1> QED
  BY <1>1, <1>2, Cardinals

(* The units at the gate and the room for sleepers are numbers.            *)
LEMMA Ranges == TypeOK => Units(semBlockLock) \in Nat /\ Room(semBlockLock) \in Nat
BY DEF TypeOK, SemType, Units, Room

(* Nobody waits and the key is in the gate.                                *)
LEMMA InitIInv == Init => IInv
<1> SUFFICES ASSUME Init PROVE IInv
  OBVIOUS
<1>1. TypeOK
  BY DEF Init, TypeOK, Points, SemInit, SemType
<1>2. Counted = {} /\ KeyHolders = {} /\ Sleepers = {}
  BY DEF Init, Counted, KeyHolders, Sleepers, SleepPoints
<1>3. WaitersCounted /\ OneKey /\ GateCounted
  BY <1>2, FS_EmptySet DEF Init, WaitersCounted, OneKey, Keys, Units, Room, GateCounted,
     SemInit
<1>4. DestroySafe /\ Guarded /\ GoneReset /\ DueFirst /\ Closing
  BY DEF Init, DestroySafe, Guarded, GoneReset, DueFirst, Closing
<1> QED
  BY <1>1, <1>3, <1>4 DEF IInv

(***************************************************************************)
(* One lemma for each action                                               *)
(***************************************************************************)
(* The caller's mutex is not the condition variable's business.            *)
LEMMA LockIInv == ASSUME IInv, NEW t \in Threads, Lock(t) \/ Unlock(t) PROVE IInv'
<1> USE DEF IInv, Lock, Unlock
<1>1. TypeOK'
  BY DEF TypeOK
<1>2. /\ Counted' = Counted /\ KeyHolders' = KeyHolders /\ Sleepers' = Sleepers
      /\ Starting' = Starting
  BY DEF Counted, KeyHolders, Sleepers, Starting
<1>3. WaitersCounted' /\ OneKey' /\ GateCounted'
  BY <1>2 DEF WaitersCounted, OneKey, Keys, GateCounted
<1>4. DestroySafe' /\ Guarded' /\ GoneReset' /\ DueFirst' /\ Closing'
  BY <1>2 DEF DestroySafe, Guarded, GoneReset, DueFirst, Closing
<1> QED
  BY <1>1, <1>3, <1>4

(* Nobody is at the gate once the condition variable is destroyed; who     *)
(* does not find the key open sleeps, counted.                             *)
LEMMA GateWaitIInv == ASSUME IInv, NEW t \in Threads, GateWait(t) PROVE IInv'
<1> USE DEF IInv, GateWait
<1>1. semBlockLock \in SemType
  BY DEF TypeOK
<1>2. PICK p : /\ Goto(t, p)
               /\ p = IF MustWait(semBlockLock) THEN Asleep[pc[t]] ELSE Passed[pc[t]]
  OBVIOUS
<1>3. /\ MustWait(semBlockLock) => p \in SleepPoints
      /\ ~MustWait(semBlockLock) => p \in KeyPoints \ {"open", "reopen"}
      /\ \A x \in GateCalls : p \in At(x) <=> pc[t] \in At(x)
  BY <1>2 DEF KeyPoints, SleepPoints
<1>4. TypeOK'
  BY <1>1, <1>2, <1>3, ClaimedUnits, PointNames DEF TypeOK, Goto, KeyPoints, SleepPoints
<1>5. valid
  BY DEF DestroySafe
<1>6. /\ Cardinality(Counted') = Cardinality(Counted)
      /\ Cardinality(KeyHolders') = Cardinality(KeyHolders) + (IF MustWait(semBlockLock) THEN 0 ELSE 1)
      /\ Cardinality(Sleepers') = Cardinality(Sleepers) + (IF MustWait(semBlockLock) THEN 1 ELSE 0)
  <2>1. /\ pc[t] \notin WaitPoints /\ pc[t] \notin KeyPoints /\ pc[t] \notin SleepPoints
        /\ p \notin WaitPoints
        /\ p \in KeyPoints <=> ~MustWait(semBlockLock)
        /\ p \in SleepPoints <=> MustWait(semBlockLock)
    BY <1>3 DEF KeyPoints, SleepPoints, WaitPoints
  <2> QED
    BY <1>2, <2>1, Moves, Cardinals
<1>7. WaitersCounted'
  BY <1>6 DEF WaitersCounted
<1>8. Units(semBlockLock) \in Int /\ Room(semBlockLock) \in Int
  BY <1>1 DEF SemType, Units, Room
<1>9. OneKey'
  BY <1>1, <1>5, <1>6, <1>8, ClaimedUnits, Cardinals DEF OneKey, Keys, TypeOK
<1>10. GateCounted'
  BY <1>1, <1>6, <1>8, ClaimedUnits, Cardinals DEF GateCounted
<1>11. DestroySafe'
  BY <1>5 DEF DestroySafe
<1>12. Guarded' /\ GoneReset'
  BY <1>2, <1>3 DEF Guarded, GoneReset, TypeOK, Goto
<1>13. Counted' = Counted /\ Starting' = Starting
  BY <1>2, <1>3 DEF Counted, Starting, TypeOK, Goto
<1>14. DueFirst' /\ Closing'
  BY <1>2, <1>3, <1>13 DEF DueFirst, Closing, TypeOK, Goto
<1> QED
  BY <1>4, <1>7, <1>9, <1>10, <1>11, <1>12, <1>14

(* A sleeper comes out with the key.                                       *)
LEMMA GatePassIInv == ASSUME IInv, NEW t \in Threads, GatePass(t) PROVE IInv'
<1> USE DEF IInv, GatePass
<1>1. TypeOK'
  BY TakenUnits, PointNames DEF TypeOK, Goto, WaitPoints, KeyPoints, SleepPoints
<1>2. /\ Cardinality(Counted') = Cardinality(Counted)
      /\ Cardinality(KeyHolders') = Cardinality(KeyHolders) + 1
      /\ Cardinality(Sleepers') = Cardinality(Sleepers) - 1
  BY Moves, Cardinals DEF WaitPoints, KeyPoints, SleepPoints
<1>3. WaitersCounted'
  BY <1>2, Cardinals DEF WaitersCounted, TypeOK
<1>4. OneKey'
  BY <1>2, Cardinals, Ranges, TakenUnits DEF OneKey, Keys, TypeOK
<1>5. GateCounted'
  BY <1>2, Cardinals, Ranges, TakenUnits DEF GateCounted, TypeOK
<1>6. DestroySafe'
  BY DEF DestroySafe, TypeOK, Goto, Closing
<1>7. Guarded' /\ GoneReset'
  BY DEF Guarded, GoneReset, TypeOK, Goto
<1>8. DueFirst'
  BY DEF DueFirst, Counted, TypeOK, Goto
<1>9. Closing'
  BY DEF Closing, Starting, TypeOK, Goto, DestroySafe
<1> QED
  BY <1>1, <1>3, <1>4, <1>5, <1>6, <1>7, <1>8, <1>9

(* A canceled sleeper is still counted, until its cleanup.                 *)
LEMMA GateCancelIInv == ASSUME IInv, NEW t \in Threads, GateCancel(t) PROVE IInv'
<1> USE DEF IInv, GateCancel
<1>1. TypeOK'
  BY PointNames DEF TypeOK, Goto, WaitPoints, KeyPoints, SleepPoints
<1>2. /\ Cardinality(Counted') = Cardinality(Counted)
      /\ Cardinality(KeyHolders') = Cardinality(KeyHolders)
      /\ Cardinality(Sleepers') = Cardinality(Sleepers)
  BY Moves, Cardinals DEF WaitPoints, KeyPoints, SleepPoints
<1>3. WaitersCounted'
  BY <1>2, Cardinals DEF WaitersCounted, TypeOK
<1>4. OneKey'
  BY <1>2, Cardinals, Ranges DEF OneKey, Keys, TypeOK
<1>5. GateCounted'
  BY <1>2, Cardinals, Ranges DEF GateCounted, TypeOK
<1>6. DestroySafe'
  BY DEF DestroySafe, TypeOK, Goto, Closing
<1>7. Guarded' /\ GoneReset'
  BY DEF Guarded, GoneReset, TypeOK, Goto
<1>8. DueFirst'
  BY DEF DueFirst, Counted, TypeOK, Goto
<1>9. Closing'
  BY DEF Closing, Starting, TypeOK, Goto, DestroySafe
<1> QED
  BY <1>1, <1>3, <1>4, <1>5, <1>6, <1>7, <1>8, <1>9

(* The cleanup may take the key with it.                                   *)
LEMMA GateCleanupIInv == ASSUME IInv, NEW t \in Threads, GateCleanup(t) PROVE IInv'
<1> USE DEF IInv, GateCleanup
<1>1. /\ Cardinality(Counted') = Cardinality(Counted)
      /\ Cardinality(KeyHolders') = Cardinality(KeyHolders)
      /\ Cardinality(Sleepers') = Cardinality(Sleepers) - 1
      /\ Cardinality(Sleepers') \in Nat
  BY Moves, Cardinals DEF WaitPoints, KeyPoints, SleepPoints
<1>2. semBlockLock \in SemType /\ Room(semBlockLock) > 0
  BY <1>1, Cardinals, Ranges DEF TypeOK, GateCounted
<1>3. semBlockLock.sem - semBlockLock'.sem \in Nat
  BY <1>2, SettledUnits DEF SemType
<1>4. TypeOK'
  BY <1>2, <1>3, SettledUnits, PointNames DEF TypeOK, Goto, WaitPoints, KeyPoints,
     SleepPoints
<1>5. WaitersCounted'
  BY <1>1 DEF WaitersCounted
<1>6. /\ lostKeys' = lostKeys + (semBlockLock.sem - semBlockLock'.sem)
      /\ Units(semBlockLock') = Units(semBlockLock) - (semBlockLock.sem - semBlockLock'.sem)
      /\ lostKeys \in Nat /\ Units(semBlockLock) \in Nat /\ Cardinality(KeyHolders) \in Nat
      /\ nWaitersToUnblock \in Nat
      /\ nWaitersToUnblock' = nWaitersToUnblock /\ valid' = valid
  BY <1>2, Ranges, SettledUnits, Cardinals DEF TypeOK
<1>7. OneKey'
  BY <1>1, <1>3, <1>6 DEF OneKey, Keys
<1>8. Room(semBlockLock') \in Int /\ Room(semBlockLock') >= Room(semBlockLock) - 1
  BY <1>2, SettledUnits DEF SemType, Room
<1>9. GateCounted'
  BY <1>1, <1>8, Cardinals, Ranges DEF GateCounted
<1>10. DestroySafe'
  BY DEF DestroySafe, TypeOK, Goto
<1>11. Guarded' /\ GoneReset'
  BY DEF Guarded, GoneReset, TypeOK, Goto
<1>12. DueFirst'
  BY DEF DueFirst, Counted, TypeOK, Goto
<1>13. Closing'
  BY DEF Closing, Starting, TypeOK, Goto
<1> QED
  BY <1>4, <1>5, <1>7, <1>9, <1>10, <1>11, <1>12, <1>13

(* Nobody begins to wait during a destroy.                                 *)
LEMMA WaitIInv == ASSUME IInv, NEW t \in Threads, Wait(t) PROVE IInv'
<1> USE DEF IInv, Wait
<1>1. TypeOK'
  BY PointNames DEF TypeOK, Goto, WaitPoints, KeyPoints, SleepPoints
<1>2. /\ Cardinality(Counted') = Cardinality(Counted)
      /\ Cardinality(KeyHolders') = Cardinality(KeyHolders)
      /\ Cardinality(Sleepers') = Cardinality(Sleepers)
  BY Moves, Cardinals DEF WaitPoints, KeyPoints, SleepPoints
<1>3. WaitersCounted'
  BY <1>2, Cardinals DEF WaitersCounted, TypeOK
<1>4. OneKey'
  BY <1>2, Cardinals, Ranges DEF OneKey, Keys, TypeOK
<1>5. GateCounted'
  BY <1>2, Cardinals, Ranges DEF GateCounted, TypeOK
<1>6. DestroySafe'
  BY DEF DestroySafe, TypeOK, Goto, Closing
<1>7. Guarded' /\ GoneReset'
  BY DEF Guarded, GoneReset, TypeOK, Goto
<1>8. DueFirst'
  BY DEF DueFirst, Counted, TypeOK, Goto
<1>9. Closing'
  BY DEF Closing, Starting, TypeOK, Goto, DestroySafe
<1> QED
  BY <1>1, <1>3, <1>4, <1>5, <1>6, <1>7, <1>8, <1>9

(* Who counts itself a waiter has the key, so nobody is being unblocked.   *)
LEMMA CountWaiterIInv == ASSUME IInv, NEW t \in Threads, CountWaiter(t) PROVE IInv'
<1> USE DEF IInv, CountWaiter
<1>1. valid /\ nWaitersToUnblock = 0 /\ (\A u \in Threads \ {t} : pc[u] \notin KeyPoints) /\ due = {}
  BY KeyAlone, DueShut DEF KeyPoints
<1>2. TypeOK'
  BY PointNames DEF TypeOK, Goto, WaitPoints, KeyPoints, SleepPoints
<1>3. /\ Cardinality(Counted') = Cardinality(Counted) + 1
      /\ Cardinality(KeyHolders') = Cardinality(KeyHolders)
      /\ Cardinality(Sleepers') = Cardinality(Sleepers)
  BY Moves, Cardinals DEF WaitPoints, KeyPoints, SleepPoints
<1>4. WaitersCounted'
  BY <1>1, <1>3, Cardinals DEF WaitersCounted, TypeOK
<1>5. OneKey'
  BY <1>1, <1>3, Cardinals, Ranges DEF OneKey, Keys, TypeOK
<1>6. GateCounted'
  BY <1>3, Cardinals, Ranges DEF GateCounted, TypeOK
<1>7. DestroySafe'
  BY <1>1 DEF DestroySafe, TypeOK, Goto, Closing
<1>8. Guarded' /\ GoneReset'
  BY <1>1 DEF Guarded, GoneReset, TypeOK, Goto
<1>9. DueFirst'
  BY <1>1 DEF DueFirst, Counted, TypeOK, Goto
<1>10. Closing'
  BY <1>1 DEF Closing, Starting, TypeOK, Goto, DestroySafe
<1> QED
  BY <1>2, <1>4, <1>5, <1>6, <1>7, <1>8, <1>9, <1>10

(* The key goes back to the gate.                                          *)
LEMMA OpenIInv == ASSUME IInv, NEW t \in Threads, Open(t) \/ Reopen(t) PROVE IInv'
<1> USE DEF IInv, Open, Reopen, OpenGate
<1>1. valid /\ nWaitersToUnblock = 0 /\ (\A u \in Threads \ {t} : pc[u] \notin KeyPoints) /\ due = {}
  BY KeyAlone, DueShut DEF KeyPoints
<1>2. TypeOK'
  BY PostedUnits, PointNames DEF TypeOK, Goto, WaitPoints, KeyPoints, SleepPoints
<1>3. /\ Cardinality(Counted') = Cardinality(Counted)
      /\ Cardinality(KeyHolders') = Cardinality(KeyHolders) - 1
      /\ Cardinality(Sleepers') = Cardinality(Sleepers)
  BY Moves, Cardinals DEF WaitPoints, KeyPoints, SleepPoints
<1>4. WaitersCounted'
  BY <1>1, <1>3, Cardinals DEF WaitersCounted, TypeOK
<1>5. OneKey'
  BY <1>1, <1>3, Cardinals, Ranges, PostedUnits DEF OneKey, Keys, TypeOK
<1>6. GateCounted'
  BY <1>3, Cardinals, Ranges, PostedUnits DEF GateCounted, TypeOK
<1>7. DestroySafe'
  BY <1>1 DEF DestroySafe, TypeOK, Goto, Closing
<1>8. Guarded' /\ GoneReset'
  BY <1>1 DEF Guarded, GoneReset, TypeOK, Goto
<1>9. DueFirst'
  BY <1>1 DEF DueFirst, Counted, TypeOK, Goto
<1>10. Closing'
  <2>1. Starting' = Starting
    BY DEF Starting, TypeOK, Goto
  <2> QED
    BY <1>1, <2>1 DEF Closing, TypeOK, Goto
<1> QED
  BY <1>2, <1>4, <1>5, <1>6, <1>7, <1>8, <1>9, <1>10

(* A waiter on its way into the queue, and out of it.                      *)
LEMMA ReleaseIInv == ASSUME IInv, NEW t \in Threads, Release(t) PROVE IInv'
<1> USE DEF IInv, Release
<1>1. TypeOK'
  BY PointNames DEF TypeOK, Goto, WaitPoints, KeyPoints, SleepPoints
<1>2. /\ Cardinality(Counted') = Cardinality(Counted)
      /\ Cardinality(KeyHolders') = Cardinality(KeyHolders)
      /\ Cardinality(Sleepers') = Cardinality(Sleepers)
  BY Moves, Cardinals DEF WaitPoints, KeyPoints, SleepPoints
<1>3. WaitersCounted'
  BY <1>2, Cardinals DEF WaitersCounted, TypeOK
<1>4. OneKey'
  BY <1>2, Cardinals, Ranges DEF OneKey, Keys, TypeOK
<1>5. GateCounted'
  BY <1>2, Cardinals, Ranges DEF GateCounted, TypeOK
<1>6. DestroySafe'
  BY DEF DestroySafe, TypeOK, Goto, Closing
<1>7. Guarded' /\ GoneReset'
  BY DEF Guarded, GoneReset, TypeOK, Goto
<1>8. DueFirst'
  BY DEF DueFirst, Counted, TypeOK, Goto
<1>9. Closing'
  BY DEF Closing, Starting, TypeOK, Goto, DestroySafe
<1> QED
  BY <1>1, <1>3, <1>4, <1>5, <1>6, <1>7, <1>8, <1>9

(* However the wait in the queue ends, the waiter is still counted.        *)
LEMMA QueueIInv == ASSUME IInv, NEW t \in Threads, Enqueue(t) \/ Awake(t) \/ GiveUp(t) \/ Late(t) PROVE IInv'
<1> USE DEF IInv, Enqueue, Awake, GiveUp, Late
<1>1. TypeOK'
  BY ClaimedUnits, TakenUnits, QueueTypes, PointNames DEF TypeOK, Goto, WaitPoints,
     KeyPoints, SleepPoints
<1>2. /\ Cardinality(Counted') = Cardinality(Counted)
      /\ Cardinality(KeyHolders') = Cardinality(KeyHolders)
      /\ Cardinality(Sleepers') = Cardinality(Sleepers)
  BY Moves, Cardinals DEF WaitPoints, KeyPoints, SleepPoints
<1>3. WaitersCounted'
  BY <1>2, Cardinals DEF WaitersCounted, TypeOK
<1>4. OneKey'
  BY <1>2, Cardinals, Ranges, ClaimedUnits, TakenUnits, QueueTypes DEF OneKey, Keys, TypeOK
<1>5. GateCounted'
  BY <1>2, Cardinals, Ranges, ClaimedUnits, TakenUnits, QueueTypes DEF GateCounted, TypeOK
<1>6. DestroySafe'
  BY DEF DestroySafe, TypeOK, Goto, Closing
<1>7. Guarded' /\ GoneReset'
  BY DEF Guarded, GoneReset, TypeOK, Goto
<1>8. DueFirst'
  BY DEF DueFirst, Counted, TypeOK, Goto
<1>9. Closing'
  BY DEF Closing, Starting, TypeOK, Goto, DestroySafe
<1> QED
  BY <1>1, <1>3, <1>4, <1>5, <1>6, <1>7, <1>8, <1>9

(* A waiter that has left no longer touches the condition variable.        *)
LEMMA RelockIInv == ASSUME IInv, NEW t \in Threads, Relock(t) PROVE IInv'
<1> USE DEF IInv, Relock
<1>1. TypeOK'
  BY PointNames DEF TypeOK, Goto, WaitPoints, KeyPoints, SleepPoints
<1>2. /\ Cardinality(Counted') = Cardinality(Counted)
      /\ Cardinality(KeyHolders') = Cardinality(KeyHolders)
      /\ Cardinality(Sleepers') = Cardinality(Sleepers)
  BY Moves, Cardinals DEF WaitPoints, KeyPoints, SleepPoints
<1>3. WaitersCounted'
  BY <1>2, Cardinals DEF WaitersCounted, TypeOK
<1>4. OneKey'
  BY <1>2, Cardinals, Ranges DEF OneKey, Keys, TypeOK
<1>5. GateCounted'
  BY <1>2, Cardinals, Ranges DEF GateCounted, TypeOK
<1>6. DestroySafe'
  BY DEF DestroySafe, TypeOK, Goto, Closing
<1>7. Guarded' /\ GoneReset'
  BY DEF Guarded, GoneReset, TypeOK, Goto
<1>8. DueFirst'
  BY DEF DueFirst, Counted, TypeOK, Goto
<1>9. Closing'
  BY DEF Closing, Starting, TypeOK, Goto, DestroySafe
<1> QED
  BY <1>1, <1>3, <1>4, <1>5, <1>6, <1>7, <1>8, <1>9

(* The posts that a signal or broadcast owes.                              *)
LEMMA PostIInv == ASSUME IInv, NEW t \in Threads, Post(t) PROVE IInv'
<1> USE DEF IInv, Post
<1>1. TypeOK'
  BY QueueTypes, PointNames DEF TypeOK, Goto, WaitPoints, KeyPoints, SleepPoints
<1>2. /\ Cardinality(Counted') = Cardinality(Counted)
      /\ Cardinality(KeyHolders') = Cardinality(KeyHolders)
      /\ Cardinality(Sleepers') = Cardinality(Sleepers)
  BY Moves, Cardinals DEF WaitPoints, KeyPoints, SleepPoints
<1>3. WaitersCounted'
  BY <1>2, Cardinals DEF WaitersCounted, TypeOK
<1>4. OneKey'
  BY <1>2, Cardinals, Ranges DEF OneKey, Keys, TypeOK
<1>5. GateCounted'
  BY <1>2, Cardinals, Ranges DEF GateCounted, TypeOK
<1>6. DestroySafe'
  BY DEF DestroySafe, TypeOK, Goto, Closing
<1>7. Guarded' /\ GoneReset'
  BY DEF Guarded, GoneReset, TypeOK, Goto
<1>8. DueFirst'
  BY DEF DueFirst, Counted, TypeOK, Goto
<1>9. Closing'
  BY DEF Closing, Starting, TypeOK, Goto, DestroySafe
<1> QED
  BY <1>1, <1>3, <1>4, <1>5, <1>6, <1>7, <1>8, <1>9

(* The waiters that are gone are taken off both counts.                    *)
LEMMA GoneIInv == ASSUME IInv, NEW t \in Threads, Gone(t) PROVE IInv'
<1> USE DEF IInv, Gone, OpenGate
<1>1. valid /\ nWaitersToUnblock = 0 /\ (\A u \in Threads \ {t} : pc[u] \notin KeyPoints) /\ due = {}
  BY KeyAlone, DueShut DEF KeyPoints
<1>2. TypeOK'
  <2>1. nWaitersBlocked - nWaitersGone \in Nat
    BY <1>1, Cardinals DEF WaitersCounted, TypeOK
  <2> QED
    BY <2>1, PostedUnits, PointNames DEF TypeOK, Goto, WaitPoints, KeyPoints, SleepPoints
<1>3. /\ Cardinality(Counted') = Cardinality(Counted)
      /\ Cardinality(KeyHolders') = Cardinality(KeyHolders) - 1
      /\ Cardinality(Sleepers') = Cardinality(Sleepers)
  BY Moves, Cardinals DEF WaitPoints, KeyPoints, SleepPoints
<1>4. WaitersCounted'
  BY <1>1, <1>3, Cardinals DEF WaitersCounted, TypeOK
<1>5. OneKey'
  BY <1>1, <1>3, Cardinals, Ranges, PostedUnits DEF OneKey, Keys, TypeOK
<1>6. GateCounted'
  BY <1>3, Cardinals, Ranges, PostedUnits DEF GateCounted, TypeOK
<1>7. DestroySafe'
  BY <1>1 DEF DestroySafe, TypeOK, Goto, Closing
<1>8. Guarded' /\ GoneReset'
  BY <1>1 DEF Guarded, GoneReset, TypeOK, Goto
<1>9. DueFirst'
  BY <1>1 DEF DueFirst, Counted, TypeOK, Goto
<1>10. Closing'
  BY <1>1 DEF Closing, Starting, TypeOK, Goto, DestroySafe
<1> QED
  BY <1>2, <1>4, <1>5, <1>6, <1>7, <1>8, <1>9, <1>10

(* The destroyer sees to it that nobody is on the way in.                  *)
LEMMA DestroyIInv == ASSUME IInv, NEW t \in Threads, Destroy(t) PROVE IInv'
<1> USE DEF IInv, Destroy
<1>1. TypeOK'
  BY PointNames DEF TypeOK, Goto, WaitPoints, KeyPoints, SleepPoints
<1>2. /\ Cardinality(Counted') = Cardinality(Counted)
      /\ Cardinality(KeyHolders') = Cardinality(KeyHolders)
      /\ Cardinality(Sleepers') = Cardinality(Sleepers)
  BY Moves, Cardinals DEF WaitPoints, KeyPoints, SleepPoints
<1>3. WaitersCounted'
  BY <1>2, Cardinals DEF WaitersCounted, TypeOK
<1>4. OneKey'
  BY <1>2, Cardinals, Ranges DEF OneKey, Keys, TypeOK
<1>5. GateCounted'
  BY <1>2, Cardinals, Ranges DEF GateCounted, TypeOK
<1>6. DestroySafe'
  BY DEF DestroySafe, TypeOK, Goto, Closing
<1>7. Guarded' /\ GoneReset'
  BY DEF Guarded, GoneReset, TypeOK, Goto
<1>8. DueFirst'
  BY DEF DueFirst, Counted, TypeOK, Goto
<1>9. Closing'
  BY DEF Closing, Starting, TypeOK, Goto, DestroySafe
<1> QED
  BY <1>1, <1>3, <1>4, <1>5, <1>6, <1>7, <1>8, <1>9

(* A waiter leaves.  The last of those to be unblocked has the key; the    *)
(* one that brings the gone to their limit keeps mtxUnblockLock.           *)
LEMMA CleanupIInv == ASSUME IInv, NEW t \in Threads, Cleanup(t) PROVE IInv'
<1> USE DEF IInv, Cleanup
<1> USE DEF WaitPoints, KeyPoints, SleepPoints
<1>1. valid /\ nWaitersToUnblock \in Nat /\ nWaitersGone \in Nat /\ nWaitersBlocked \in Nat
  BY DEF DestroySafe, TypeOK
<1>2. TypeOK'
  BY <1>1, PointNames DEF TypeOK, Goto
<1>3. /\ Cardinality(Counted') = Cardinality(Counted) - 1
      /\ Cardinality(Sleepers') = Cardinality(Sleepers)
      /\ Cardinality(KeyHolders') = Cardinality(KeyHolders) + (IF nWaitersToUnblock = 1 THEN 1 ELSE 0)
  <2>1. PICK p \in {"reopen", "relock", "gone"} :
          Goto(t, p) /\ (p = "reopen" <=> nWaitersToUnblock = 1)
    BY <1>1
  <2> QED
    BY <2>1, Moves, Cardinals
<1>4. WaitersCounted'
  BY <1>1, <1>3, Cardinals DEF WaitersCounted
<1>5. OneKey'
  BY <1>1, <1>3, Cardinals, Ranges DEF OneKey, Keys, TypeOK
<1>6. GateCounted'
  BY <1>3 DEF GateCounted
<1>7. DestroySafe' /\ GoneReset'
  BY <1>1 DEF DestroySafe, GoneReset
<1>8. Guarded'
  BY <1>1 DEF Guarded, TypeOK, Goto
<1>9. DueFirst'
  <2>1. Counted' = Counted \ {t}
    BY DEF Counted, TypeOK, Goto
  <2> QED
    BY <2>1 DEF DueFirst
<1>10. Closing'
  BY <1>1 DEF Closing, Starting, TypeOK, Goto
<1> QED
  BY <1>2, <1>4, <1>5, <1>6, <1>7, <1>8, <1>9, <1>10

(* While others are being unblocked, a signal takes one more, or all; or   *)
(* it goes to shut the gate.                                               *)
LEMMA SignalIInv ==
    ASSUME IInv, NEW t \in Threads, NEW all \in BOOLEAN, Signal(t, all)
    PROVE  IInv'
<1> USE DEF IInv, Signal, Unblock
<1> USE DEF WaitPoints, KeyPoints, SleepPoints
<1>1. valid /\ closing = NULL
  BY DEF Closing
<1>2. /\ nWaitersToUnblock \in Nat /\ nWaitersBlocked \in Nat /\ nWaitersGone \in Nat
      /\ nWaitersToUnblock' \in Nat /\ nWaitersBlocked' \in Nat
      /\ nWaitersToUnblock' > 0 <=> nWaitersToUnblock > 0
      /\ nWaitersToUnblock' + nWaitersBlocked' = nWaitersToUnblock + nWaitersBlocked
  BY DEF TypeOK
<1>3. TypeOK'
  <2>1. Counted \subseteq Threads
    BY DEF Counted
  <2> QED
    BY <1>2, <2>1, PointNames DEF TypeOK, Goto
<1>4. PICK p \in {"post", "signal"} : Goto(t, p)
  OBVIOUS
<1>5. /\ Cardinality(Counted') = Cardinality(Counted)
      /\ Cardinality(KeyHolders') = Cardinality(KeyHolders)
      /\ Cardinality(Sleepers') = Cardinality(Sleepers)
  BY <1>4, Moves, Cardinals
<1>6. WaitersCounted'
  BY <1>2, <1>5, Cardinals DEF WaitersCounted
<1>7. OneKey'
  BY <1>1, <1>2, <1>5 DEF OneKey, Keys
<1>8. GateCounted'
  BY <1>5 DEF GateCounted
<1>9. DestroySafe' /\ GoneReset'
  BY <1>1, <1>2 DEF DestroySafe, GoneReset
<1>10. Guarded'
  BY <1>1, <1>2 DEF Guarded, TypeOK, Goto
<1>11. DueFirst'
  <2>1. Counted' = Counted
    BY DEF Counted, TypeOK, Goto
  <2> QED
    BY <1>2, <2>1 DEF DueFirst
<1>12. Closing'
  BY <1>1, <1>4 DEF Closing, TypeOK, Goto
<1> QED
  BY <1>3, <1>6, <1>7, <1>8, <1>9, <1>10, <1>11, <1>12

(* The first signal has the key: the gate is shut while those that it      *)
(* unblocks, at least one, leave.                                          *)
LEMMA SignalFirstIInv == ASSUME IInv, NEW t \in Threads, SignalFirst(t) PROVE IInv'
<1> USE DEF IInv, SignalFirst
<1> USE DEF WaitPoints, KeyPoints, SleepPoints
<1>1. /\ valid /\ nWaitersToUnblock = 0
      /\ \A u \in Threads \ {t} : pc[u] \notin KeyPoints
      /\ due = {}
  BY KeyAlone, DueShut
<1>2. /\ nWaitersBlocked \in Nat /\ nWaitersGone \in Nat
      /\ nWaitersBlocked > nWaitersGone
      /\ mtxUnblockLock = t
      /\ unblockAll[t] \in BOOLEAN
  BY DEF TypeOK, Guarded
<1>3. PICK n \in Nat :
        /\ n > 0 /\ n <= nWaitersBlocked - nWaitersGone
        /\ unblockAll[t] => n = nWaitersBlocked - nWaitersGone
        /\ nSignals' = [nSignals EXCEPT ![t] = n]
        /\ nWaitersToUnblock' = n
        /\ nWaitersBlocked' = nWaitersBlocked - nWaitersGone - n
        /\ due' = IF unblockAll[t] THEN Counted ELSE {}
        /\ Goto(t, "post")
  <2> DEFINE n == IF unblockAll[t] THEN nWaitersBlocked - nWaitersGone ELSE 1
  <2>1. /\ n \in Nat /\ n > 0 /\ n <= nWaitersBlocked - nWaitersGone
        /\ unblockAll[t] => n = nWaitersBlocked - nWaitersGone
    BY <1>2
  <2>2. /\ nSignals' = [nSignals EXCEPT ![t] = n]
        /\ nWaitersToUnblock' = nWaitersToUnblock + n
        /\ nWaitersBlocked' = nWaitersBlocked - nWaitersGone - n
        /\ due' = IF unblockAll[t] THEN Counted ELSE due
        /\ Goto(t, "post")
    BY DEF Unblock
  <2> HIDE DEF n
  <2>3. nWaitersToUnblock' = n /\ due' = IF unblockAll[t] THEN Counted ELSE {}
    BY <1>1, <2>1, <2>2
  <2> QED
    BY <2>1, <2>2, <2>3
<1>4. TypeOK'
  <2>1. Counted \subseteq Threads
    BY DEF Counted
  <2> QED
    BY <1>2, <1>3, <2>1, PointNames DEF TypeOK, Goto
<1>5. /\ Cardinality(Counted') = Cardinality(Counted)
      /\ Cardinality(KeyHolders') = Cardinality(KeyHolders) - 1
      /\ Cardinality(Sleepers') = Cardinality(Sleepers)
  BY <1>3, Moves, Cardinals
<1>6. WaitersCounted'
  BY <1>1, <1>2, <1>3, <1>5, Cardinals DEF WaitersCounted
<1>7. OneKey'
  BY <1>1, <1>3, <1>5, Cardinals, Ranges DEF OneKey, Keys, TypeOK
<1>8. GateCounted'
  BY <1>5 DEF GateCounted
<1>9. DestroySafe' /\ GoneReset'
  BY <1>1 DEF DestroySafe, GoneReset
<1>10. Guarded'
  BY <1>2, <1>3 DEF Guarded, TypeOK, Goto
<1>11. DueFirst'
  <2>1. Counted' = Counted
    BY <1>3 DEF Counted, TypeOK, Goto
  <2> QED
    BY <1>2, <1>3, <2>1 DEF DueFirst
<1>12. Closing'
  <2>1. t \in Starting
    BY DEF Starting
  <2>2. closing = NULL
    BY <2>1 DEF Closing
  <2> QED
    BY <1>1, <1>3, <2>2 DEF Closing, TypeOK, Goto
<1> QED
  BY <1>4, <1>6, <1>7, <1>8, <1>9, <1>10, <1>11, <1>12

(* Destroy has the key and finds mtxUnblockLock free and nobody waiting:   *)
(* then nobody is inside any call, but for leaving it.                     *)
LEMMA DestroyGatedIInv == ASSUME IInv, NEW t \in Threads, DestroyGated(t) PROVE IInv'
<1> USE DEF IInv, DestroyGated, OpenGate
<1> USE DEF WaitPoints, KeyPoints, SleepPoints
<1>1. /\ valid /\ nWaitersToUnblock = 0
      /\ \A u \in Threads \ {t} : pc[u] \notin KeyPoints
      /\ due = {}
  BY KeyAlone, DueShut
<1>2. closing = t /\ Starting = {}
  BY <1>1 DEF Closing
<1>3. /\ Cardinality(Counted') = Cardinality(Counted)
      /\ Cardinality(KeyHolders') = Cardinality(KeyHolders) - 1
      /\ Cardinality(Sleepers') = Cardinality(Sleepers)
  BY Moves, Cardinals
<1>4. TypeOK'
  BY PostedUnits, PointNames DEF TypeOK, Goto
<1>5. WaitersCounted'
  BY <1>3 DEF WaitersCounted
<1>6. OneKey'
  BY <1>1, <1>3, Cardinals, Ranges, PostedUnits DEF OneKey, Keys, TypeOK
<1>7. GateCounted'
  BY <1>3, Ranges, PostedUnits DEF GateCounted, TypeOK
<1>8. DestroySafe'
  <2> SUFFICES ASSUME ~valid' PROVE \A u \in Threads \ {t} : pc[u] \in {"idle", "relock"}
    BY DEF DestroySafe, TypeOK, Goto
  <2>1. mtxUnblockLock = NULL /\ nWaitersBlocked <= nWaitersGone
    BY <1>1
  <2>2. Counted = {}
    BY <1>1, <2>1, Cardinals DEF WaitersCounted, TypeOK
  <2> SUFFICES ASSUME NEW u \in Threads \ {t} PROVE pc[u] \in {"idle", "relock"}
    OBVIOUS
  <2>3. pc[u] \notin WaitPoints /\ pc[u] \notin KeyPoints
    BY <1>1, <2>2 DEF Counted
  <2>4. pc[u] \notin At("gone") \cup At("signal") \cup At("destroy")
    BY <1>1, <1>2, <2>1 DEF Guarded, Closing
  <2>5. pc[u] \notin At("enter") \cup {"canceled", "post"}
    BY <1>2 DEF Starting
  <2> QED
    BY <2>3, <2>4, <2>5, PointNames DEF TypeOK
<1>9. Guarded' /\ GoneReset'
  BY <1>1 DEF Guarded, GoneReset, TypeOK, Goto
<1>10. DueFirst'
  BY <1>1 DEF DueFirst
<1>11. Closing'
  <2>1. Starting' = {}
    BY <1>2 DEF Starting, TypeOK, Goto
  <2> QED
    BY <1>1, <1>2, <2>1 DEF Closing, TypeOK, Goto
<1> QED
  BY <1>4, <1>5, <1>6, <1>7, <1>8, <1>9, <1>10, <1>11

(* A step that changes nothing.                                            *)
LEMMA StutterIInv == ASSUME IInv, UNCHANGED vars PROVE IInv'
<1>1. /\ Counted' = Counted /\ KeyHolders' = KeyHolders /\ Sleepers' = Sleepers
      /\ Starting' = Starting
  BY DEF Counted, KeyHolders, Sleepers, Starting, vars
<1>2. TypeOK'
  BY DEF IInv, TypeOK, vars
<1>3. WaitersCounted' /\ OneKey' /\ GateCounted'
  BY <1>1 DEF IInv, WaitersCounted, OneKey, Keys, GateCounted, vars
<1>4. DestroySafe' /\ Guarded' /\ GoneReset' /\ DueFirst' /\ Closing'
  BY <1>1 DEF IInv, DestroySafe, Guarded, GoneReset, DueFirst, Closing, vars
<1> QED
  BY <1>2, <1>3, <1>4 DEF IInv

(***************************************************************************)
(* The theorems                                                            *)
(***************************************************************************)
(* The inductive invariant holds in every reachable state.                 *)
THEOREM Invariance == Spec => []IInv
<1>1. Init => IInv
  BY InitIInv
<1>2. IInv /\ [Next]_vars => IInv'
  <2> SUFFICES ASSUME IInv, [Next]_vars PROVE IInv'
    OBVIOUS
  <2>1. ASSUME NEW t \in Threads, Call(t) PROVE IInv'
    BY <2>1, LockIInv, WaitIInv, SignalIInv, DestroyIInv DEF Call
  <2>2. ASSUME NEW t \in Threads, Step(t) PROVE IInv'
    BY <2>2, GateWaitIInv, GatePassIInv, GateCleanupIInv, CountWaiterIInv, OpenIInv,
       ReleaseIInv, QueueIInv, CleanupIInv, GoneIInv, SignalFirstIInv, PostIInv,
       DestroyGatedIInv DEF Step
  <2>3. ASSUME NEW t \in Threads, Relock(t) \/ GateCancel(t) \/ GiveUp(t) PROVE IInv'
    BY <2>3, RelockIInv, GateCancelIInv, QueueIInv
  <2>4. CASE UNCHANGED vars
    BY <2>4, StutterIInv
  <2> QED
    BY <2>1, <2>2, <2>3, <2>4 DEF Next
<1> QED
  BY <1>1, <1>2, PTL DEF Spec

(* The condition variable's fields keep their types: no count is ever      *)
(* negative.                                                               *)
THEOREM TypeCorrect == Spec => []TypeOK
<1>1. IInv => TypeOK
  BY DEF IInv
<1> QED
  BY <1>1, Invariance, PTL

(* nWaitersBlocked less nWaitersGone plus nWaitersToUnblock is the number  *)
(* of waiters that have not run their cleanup, whatever ended their wait.  *)
THEOREM Counting == Spec => []WaitersCounted
<1>1. IInv => WaitersCounted
  BY DEF IInv
<1> QED
  BY <1>1, Invariance, PTL

(* semBlockLock is held once: in the gate, by one thread, by the waiters   *)
(* that are being unblocked, or by a canceled one that took it along.      *)
THEOREM Gate == Spec => []OneKey
<1>1. IInv => OneKey
  BY DEF IInv
<1> QED
  BY <1>1, Invariance, PTL

(* The gate stays shut until every thread that a broadcast found waiting   *)
(* has left.                                                               *)
THEOREM Broadcast == Spec => []BroadcastReachesAll
<1>1. ASSUME IInv PROVE BroadcastReachesAll
  <2>1. CASE due = {}
    BY <1>1, <2>1, FS_EmptySet DEF IInv, TypeOK, BroadcastReachesAll
  <2>2. CASE due # {}
    <3>1. nWaitersToUnblock > 0
      BY <1>1, <2>2, DueShut DEF IInv, TypeOK
    <3>2. due = Counted /\ nWaitersBlocked = 0 /\ nWaitersGone = 0
      BY <1>1, <2>2, <3>1 DEF IInv, DueFirst, GoneReset
    <3> QED
      BY <1>1, <3>1, <3>2, Cardinals DEF IInv, WaitersCounted, TypeOK, BroadcastReachesAll
  <2> QED
    BY <2>1, <2>2
<1> QED
  BY <1>1, Invariance, PTL

(* pthread_cond_destroy does not succeed while a call is inside.           *)
THEOREM Destruction == Spec => []DestroySafe
<1>1. IInv => DestroySafe
  BY DEF IInv
<1> QED
  BY <1>1, Invariance, PTL
=============================================================================
