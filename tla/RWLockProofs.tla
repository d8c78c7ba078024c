---------------------------- MODULE RWLockProofs ----------------------------
(***************************************************************************)
(* Proofs about RWLock, for any finite set of threads, any INT_MAX above   *)
(* their number, and any timeouts, cancelations and needless wakeups: a    *)
(* writer is alone, the counts count the readers, and a lock that has been *)
(* destroyed is in nobody's hands.  All of this as long as no timeout has  *)
(* happened at INT_MAX.                                                    *)
(***************************************************************************)
EXTENDS RWLock, FiniteSetTheorems, TLAPS

Typed ==
    /\ mtxExclusiveAccess \in Threads \cup {NULL}
    /\ mtxSharedAccessCompleted \in Threads \cup {NULL}
    /\ nSharedAccessCount \in Int
    /\ nExclusiveAccessCount \in {0, 1}
    /\ nCompletedSharedAccessCount \in Int
    /\ pc \in [Threads -> Points \ {"abandon"}]
    /\ completed \in [Threads -> Int]
    /\ hold \in [Threads -> {"nothing", "read", "write"}]

(* Who has which mutex.                                                    *)
Holders ==
    /\ \A t \in Threads :
          \/ hold[t] = "write"
          \/ pc[t] \in {"compact", "shared", "waiting", "relock", "late",
                        "unlockExclusive", "destroy"}
          => mtxExclusiveAccess = t
    /\ \A t \in Threads :
          hold[t] = "write" \/ pc[t] = "completed" => mtxSharedAccessCompleted = t

(* Where the threads that have locked can be.                              *)
Places ==
    \A t \in Threads :
        /\ hold[t] = "read" => pc[t] \in {"idle", "complete", "completed"}
        /\ hold[t] = "write" => pc[t] \in {"idle", "unlockWriter"}
        /\ pc[t] \in {"complete", "completed"} => hold[t] = "read"
        /\ pc[t] = "unlockWriter" => hold[t] = "write"
        /\ pc[t] = "completed" => completed[t] = nCompletedSharedAccessCount

WriterCounted ==
    nExclusiveAccessCount = IF \E t \in Threads : hold[t] = "write" THEN 1 ELSE 0

WriterAlone ==
    \A t, u \in Threads : hold[t] = "write" /\ u # t => hold[u] = "nothing"

(* The numbers are what they stand for, without wrapping around.           *)
Counting ==
    IF AwaitingReaders
    THEN nCompletedSharedAccessCount = -Cardinality(Counted)
    ELSE /\ nSharedAccessCount - nCompletedSharedAccessCount = Cardinality(Counted)
         /\ nCompletedSharedAccessCount >= 0
         /\ nSharedAccessCount <= INT_MAX
         /\ nSharedAccessCount = INT_MAX => \E t \in Threads : pc[t] = "compact"

Unused == ~valid => \A t \in Threads : pc[t] = "idle" /\ hold[t] = "nothing"

Exact == /\ Typed
         /\ Holders
         /\ Places
         /\ WriterCounted
         /\ WriterAlone
         /\ Counting
         /\ Unused

IInv == abandoned \in BOOLEAN /\ (~abandoned => Exact)

USE NullAssumption, IntAssumption DEF Goto, Holds, Calls, mutexes, counts

(* A set of threads can be counted, and INT_MAX is above the count.        *)
LEMMA CountBounds ==
    ASSUME NEW S \in SUBSET Threads
    PROVE  IsFiniteSet(S) /\ Cardinality(S) \in Nat /\ Cardinality(S) < INT_MAX
<1>1. IsFiniteSet(S) /\ Cardinality(S) <= Cardinality(Threads)
  BY ThreadsAssumption, FS_Subset
<1>2. Cardinality(S) \in Nat /\ Cardinality(Threads) \in Nat
  BY <1>1, ThreadsAssumption, FS_CardinalityType
<1> QED
  BY <1>1, <1>2

(* Within its range an int does not wrap around.                           *)
LEMMA WrappedSame ==
    ASSUME NEW n \in Int, -INT_MAX - 1 <= n, n <= INT_MAX
    PROVE  Wrapped(n) = n
<1>1. (n + INT_MAX + 1) % (2 * INT_MAX + 2) = n + INT_MAX + 1
  OBVIOUS
<1> QED
  BY <1>1 DEF Wrapped

(* A wrapped number is a number.                                           *)
LEMMA WrappedInt == ASSUME NEW n \in Int PROVE Wrapped(n) \in Int
BY DEF Wrapped

LEMMA InitExact == Init => Exact
<1> SUFFICES ASSUME Init PROVE Exact
  OBVIOUS
<1>1. Typed /\ Holders /\ Places /\ WriterCounted /\ WriterAlone /\ Unused
  BY DEF Init, Typed, Points, Holders, Places, WriterCounted, WriterAlone, Unused
<1>2. Counted = {} /\ ~AwaitingReaders
  BY DEF Init, Counted, AwaitingReaders
<1>3. Counting
  BY <1>2, FS_EmptySet, CountBounds DEF Init, Counting
<1> QED
  BY <1>1, <1>3 DEF Exact

(* No writer has or awaits the lock, and INT_MAX has not been reached.     *)
LEMMA ReadExact ==
    ASSUME Exact, NEW t \in Threads, NEW c \in ReadCalls, Read(t, c)
    PROVE  Exact'
<1> USE DEF Exact, Read
<1>1. Typed'
  BY WrappedInt DEF Typed, Points, Places, WriterCounted
<1>2. Holders' /\ Places'
  BY DEF Typed, Holders, Places
<1>3. WriterCounted' /\ WriterAlone'
  BY DEF Typed, Holders, Places, WriterCounted, WriterAlone
<1>4. Counting'
  <2>1. t \notin Counted /\ Counted' = Counted \cup {t}
    BY DEF Typed, Counted, Places
  <2>2. ~AwaitingReaders /\ ~AwaitingReaders'
    BY DEF Typed, Holders, AwaitingReaders
  <2>3. Cardinality(Counted') = Cardinality(Counted) + 1
    BY <2>1, CountBounds, FS_AddElement DEF Counted
  <2>4. nSharedAccessCount < INT_MAX
    BY <2>2 DEF Typed, Holders, Counting
  <2>5. nSharedAccessCount' = nSharedAccessCount + 1
    BY <2>2, <2>4, WrappedSame, CountBounds DEF Typed, Counting, Counted
  <2> QED
    BY <2>2, <2>3, <2>4, <2>5, CountBounds DEF Typed, Counting, Counted
<1>5. Unused'
  BY DEF Typed, Unused, Holders, Places
<1> QED
  BY <1>1, <1>2, <1>3, <1>4, <1>5

(* The thread keeps writers out while it takes the completed readers off.  *)
LEMMA CompactExact ==
    ASSUME Exact, NEW t \in Threads, Compact(t)
    PROVE  Exact'
<1> USE DEF Exact, Compact
<1>1. Typed'
  BY WrappedInt DEF Typed, Points, Places, WriterCounted
<1>2. Holders' /\ Places'
  BY DEF Typed, Holders, Places
<1>3. WriterCounted' /\ WriterAlone'
  BY DEF Typed, Holders, Places, WriterCounted, WriterAlone
<1>4. Counting'
  <2>1. Counted' = Counted
    BY DEF Typed, Counted
  <2>2. ~AwaitingReaders /\ ~AwaitingReaders'
    BY DEF Typed, Holders, AwaitingReaders
  <2>3. nSharedAccessCount' = Cardinality(Counted)
    BY <2>2, WrappedSame, CountBounds DEF Typed, Counting, Counted
  <2> QED
    BY <2>1, <2>2, <2>3, CountBounds DEF Counting, Counted
<1>5. Unused'
  BY DEF Typed, Unused, Holders, Places
<1> QED
  BY <1>1, <1>2, <1>3, <1>4, <1>5

(* The writer has mtxExclusiveAccess, and nothing else has changed.        *)
LEMMA WriteExact ==
    ASSUME Exact, NEW t \in Threads, NEW c \in WriteCalls, Write(t, c)
    PROVE  Exact'
<1> USE DEF Exact, Write
<1>1. Typed'
  BY DEF Typed, Points, Places, WriterCounted
<1>2. Holders' /\ Places'
  BY DEF Typed, Holders, Places
<1>3. WriterCounted' /\ WriterAlone'
  BY DEF Typed, Holders, Places, WriterCounted, WriterAlone
<1>4. Counting'
  <2>1. Counted' = Counted /\ AwaitingReaders' = AwaitingReaders
    BY DEF Typed, Counted, AwaitingReaders, Places
  <2>2. \A u \in Threads : pc'[u] = "compact" <=> pc[u] = "compact"
    BY DEF Typed
  <2> QED
    BY <2>1, <2>2 DEF Counting
<1>5. Unused'
  BY DEF Typed, Unused, Holders, Places
<1> QED
  BY <1>1, <1>2, <1>3, <1>4, <1>5

LEMMA SharedBusyExact ==
    ASSUME Exact, NEW t \in Threads, SharedBusy(t)
    PROVE  Exact'
<1> USE DEF Exact, SharedBusy
<1>1. Typed'
  BY DEF Typed, Points, Places, WriterCounted
<1>2. Holders' /\ Places'
  BY DEF Typed, Holders, Places
<1>3. WriterCounted' /\ WriterAlone'
  BY DEF Typed, Holders, Places, WriterCounted, WriterAlone
<1>4. Counting'
  <2>1. Counted' = Counted /\ AwaitingReaders' = AwaitingReaders
    BY DEF Typed, Counted, AwaitingReaders, Places
  <2>2. \A u \in Threads : pc'[u] = "compact" <=> pc[u] = "compact"
    BY DEF Typed
  <2> QED
    BY <2>1, <2>2 DEF Counting
<1>5. Unused'
  BY DEF Typed, Unused, Holders, Places
<1> QED
  BY <1>1, <1>2, <1>3, <1>4, <1>5

(* While nobody waits for the readers, a writer with both mutexes sees how  *)
(* many there are.                                                         *)
LEMMA ReadersExact ==
    ASSUME Exact, NEW t \in Threads, pc[t] = "shared"
    PROVE  ~AwaitingReaders /\ Readers = Cardinality(Counted)
<1>1. ~AwaitingReaders
  BY DEF Exact, Typed, Holders, AwaitingReaders
<1>2. Cardinality(Counted) \in Nat /\ Cardinality(Counted) < INT_MAX
  BY CountBounds DEF Counted
<1>3. nSharedAccessCount - nCompletedSharedAccessCount = Cardinality(Counted)
      /\ nCompletedSharedAccessCount >= 0
  BY <1>1 DEF Exact, Counting
<1> QED
  BY <1>1, <1>2, <1>3, WrappedSame DEF Exact, Typed, Readers

(* Nobody holds the lock when the counts say so and the mutexes are one    *)
(* thread's.                                                               *)
LEMMA NobodyHolds ==
    ASSUME Exact, mtxSharedAccessCompleted = NULL, Cardinality(Counted) = 0
    PROVE  \A t \in Threads : hold[t] = "nothing"
<1>1. Counted = {}
  BY CountBounds, FS_EmptySet DEF Counted
<1> QED
  BY <1>1 DEF Exact, Typed, Holders, Counted

(* The writer becomes the owner if it sees no reader; or else it waits for *)
(* them, or gives up with the counts made even.                            *)
LEMMA LockSharedExact ==
    ASSUME Exact, NEW t \in Threads, LockShared(t)
    PROVE  Exact'
<1> USE DEF Exact, LockShared
<1>1. ~AwaitingReaders /\ Readers = Cardinality(Counted)
  BY ReadersExact
<1>2. Cardinality(Counted) \in Nat /\ Cardinality(Counted) < INT_MAX
  BY CountBounds DEF Counted
<1>3. \A u \in Threads : hold[u] # "write"
  BY DEF Typed, Holders
<1>4. nExclusiveAccessCount = 0
  BY <1>3 DEF WriterCounted
<1>5. CASE AwaitReaders(t)
  <2>1. Typed'
    BY <1>1, <1>2, <1>5 DEF AwaitReaders, Typed, Points
  <2>2. Holders' /\ Places'
    BY <1>5 DEF AwaitReaders, Typed, Holders, Places
  <2>3. WriterCounted' /\ WriterAlone' /\ Unused'
    BY <1>5 DEF AwaitReaders, Typed, WriterCounted, WriterAlone, Unused
  <2>4. Counted' = Counted /\ AwaitingReaders'
    BY <1>5 DEF AwaitReaders, Typed, Counted, AwaitingReaders
  <2> QED
    BY <1>1, <1>5, <2>1, <2>2, <2>3, <2>4 DEF AwaitReaders, Counting
<1>6. CASE Readers <= 0 /\ Own(t)
  <2>1. \A u \in Threads : hold[u] = "nothing"
    BY <1>1, <1>2, <1>6, NobodyHolds
  <2>2. nSharedAccessCount' = 0 /\ nCompletedSharedAccessCount' = 0
    BY <1>1, <1>2, <1>6 DEF AwaitReaders, Typed, Counting
  <2>3. Typed'
    BY <1>4, <1>6, <2>2 DEF Own, Typed, Points
  <2>4. Holders' /\ Places'
    BY <1>6, <2>1 DEF Own, Typed, Holders, Places
  <2>5. WriterCounted' /\ WriterAlone' /\ Unused'
    BY <1>4, <1>6, <2>1 DEF Own, Typed, WriterCounted, WriterAlone, Unused
  <2>6. Counted' = Counted /\ ~AwaitingReaders'
    BY <1>1, <1>6, <2>1 DEF Own, Typed, Counted, AwaitingReaders
  <2> QED
    BY <1>1, <1>2, <1>6, <2>2, <2>3, <2>4, <2>5, <2>6 DEF Counting
<1>7. CASE /\ Readers > 0
           /\ mtxExclusiveAccess' = NULL
           /\ Goto(t, "idle")
           /\ UNCHANGED <<mtxSharedAccessCompleted, nExclusiveAccessCount, hold>>
           /\ nSharedAccessCount' = Readers
           /\ nCompletedSharedAccessCount' = IF nCompletedSharedAccessCount > 0
                                             THEN 0 ELSE nCompletedSharedAccessCount
  <2>1. nSharedAccessCount' = Cardinality(Counted) /\ nCompletedSharedAccessCount' = 0
    BY <1>1, <1>2, <1>7 DEF Typed, Counting
  <2>2. Typed'
    BY <1>2, <1>7, <2>1 DEF Typed, Points
  <2>3. Holders' /\ Places'
    BY <1>7, <2>1 DEF Typed, Holders, Places
  <2>4. WriterCounted' /\ WriterAlone' /\ Unused'
    BY <1>7 DEF Typed, WriterCounted, WriterAlone, Unused
  <2>5. Counted' = Counted /\ ~AwaitingReaders'
    BY <1>1, <1>7 DEF Typed, Counted, AwaitingReaders
  <2> QED
    BY <1>2, <2>1, <2>2, <2>3, <2>4, <2>5 DEF Counting
<1> QED
  BY <1>5, <1>6, <1>7

LEMMA SpuriousExact ==
    ASSUME Exact, NEW t \in Threads, Spurious(t)
    PROVE  Exact'
<1> USE DEF Exact, Spurious
<1>1. Typed'
  BY DEF Typed, Points, Places, WriterCounted
<1>2. Holders' /\ Places'
  BY DEF Typed, Holders, Places
<1>3. WriterCounted' /\ WriterAlone'
  BY DEF Typed, Holders, Places, WriterCounted, WriterAlone
<1>4. Counting'
  <2>1. Counted' = Counted /\ AwaitingReaders' = AwaitingReaders
    BY DEF Typed, Counted, AwaitingReaders, Places
  <2>2. \A u \in Threads : pc'[u] = "compact" <=> pc[u] = "compact"
    BY DEF Typed
  <2> QED
    BY <2>1, <2>2 DEF Counting
<1>5. Unused'
  BY DEF Typed, Unused, Holders, Places
<1> QED
  BY <1>1, <1>2, <1>3, <1>4, <1>5

LEMMA GiveUpExact ==
    ASSUME Exact, NEW t \in Threads, GiveUp(t)
    PROVE  Exact'
<1> USE DEF Exact, GiveUp
<1>1. Typed'
  BY DEF Typed, Points, Places, WriterCounted
<1>2. Holders' /\ Places'
  BY DEF Typed, Holders, Places
<1>3. WriterCounted' /\ WriterAlone'
  BY DEF Typed, Holders, Places, WriterCounted, WriterAlone
<1>4. Counting'
  <2>1. Counted' = Counted /\ AwaitingReaders' = AwaitingReaders
    BY DEF Typed, Counted, AwaitingReaders, Places
  <2>2. \A u \in Threads : pc'[u] = "compact" <=> pc[u] = "compact"
    BY DEF Typed
  <2> QED
    BY <2>1, <2>2 DEF Counting
<1>5. Unused'
  BY DEF Typed, Unused, Holders, Places
<1> QED
  BY <1>1, <1>2, <1>3, <1>4, <1>5

(* The writer becomes the owner only when the last reader has left.        *)
LEMMA RelockExact ==
    ASSUME Exact, NEW t \in Threads, Relock(t)
    PROVE  Exact'
<1> USE DEF Exact, Relock
<1>1. AwaitingReaders
  BY DEF AwaitingReaders
<1>2. Cardinality(Counted) \in Nat /\ Cardinality(Counted) < INT_MAX
  BY CountBounds DEF Counted
<1>3. CASE nCompletedSharedAccessCount < 0
  <2>1. Typed' /\ Holders' /\ Places'
    BY <1>3 DEF Typed, Points, Holders, Places
  <2>2. WriterCounted' /\ WriterAlone' /\ Unused'
    BY <1>3 DEF Typed, WriterCounted, WriterAlone, Unused
  <2>3. Counted' = Counted /\ AwaitingReaders'
    BY <1>3 DEF Typed, Counted, AwaitingReaders
  <2> QED
    BY <1>1, <1>3, <2>1, <2>2, <2>3 DEF Counting
<1>4. CASE ~(nCompletedSharedAccessCount < 0)
  <2>1. Cardinality(Counted) = 0 /\ nCompletedSharedAccessCount = 0
    BY <1>1, <1>2, <1>4 DEF Counting
  <2>2. \A u \in Threads : hold[u] = "nothing"
    BY <2>1, NobodyHolds
  <2>3. nExclusiveAccessCount = 0
    BY <2>2 DEF WriterCounted
  <2>4. Typed'
    BY <1>4, <2>3 DEF Own, Typed, Points
  <2>5. Holders' /\ Places'
    BY <1>4, <2>2 DEF Own, Typed, Holders, Places
  <2>6. WriterCounted' /\ WriterAlone' /\ Unused'
    BY <1>4, <2>2, <2>3 DEF Own, Typed, WriterCounted, WriterAlone, Unused
  <2>7. Counted' = Counted
    BY <1>4, <2>2 DEF Own, Typed, Counted
  <2>8. ~AwaitingReaders'
    BY <1>4 DEF Own, Typed, Holders, AwaitingReaders
  <2> QED
    BY <1>2, <1>4, <2>1, <2>4, <2>5, <2>6, <2>7, <2>8 DEF Own, Counting
<1> QED
  BY <1>3, <1>4

(* The writer that gives up makes the counts those of the readers that are *)
(* left.                                                                   *)
LEMMA CancelWrWaitExact ==
    ASSUME Exact, NEW t \in Threads, CancelWrWait(t)
    PROVE  Exact'
<1> USE DEF Exact, CancelWrWait
<1>1. Typed'
  BY WrappedInt DEF Typed, Points, Places, WriterCounted
<1>2. Holders' /\ Places'
  BY DEF Typed, Holders, Places
<1>3. WriterCounted' /\ WriterAlone'
  BY DEF Typed, Holders, Places, WriterCounted, WriterAlone
<1>4. Counting'
  <2>1. Counted' = Counted
    BY DEF Typed, Counted
  <2>2. AwaitingReaders /\ ~AwaitingReaders'
    BY DEF Typed, Holders, AwaitingReaders
  <2>3. nSharedAccessCount' = Cardinality(Counted)
    BY <2>2, WrappedSame, CountBounds DEF Typed, Counting, Counted
  <2> QED
    BY <2>1, <2>2, <2>3, CountBounds DEF Counting, Counted
<1>5. Unused'
  BY DEF Typed, Unused, Holders, Places
<1> QED
  BY <1>1, <1>2, <1>3, <1>4, <1>5

(* nExclusiveAccessCount, read without a mutex, tells what the caller has  *)
(* locked: nobody can change it meanwhile.                                 *)
LEMMA UnlockExact ==
    ASSUME Exact, NEW t \in Threads, Unlock(t)
    PROVE  Exact'
<1> USE DEF Exact, Unlock
<1>1. Typed'
  BY DEF Typed, Points, Places, WriterCounted
<1>2. Holders' /\ Places'
  <2>1. hold[t] = "read" <=> nExclusiveAccessCount = 0
    BY DEF Typed, WriterCounted, WriterAlone
  <2> QED
    BY <2>1 DEF Typed, Holders, Places
<1>3. WriterCounted' /\ WriterAlone'
  BY DEF Typed, Holders, Places, WriterCounted, WriterAlone
<1>4. Counting'
  <2>1. Counted' = Counted /\ AwaitingReaders' = AwaitingReaders
    BY DEF Typed, Counted, AwaitingReaders, Places
  <2>2. \A u \in Threads : pc'[u] = "compact" <=> pc[u] = "compact"
    BY DEF Typed
  <2> QED
    BY <2>1, <2>2 DEF Counting
<1>5. Unused'
  BY DEF Typed, Unused, Holders, Places
<1> QED
  BY <1>1, <1>2, <1>3, <1>4, <1>5

LEMMA CompleteExact ==
    ASSUME Exact, NEW t \in Threads, Complete(t)
    PROVE  Exact'
<1> USE DEF Exact, Complete
<1>1. Typed'
  BY DEF Typed, Points, Places, WriterCounted
<1>2. Holders' /\ Places'
  BY DEF Typed, Holders, Places
<1>3. WriterCounted' /\ WriterAlone'
  BY DEF Typed, Holders, Places, WriterCounted, WriterAlone
<1>4. Counting'
  <2>1. Counted' = Counted /\ AwaitingReaders' = AwaitingReaders
    BY DEF Typed, Counted, AwaitingReaders, Places
  <2>2. \A u \in Threads : pc'[u] = "compact" <=> pc[u] = "compact"
    BY DEF Typed
  <2> QED
    BY <2>1, <2>2 DEF Counting
<1>5. Unused'
  BY DEF Typed, Unused, Holders, Places
<1> QED
  BY <1>1, <1>2, <1>3, <1>4, <1>5

(* One reader less, and nobody has changed the count since it was read.    *)
LEMMA CompletedExact ==
    ASSUME Exact, NEW t \in Threads, Completed(t)
    PROVE  Exact'
<1> USE DEF Exact, Completed
<1>1. Typed'
  BY WrappedInt DEF Typed, Points, Places, WriterCounted
<1>2. Holders' /\ Places'
  BY DEF Typed, Holders, Places
<1>3. WriterCounted' /\ WriterAlone'
  BY DEF Typed, Holders, Places, WriterCounted, WriterAlone
<1>4. Counting'
  <2>1. t \in Counted /\ Counted' = Counted \ {t}
    BY DEF Typed, Counted, Places
  <2>2. AwaitingReaders' = AwaitingReaders
    BY DEF Typed, AwaitingReaders


        <2>3. Cardinality(Counted') = Cardinality(Counted) - 1 /\ Cardinality(Counted') \in Nat
    BY <2>1, CountBounds, FS_RemoveElement DEF Counted
  <2>4. nCompletedSharedAccessCount' = nCompletedSharedAccessCount + 1
    BY <2>3, WrappedSame, CountBounds DEF Typed, Places, Counting, Counted
  <2>5. \A u \in Threads : pc[u] = "compact" => pc'[u] = "compact"
    BY DEF Typed
  <2> QED
    BY <2>2, <2>3, <2>4, <2>5, CountBounds DEF Typed, Counting, Counted
<1>5. Unused'
  BY DEF Typed, Unused, Holders, Places
<1> QED
  BY <1>1, <1>2, <1>3, <1>4, <1>5

LEMMA UnlockWriterExact ==
    ASSUME Exact, NEW t \in Threads, UnlockWriter(t)
    PROVE  Exact'
<1> USE DEF Exact, UnlockWriter
<1>1. Typed'
  BY DEF Typed, Points, Places, WriterCounted
<1>2. Holders' /\ Places'
  BY DEF Typed, Holders, Places
<1>3. WriterCounted' /\ WriterAlone'
  BY DEF Typed, Holders, Places, WriterCounted, WriterAlone
<1>4. Counting'
  <2>1. Counted' = Counted /\ AwaitingReaders' = AwaitingReaders
    BY DEF Typed, Counted, AwaitingReaders, Places
  <2>2. \A u \in Threads : pc'[u] = "compact" <=> pc[u] = "compact"
    BY DEF Typed
  <2> QED
    BY <2>1, <2>2 DEF Counting
<1>5. Unused'
  BY DEF Typed, Unused, Holders, Places
<1> QED
  BY <1>1, <1>2, <1>3, <1>4, <1>5

LEMMA UnlockExclusiveExact ==
    ASSUME Exact, NEW t \in Threads, UnlockExclusive(t)
    PROVE  Exact'
<1> USE DEF Exact, UnlockExclusive
<1>1. Typed'
  BY DEF Typed, Points, Places, WriterCounted
<1>2. Holders' /\ Places'
  BY DEF Typed, Holders, Places
<1>3. WriterCounted' /\ WriterAlone'
  BY DEF Typed, Holders, Places, WriterCounted, WriterAlone
<1>4. Counting'
  <2>1. Counted' = Counted /\ AwaitingReaders' = AwaitingReaders
    BY DEF Typed, Counted, AwaitingReaders, Places
  <2>2. \A u \in Threads : pc'[u] = "compact" <=> pc[u] = "compact"
    BY DEF Typed
  <2> QED
    BY <2>1, <2>2 DEF Counting
<1>5. Unused'
  BY DEF Typed, Unused, Holders, Places
<1> QED
  BY <1>1, <1>2, <1>3, <1>4, <1>5

LEMMA DestroyExact ==
    ASSUME Exact, NEW t \in Threads, Destroy(t)
    PROVE  Exact'
<1> USE DEF Exact, Destroy
<1>1. Typed'
  BY DEF Typed, Points, Places, WriterCounted
<1>2. Holders' /\ Places'
  BY DEF Typed, Holders, Places
<1>3. WriterCounted' /\ WriterAlone'
  BY DEF Typed, Holders, Places, WriterCounted, WriterAlone
<1>4. Counting'
  <2>1. Counted' = Counted /\ AwaitingReaders' = AwaitingReaders
    BY DEF Typed, Counted, AwaitingReaders, Places
  <2>2. \A u \in Threads : pc'[u] = "compact" <=> pc[u] = "compact"
    BY DEF Typed
  <2> QED
    BY <2>1, <2>2 DEF Counting
<1>5. Unused'
  BY DEF Typed, Unused, Holders, Places
<1> QED
  BY <1>1, <1>2, <1>3, <1>4, <1>5

(* With equal counts and no writer nobody holds the lock.                  *)
LEMMA DestroyCheckedExact ==
    ASSUME Exact, NEW t \in Threads, DestroyChecked(t)
    PROVE  Exact'
<1> USE DEF Exact, DestroyChecked, Busy
<1>1. Typed'
  BY DEF Typed, Points, Places, WriterCounted
<1>2. Holders' /\ Places'
  BY DEF Typed, Holders, Places
<1>3. WriterCounted' /\ WriterAlone'
  BY DEF Typed, Holders, Places, WriterCounted, WriterAlone
<1>4. Counting'
  <2>1. Counted' = Counted /\ AwaitingReaders' = AwaitingReaders
    BY DEF Typed, Counted, AwaitingReaders, Places
  <2>2. \A u \in Threads : pc'[u] = "compact" <=> pc[u] = "compact"
    BY DEF Typed
  <2> QED
    BY <2>1, <2>2 DEF Counting
<1>5. Unused'
  <2> SUFFICES ASSUME ~Busy PROVE Unused'
    BY DEF Typed, Unused
  <2>1. ~AwaitingReaders
    BY DEF Typed, Holders, AwaitingReaders
  <2>2. Cardinality(Counted) = 0
    BY <2>1, CountBounds DEF Typed, Counting, Counted
  <2>3. \A u \in Threads : hold[u] = "nothing"
    BY <2>2, NobodyHolds
  <2> QED
    BY <2>3 DEF Typed, Points, Unused, Holders, Places
<1> QED
  BY <1>1, <1>2, <1>3, <1>4, <1>5

LEMMA NextIInv == IInv /\ [Next]_vars => IInv'
<1> SUFFICES ASSUME IInv, [Next]_vars PROVE IInv'
  OBVIOUS
<1>1. CASE UNCHANGED vars
  BY <1>1 DEF vars, IInv, Exact, Typed, Holders, Places, WriterCounted, WriterAlone,
              Counting, Unused, Counted, AwaitingReaders
<1>2. ASSUME NEW t \in Threads, CompactTimeout(t) PROVE IInv'
  BY <1>2 DEF CompactTimeout, IInv
<1>3. ASSUME NEW t \in Threads, Abandon(t) PROVE IInv'
  BY <1>3 DEF Abandon, IInv, Exact, Typed
<1>4. ASSUME NEW t \in Threads,
             Call(t) \/ Step(t) \/ Spurious(t) \/ GiveUp(t), ~Abandon(t)
      PROVE  IInv'
  <2>1. abandoned' = abandoned
    BY <1>4 DEF Call, Step, Read, Compact, Write, SharedBusy, LockShared, Spurious,
       GiveUp, Relock, CancelWrWait, Unlock, Complete, Completed, UnlockWriter,
       UnlockExclusive, Destroy, DestroyChecked
  <2>2. ASSUME Exact PROVE Exact'
    BY <1>4, <2>2, ReadExact, CompactExact, WriteExact, SharedBusyExact,
       LockSharedExact, SpuriousExact, GiveUpExact, RelockExact, CancelWrWaitExact,
       UnlockExact, CompleteExact, CompletedExact, UnlockWriterExact,
       UnlockExclusiveExact, DestroyExact, DestroyCheckedExact DEF Call, Step
  <2> QED
    BY <2>1, <2>2 DEF IInv
<1> QED
  BY <1>1, <1>2, <1>3, <1>4 DEF Next, Step

(* The invariant that the theorems below rest on.                          *)
THEOREM Invariance == Spec => []IInv
<1>1. Init => IInv
  BY InitExact DEF Init, IInv
<1> QED
  BY <1>1, NextIInv, PTL DEF Spec

(* A writer is alone, and pthread_rwlock_unlock takes the branch of what   *)
(* the thread has locked.                                                  *)
THEOREM WriterExcludes == Spec => []Exclusion
<1>1. IInv => Exclusion
  BY DEF IInv, Exact, Exclusion, WriterAlone, Places, WriterCounted, Holders
<1> QED
  BY Invariance, <1>1, PTL

(* nSharedAccessCount and nCompletedSharedAccessCount count the readers,   *)
(* over all writers that waited and gave up, and across INT_MAX.           *)
THEOREM CountsExact == Spec => []ReadersCounted
<1>1. IInv => ReadersCounted
  BY DEF IInv, Exact, Counting, ReadersCounted
<1> QED
  BY Invariance, <1>1, PTL

(* pthread_rwlock_destroy destroys only a lock that nobody has or waits    *)
(* for.                                                                    *)
THEOREM DestroysFree == Spec => []DestroySafe
<1>1. IInv => DestroySafe
  BY DEF IInv, Exact, Unused, DestroySafe
<1> QED
  BY Invariance, <1>1, PTL
=============================================================================
