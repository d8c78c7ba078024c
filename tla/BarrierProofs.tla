--------------------------- MODULE BarrierProofs ---------------------------
(***************************************************************************)
(* Proofs about Barrier, for any finite set of threads and any height: the *)
(* one counter and the one semaphore are right in every phase of a group,  *)
(* so that the barrier does what BarrierSpec promises, and a barrier in    *)
(* which there is a group is not destroyed.                                *)
(***************************************************************************)
EXTENDS Barrier, FiniteSetTheorems, TLAPS

Count(points) == Cardinality(At(points))

(* Who has the lock, and who does without.                                 *)
Owners ==
    \A t \in Threads :
        /\ pc[t] \in {"arrive", "unlock", "transfer", "destroy", "free"} => lock = t
        /\ pc[t] \in {"breach", "leave", "last"} => lock = Proxy

OneLeader ==
    \A t, u \in Threads :
        pc[t] \in {"breach", "last"} /\ pc[u] \in {"breach", "last"} => t = u

(* Before the posts, the semaphore counts the threads that sleep.          *)
NotBreached == semBarrierBreeched = [value |-> -Count({"asleep"}), sem |-> 0]

(* The phases of a group: it gathers, its last thread transfers the lock   *)
(* and posts for the others, they leave, and one is the last.              *)
Gathering ==
    ~Draining =>
        /\ nCurrentBarrierHeight >= 1
        /\ nCurrentBarrierHeight + Count({"unlock", "wait", "asleep"}) = Height
        /\ NotBreached

Complete ==
    At({"transfer", "breach"}) # {} =>
        /\ nCurrentBarrierHeight = 0
        /\ Count({"transfer", "breach", "wait", "asleep"}) = Height
        /\ At({"leave", "last"}) = {}
        /\ NotBreached

Leaving ==
    lock = Proxy /\ At({"breach", "last"}) = {} =>
        /\ nCurrentBarrierHeight < Height
        /\ nCurrentBarrierHeight + Count({"wait", "asleep", "leave"}) = Height
        /\ semBarrierBreeched = [value |-> Count({"wait"}), sem |-> Count({"asleep"})]

Over ==
    At({"last"}) # {} =>
        /\ nCurrentBarrierHeight = Height
        /\ At({"wait", "asleep", "leave"}) = {}
        /\ semBarrierBreeched = SemInit(0)

IInv == /\ TypeOK
        /\ Owners
        /\ OneLeader
        /\ Gathering
        /\ Complete
        /\ Leaving
        /\ Over
        /\ NoGroupDestroyed

USE ThreadsAssumption, OwnerAssumption, HeightAssumption DEF Goto, Return

(* Sets of threads have a count, which is 0 for the empty set only.        *)
LEMMA Counts ==
    ASSUME NEW S
    PROVE  /\ IsFiniteSet(At(S)) /\ Count(S) \in Nat
           /\ Count(S) = 0 <=> At(S) = {}
<1>1. At(S) \subseteq Threads
  BY DEF At
<1>2. IsFiniteSet(At(S))
  BY <1>1, FS_Subset
<1> QED
  BY <1>2, FS_CardinalityType, FS_EmptySet DEF Count

(* What the move of one thread does to the number of threads at points S.  *)
LEMMA Moved ==
    ASSUME NEW t \in Threads, NEW S,
           \A u \in Threads \ {t} : pc'[u] = pc[u]
    PROVE  /\ Count(S) \in Nat
           /\ pc'[t] \in S /\ pc[t] \notin S => Count(S)' = Count(S) + 1
           /\ pc'[t] \notin S /\ pc[t] \in S => Count(S)' = Count(S) - 1
           /\ (pc'[t] \in S <=> pc[t] \in S) => Count(S)' = Count(S)
<1>1. Count(S) \in Nat /\ IsFiniteSet(At(S))
  BY Counts
<1>2. CASE (pc'[t] \in S) <=> (pc[t] \in S)
  <2>1. At(S)' = At(S)
    BY <1>2 DEF At
  <2> QED
    BY <1>1, <1>2, <2>1 DEF Count
<1>3. CASE pc'[t] \in S /\ pc[t] \notin S
  <2>1. At(S)' = At(S) \cup {t} /\ t \notin At(S)
    BY <1>3 DEF At
  <2>2. Cardinality(At(S) \cup {t}) = Cardinality(At(S)) + 1
    BY <1>1, <2>1, FS_AddElement
  <2> QED
    BY <1>1, <1>3, <2>1, <2>2 DEF Count
<1>4. CASE pc'[t] \notin S /\ pc[t] \in S
  <2>1. At(S)' = At(S) \ {t} /\ t \in At(S)
    BY <1>4 DEF At
  <2>2. Cardinality(At(S) \ {t}) = Cardinality(At(S)) - 1
    BY <1>1, <2>1, FS_RemoveElement
  <2> QED
    BY <1>1, <1>4, <2>1, <2>2 DEF Count
<1> QED
  BY <1>2, <1>3, <1>4

(* The counts of disjoint sets add up.                                     *)
LEMMA DisjointCount ==
    ASSUME NEW S, NEW T, IsFiniteSet(S), IsFiniteSet(T), S \cap T = {}
    PROVE  /\ IsFiniteSet(S \cup T)
           /\ Cardinality(S \cup T) = Cardinality(S) + Cardinality(T)
<1>1. /\ IsFiniteSet(S \cup T)
      /\ Cardinality(S \cup T)
            = Cardinality(S) + Cardinality(T) - Cardinality(S \cap T)
  BY FS_Union
<1>2. Cardinality(S) \in Nat /\ Cardinality(T) \in Nat /\ Cardinality(S \cap T) = 0
  BY FS_CardinalityType, FS_EmptySet
<1> QED
  BY <1>1, <1>2

(* The threads that have not left yet, one by one.                         *)
LEMMA WaitersSplit ==
    Count({"wait", "asleep", "leave"})
        = Count({"wait"}) + Count({"asleep"}) + Count({"leave"})
<1>1. At({"wait", "asleep", "leave"})
          = (At({"wait"}) \cup At({"asleep"})) \cup At({"leave"})
  BY DEF At
<1>2. /\ At({"wait"}) \cap At({"asleep"}) = {}
      /\ (At({"wait"}) \cup At({"asleep"})) \cap At({"leave"}) = {}
  BY DEF At
<1>3. /\ IsFiniteSet(At({"wait"})) /\ IsFiniteSet(At({"asleep"}))
      /\ IsFiniteSet(At({"leave"}))
  BY Counts
<1>4. /\ IsFiniteSet(At({"wait"}) \cup At({"asleep"}))
      /\ Cardinality(At({"wait"}) \cup At({"asleep"}))
            = Cardinality(At({"wait"})) + Cardinality(At({"asleep"}))
  BY <1>2, <1>3, DisjointCount
<1>5. Cardinality((At({"wait"}) \cup At({"asleep"})) \cup At({"leave"}))
          = Cardinality(At({"wait"}) \cup At({"asleep"})) + Cardinality(At({"leave"}))
  BY <1>2, <1>3, <1>4, DisjointCount
<1> QED
  BY <1>1, <1>4, <1>5 DEF Count

LEMMA InitIInv == Init => IInv
<1> SUFFICES ASSUME Init PROVE IInv
  OBVIOUS
<1>1. TypeOK
  <2>1. semBarrierBreeched \in [value : Int, sem : Nat]
    BY DEF Init, SemInit
  <2>2. nCurrentBarrierHeight \in 0..Height /\ lock \in Threads \cup {Proxy, NULL}
    BY DEF Init
  <2>3. pc \in [Threads -> Points] /\ result \in [Threads -> {"0", "SERIAL", "undefined"}]
    BY DEF Init, Points, Outside
  <2> QED
    BY <2>1, <2>2, <2>3 DEF Init, TypeOK
<1>2. \A S \in {{"asleep"}, {"unlock", "wait", "asleep"}} : At(S) = {}
  BY DEF Init, At
<1>3. Count({"asleep"}) = 0 /\ Count({"unlock", "wait", "asleep"}) = 0
  BY <1>2, Counts
<1>4. Gathering
  BY <1>3 DEF Init, Gathering, NotBreached, SemInit
<1>5. Owners /\ OneLeader /\ Complete /\ Leaving /\ Over /\ NoGroupDestroyed
  BY DEF Init, Owners, OneLeader, Complete, Leaving, Over, NoGroupDestroyed, At
<1> QED
  BY <1>1, <1>4, <1>5 DEF IInv

(* The lock is free, so no group is leaving.                               *)
LEMMA AcquireIInv == ASSUME IInv, NEW t \in Threads, Acquire(t) PROVE IInv'
<1> USE DEF IInv, Acquire
<1>1. /\ \A S : Count(S) \in Nat
      /\ Count({"wait"})' = Count({"wait"})
      /\ Count({"asleep"})' = Count({"asleep"})
      /\ Count({"unlock", "wait", "asleep"})' = Count({"unlock", "wait", "asleep"})
      /\ Count({"transfer", "breach", "wait", "asleep"})' = Count({"transfer",
         "breach", "wait", "asleep"})
      /\ Count({"wait", "asleep", "leave"})' = Count({"wait", "asleep", "leave"})
  <2>1. /\ pc[t] = "acquire" /\ pc'[t] = "arrive"
        /\ \A u \in Threads \ {t} : pc'[u] = pc[u]
    BY DEF TypeOK
  <2> QED
    BY <2>1, Moved, Counts
<1>2. TypeOK'
  BY DEF TypeOK, Points, Outside
<1>3. Owners' /\ OneLeader' /\ NoGroupDestroyed'
  BY DEF TypeOK, Points, Outside, Owners, OneLeader, NoGroupDestroyed, At
<1>4. Gathering'
  BY <1>1 DEF TypeOK, Gathering, Draining, NotBreached, Owners, At
<1>5. Complete'
  BY <1>1 DEF TypeOK, Gathering, Complete, Draining, NotBreached, Owners, At
<1>6. Leaving'
  BY <1>1 DEF TypeOK, Leaving, Complete, Owners, At
<1>7. Over'
  BY <1>1 DEF TypeOK, Leaving, Over, Owners, At
<1> QED
  BY <1>2, <1>3, <1>4, <1>5, <1>6, <1>7

(* The group is complete before and after; only the lock's owner changes.  *)
LEMMA TransferIInv == ASSUME IInv, NEW t \in Threads, Transfer(t) PROVE IInv'
<1> USE DEF IInv, Transfer
<1>1. /\ \A S : Count(S) \in Nat
      /\ Count({"wait"})' = Count({"wait"})
      /\ Count({"asleep"})' = Count({"asleep"})
      /\ Count({"unlock", "wait", "asleep"})' = Count({"unlock", "wait", "asleep"})
      /\ Count({"transfer", "breach", "wait", "asleep"})' = Count({"transfer",
         "breach", "wait", "asleep"})
      /\ Count({"wait", "asleep", "leave"})' = Count({"wait", "asleep", "leave"})
  <2>1. /\ pc[t] = "transfer" /\ pc'[t] = "breach"
        /\ \A u \in Threads \ {t} : pc'[u] = pc[u]
    BY DEF TypeOK
  <2> QED
    BY <2>1, Moved, Counts
<1>2. TypeOK'
  BY DEF TypeOK, Points, Outside
<1>3. Owners' /\ OneLeader' /\ NoGroupDestroyed'
  BY DEF TypeOK, Points, Outside, Owners, OneLeader, NoGroupDestroyed, At
<1>4. Gathering'
  BY <1>1 DEF TypeOK, Gathering, Draining, NotBreached, Owners, At
<1>5. Complete'
  BY <1>1 DEF TypeOK, Gathering, Complete, Draining, NotBreached, Owners, At
<1>6. Leaving'
  BY <1>1 DEF TypeOK, Leaving, Complete, Owners, At
<1>7. Over'
  BY <1>1 DEF TypeOK, Leaving, Over, Owners, At
<1> QED
  BY <1>2, <1>3, <1>4, <1>5, <1>6, <1>7

(* There is a post for each thread of the group but the one that posts:    *)
(* those that sleep and those that have still to look.                     *)
LEMMA BreachIInv == ASSUME IInv, NEW t \in Threads, Breach(t) PROVE IInv'
<1> USE DEF IInv, Breach, PostedMultiple, PostMultipleRelease
<1>1. /\ \A S : Count(S) \in Nat
      /\ Count({"wait"})' = Count({"wait"})
      /\ Count({"asleep"})' = Count({"asleep"})
      /\ Count({"unlock", "wait", "asleep"})' = Count({"unlock", "wait", "asleep"})
      /\ Count({"transfer", "breach", "wait", "asleep"})' = Count({"transfer",
         "breach", "wait", "asleep"}) - 1
      /\ Count({"wait", "asleep", "leave"})' = Count({"wait", "asleep", "leave"}) + 1
  <2>1. /\ pc[t] = "breach" /\ pc'[t] = "leave"
        /\ \A u \in Threads \ {t} : pc'[u] = pc[u]
    BY DEF TypeOK
  <2> QED
    BY <2>1, Moved, Counts
<1>2. TypeOK'
  BY DEF TypeOK, Points, Outside
<1>3. Owners' /\ OneLeader' /\ NoGroupDestroyed'
  BY DEF TypeOK, Points, Outside, Owners, OneLeader, NoGroupDestroyed, At
<1>4. Gathering'
  BY <1>1 DEF TypeOK, Gathering, Draining, NotBreached, Owners, At
<1>5. lock = Proxy /\ At({"transfer", "breach"}) = {t} /\ At({"leave"}) = {}
  BY DEF TypeOK, Owners, OneLeader, Complete, At
<1>6. Complete' /\ Over'
  BY <1>5 DEF TypeOK, Complete, Over, At
<1>7. Leaving'
  <2>1. /\ At({"transfer", "breach", "wait", "asleep"})
              = At({"wait", "asleep", "leave"}) \cup {t}
        /\ t \notin At({"wait", "asleep", "leave"})
    BY <1>5 DEF At
  <2>2. Count({"transfer", "breach", "wait", "asleep"})
            = Count({"wait", "asleep", "leave"}) + 1
    BY <2>1, Counts, FS_AddElement DEF Count
  <2>3. Count({"leave"}) = 0
    BY <1>5, Counts
  <2>4. Height - 1 = Count({"wait"}) + Count({"asleep"})
    BY <1>1, <2>2, <2>3, WaitersSplit DEF Complete, At
  <2>5. nCurrentBarrierHeight = 0 /\ NotBreached
    BY DEF Complete, At
  <2>6. semBarrierBreeched' = [value |-> Count({"wait"}), sem |-> Count({"asleep"})]
    BY <1>1, <2>4, <2>5 DEF NotBreached
  <2> QED
    BY <1>1, <2>2, <2>4, <2>5, <2>6, <2>3, WaitersSplit DEF Leaving
<1> QED
  BY <1>2, <1>3, <1>4, <1>6, <1>7

(* The group still gathers, without the owner of the lock.                 *)
LEMMA UnlockIInv == ASSUME IInv, NEW t \in Threads, Unlock(t) PROVE IInv'
<1> USE DEF IInv, Unlock
<1>1. /\ \A S : Count(S) \in Nat
      /\ Count({"wait"})' = Count({"wait"}) + 1
      /\ Count({"asleep"})' = Count({"asleep"})
      /\ Count({"unlock", "wait", "asleep"})' = Count({"unlock", "wait", "asleep"})
      /\ Count({"transfer", "breach", "wait", "asleep"})' = Count({"transfer",
         "breach", "wait", "asleep"}) + 1
      /\ Count({"wait", "asleep", "leave"})' = Count({"wait", "asleep", "leave"}) + 1
  <2>1. /\ pc[t] = "unlock" /\ pc'[t] = "wait"
        /\ \A u \in Threads \ {t} : pc'[u] = pc[u]
    BY DEF TypeOK
  <2> QED
    BY <2>1, Moved, Counts
<1>2. TypeOK'
  BY DEF TypeOK, Points, Outside
<1>3. Owners' /\ OneLeader' /\ NoGroupDestroyed'
  BY DEF TypeOK, Points, Outside, Owners, OneLeader, NoGroupDestroyed, At
<1>4. Gathering'
  BY <1>1 DEF TypeOK, Gathering, Draining, NotBreached, Owners, At
<1>5. Complete'
  BY <1>1 DEF TypeOK, Gathering, Complete, Draining, NotBreached, Owners, At
<1>6. Leaving'
  BY <1>1 DEF TypeOK, Leaving, Complete, Owners, At
<1>7. Over'
  BY <1>1 DEF TypeOK, Leaving, Over, Owners, At
<1> QED
  BY <1>2, <1>3, <1>4, <1>5, <1>6, <1>7

(* Only a group that has been posted for finds the semaphore above 0.      *)
LEMMA AwakeIInv == ASSUME IInv, NEW t \in Threads, Awake(t) PROVE IInv'
<1> USE DEF IInv, Awake, Taken
<1>1. /\ \A S : Count(S) \in Nat
      /\ Count({"wait"})' = Count({"wait"})
      /\ Count({"asleep"})' = Count({"asleep"}) - 1
      /\ Count({"unlock", "wait", "asleep"})' = Count({"unlock", "wait", "asleep"}) - 1
      /\ Count({"transfer", "breach", "wait", "asleep"})' = Count({"transfer",
         "breach", "wait", "asleep"}) - 1
      /\ Count({"wait", "asleep", "leave"})' = Count({"wait", "asleep", "leave"})
  <2>1. /\ pc[t] = "asleep" /\ pc'[t] = "leave"
        /\ \A u \in Threads \ {t} : pc'[u] = pc[u]
    BY DEF TypeOK
  <2> QED
    BY <2>1, Moved, Counts
<1>2. TypeOK'
  BY DEF TypeOK, Points, Outside
<1>3. Owners' /\ OneLeader' /\ NoGroupDestroyed'
  <2>1. ~NotBreached /\ semBarrierBreeched # SemInit(0)
    BY DEF NotBreached, SemInit
  <2>2. lock = Proxy
    BY <2>1 DEF TypeOK, Gathering, Complete, Draining, At
  <2> QED
    BY <2>2 DEF TypeOK, Points, Outside, Owners, OneLeader, NoGroupDestroyed, At
<1>4. Gathering'
  BY <1>1 DEF TypeOK, Gathering, Draining, NotBreached, Owners, At
<1>5. Complete'
  BY <1>1 DEF TypeOK, Gathering, Complete, Draining, NotBreached, Owners, At
<1>6. Leaving'
  BY <1>1 DEF TypeOK, Leaving, Complete, Owners, At
<1>7. Over'
  BY <1>1 DEF TypeOK, Leaving, Over, Owners, At
<1> QED
  BY <1>2, <1>3, <1>4, <1>5, <1>6, <1>7

(* Everybody else has left, so that the barrier is as at the start.        *)
LEMMA LastIInv == ASSUME IInv, NEW t \in Threads, Last(t) PROVE IInv'
<1> USE DEF IInv, Last
<1>1. /\ \A S : Count(S) \in Nat
      /\ Count({"wait"})' = Count({"wait"})
      /\ Count({"asleep"})' = Count({"asleep"})
      /\ Count({"unlock", "wait", "asleep"})' = Count({"unlock", "wait", "asleep"})
      /\ Count({"transfer", "breach", "wait", "asleep"})' = Count({"transfer",
         "breach", "wait", "asleep"})
      /\ Count({"wait", "asleep", "leave"})' = Count({"wait", "asleep", "leave"})
  <2>1. /\ pc[t] = "last" /\ pc'[t] = "idle"
        /\ \A u \in Threads \ {t} : pc'[u] = pc[u]
    BY DEF TypeOK
  <2> QED
    BY <2>1, Moved, Counts
<1>2. TypeOK'
  BY DEF TypeOK, Points, Outside
<1>3. Owners' /\ OneLeader' /\ NoGroupDestroyed'
  BY DEF TypeOK, Points, Outside, Owners, OneLeader, NoGroupDestroyed, Over, At
<1>4. Gathering'
  <2>1. At({"unlock", "wait", "asleep"}) = {} /\ At({"asleep"}) = {}
    BY DEF TypeOK, Owners, Over, At
  <2>2. Count({"unlock", "wait", "asleep"}) = 0 /\ Count({"asleep"}) = 0
    BY <2>1, Counts
  <2> QED
    BY <1>1, <2>2 DEF TypeOK, Gathering, NotBreached, Over, SemInit, At
<1>5. Complete'
  BY <1>1 DEF TypeOK, Gathering, Complete, Draining, NotBreached, Owners, At
<1>6. Leaving'
  BY <1>1 DEF TypeOK, Leaving, Complete, Owners, At
<1>7. Over'
  BY <1>1 DEF TypeOK, Leaving, Over, Owners, At
<1> QED
  BY <1>2, <1>3, <1>4, <1>5, <1>6, <1>7

(* The counts that IInv speaks of do not see a thread that calls, leaves   *)
(* or destroys.                                                            *)
LEMMA UncountedMove ==
    ASSUME NEW t \in Threads, \A u \in Threads \ {t} : pc'[u] = pc[u],
           pc[t] \in Outside \cup {"destroy"}, pc'[t] \in Outside \cup {"destroy"}
    PROVE  /\ \A S : Count(S) \in Nat
           /\ Count({"wait"})' = Count({"wait"})
           /\ Count({"asleep"})' = Count({"asleep"})
           /\ Count({"unlock", "wait", "asleep"})' = Count({"unlock", "wait", "asleep"})
           /\ Count({"transfer", "breach", "wait", "asleep"})' = Count({"transfer",
              "breach", "wait", "asleep"})
           /\ Count({"wait", "asleep", "leave"})' = Count({"wait", "asleep", "leave"})
<1>1. pc[t] \notin {"wait", "asleep", "unlock", "transfer", "breach", "leave"}
      /\ pc'[t] \notin {"wait", "asleep", "unlock", "transfer", "breach", "leave"}
  BY DEF Outside
<1> QED
  BY <1>1, Moved, Counts

(* Threads outside come, go and compare as they like.                      *)
LEMMA OutsideIInv ==
    ASSUME IInv, NEW t \in Threads, Call(t) \/ CallDestroy(t) \/ Compare(t)
    PROVE  IInv'
<1> USE DEF IInv, Call, CallDestroy, Compare
<1>1. /\ \A S : Count(S) \in Nat
      /\ Count({"wait"})' = Count({"wait"})
      /\ Count({"asleep"})' = Count({"asleep"})
      /\ Count({"unlock", "wait", "asleep"})' = Count({"unlock", "wait", "asleep"})
      /\ Count({"transfer", "breach", "wait", "asleep"})' = Count({"transfer",
         "breach", "wait", "asleep"})
      /\ Count({"wait", "asleep", "leave"})' = Count({"wait", "asleep", "leave"})
  <2>1. /\ pc[t] \in Outside /\ pc'[t] \in Outside
        /\ \A u \in Threads \ {t} : pc'[u] = pc[u]
    BY DEF TypeOK, Outside
  <2> QED
    BY <2>1, UncountedMove
<1>2. TypeOK'
  BY DEF TypeOK, Points, Outside
<1>3. Owners' /\ OneLeader' /\ NoGroupDestroyed'
  BY DEF TypeOK, Points, Outside, Owners, OneLeader, NoGroupDestroyed, At
<1>4. Gathering'
  BY <1>1 DEF TypeOK, Gathering, Draining, NotBreached, Owners, At
<1>5. Complete'
  BY <1>1 DEF TypeOK, Complete, NotBreached, At
<1>6. Leaving'
  BY <1>1 DEF TypeOK, Leaving, At
<1>7. Over'
  BY <1>1 DEF TypeOK, Over, At
<1> QED
  BY <1>2, <1>3, <1>4, <1>5, <1>6, <1>7

(* The lock is free, so no group is leaving, or nothing happens.           *)
LEMMA TryAcquireIInv == ASSUME IInv, NEW t \in Threads, TryAcquire(t) PROVE IInv'
<1> USE DEF IInv, TryAcquire
<1>1. /\ \A S : Count(S) \in Nat
      /\ Count({"wait"})' = Count({"wait"})
      /\ Count({"asleep"})' = Count({"asleep"})
      /\ Count({"unlock", "wait", "asleep"})' = Count({"unlock", "wait", "asleep"})
      /\ Count({"transfer", "breach", "wait", "asleep"})' = Count({"transfer",
         "breach", "wait", "asleep"})
      /\ Count({"wait", "asleep", "leave"})' = Count({"wait", "asleep", "leave"})
  <2>1. /\ pc[t] = "try" /\ pc'[t] \in {"idle", "destroy"}
        /\ \A u \in Threads \ {t} : pc'[u] = pc[u]
    BY DEF TypeOK
  <2> QED
    BY <2>1, UncountedMove DEF Outside
<1>2. TypeOK'
  BY DEF TypeOK, Points, Outside
<1>3. Owners' /\ OneLeader' /\ NoGroupDestroyed'
  BY DEF TypeOK, Points, Outside, Owners, OneLeader, NoGroupDestroyed, At
<1>4. Gathering'
  BY <1>1 DEF TypeOK, Gathering, Draining, NotBreached, Owners, At
<1>5. Complete'
  BY <1>1 DEF TypeOK, Gathering, Complete, Draining, NotBreached, Owners, At
<1>6. Leaving'
  BY <1>1 DEF TypeOK, Leaving, Complete, Owners, At
<1>7. Over'
  BY <1>1 DEF TypeOK, Leaving, Over, Owners, At
<1> QED
  BY <1>2, <1>3, <1>4, <1>5, <1>6, <1>7

(* With the counter at its height nobody is in the group that gathers, and *)
(* whoever owns the lock is alone.                                         *)
LEMMA DestroyerAlone ==
    ASSUME IInv, NEW t \in Threads, pc[t] = "destroy"
    PROVE  /\ ~Draining
           /\ nCurrentBarrierHeight >= Height =>
                 At({"unlock", "wait", "asleep"}) = {} /\ Count({"asleep"}) = 0
<1> USE DEF IInv
<1>1. ~Draining
  BY DEF TypeOK, Draining, Owners, At
<1>2. nCurrentBarrierHeight >= Height => At({"unlock", "wait", "asleep"}) = {}
  BY <1>1, Counts DEF TypeOK, Gathering
<1>3. At({"unlock", "wait", "asleep"}) = {} => At({"asleep"}) = {}
  BY DEF At
<1> QED
  BY <1>1, <1>2, <1>3, Counts

LEMMA DestroyCheckedIInv == ASSUME IInv, NEW t \in Threads, DestroyChecked(t) PROVE IInv'
<1> USE DEF IInv, DestroyChecked, Destroyable
<1>1. /\ \A S : Count(S) \in Nat
      /\ Count({"wait"})' = Count({"wait"})
      /\ Count({"asleep"})' = Count({"asleep"})
      /\ Count({"unlock", "wait", "asleep"})' = Count({"unlock", "wait", "asleep"})
      /\ Count({"transfer", "breach", "wait", "asleep"})' = Count({"transfer",
         "breach", "wait", "asleep"})
      /\ Count({"wait", "asleep", "leave"})' = Count({"wait", "asleep", "leave"})
  <2>1. /\ pc[t] = "destroy" /\ pc'[t] = "free"
        /\ \A u \in Threads \ {t} : pc'[u] = pc[u]
    BY DEF TypeOK
  <2> QED
    BY <2>1, UncountedMove DEF Outside
<1>2. TypeOK'
  BY DEF TypeOK, Points, Outside
<1>3. Owners' /\ OneLeader' /\ NoGroupDestroyed'
  <2>1. At({"unlock", "wait", "asleep"}) = {} /\ lock = t
    BY DestroyerAlone DEF Owners
  <2>2. Owners' /\ OneLeader'
    BY DEF TypeOK, Points, Outside, Owners, OneLeader
  <2>3. NoGroupDestroyed'
    BY <2>1 DEF TypeOK, Points, Outside, Owners, NoGroupDestroyed, At
  <2> QED
    BY <2>2, <2>3
<1>4. Gathering'
  BY <1>1 DEF TypeOK, Gathering, Draining, NotBreached, Owners, At
<1>5. Complete'
  BY <1>1 DEF TypeOK, Gathering, Complete, Draining, NotBreached, Owners, At
<1>6. Leaving'
  BY <1>1 DEF TypeOK, Leaving, Complete, Owners, At
<1>7. Over'
  BY <1>1 DEF TypeOK, Leaving, Over, Owners, At
<1> QED
  BY <1>2, <1>3, <1>4, <1>5, <1>6, <1>7

(* A new semaphore is made only if nobody has looked at the old one.       *)
LEMMA DestroyRefusedIInv == ASSUME IInv, NEW t \in Threads, DestroyRefused(t) PROVE IInv'
<1> USE DEF IInv, DestroyRefused, Destroyable, SemInit
<1>1. /\ \A S : Count(S) \in Nat
      /\ Count({"wait"})' = Count({"wait"})
      /\ Count({"asleep"})' = Count({"asleep"})
      /\ Count({"unlock", "wait", "asleep"})' = Count({"unlock", "wait", "asleep"})
      /\ Count({"transfer", "breach", "wait", "asleep"})' = Count({"transfer",
         "breach", "wait", "asleep"})
      /\ Count({"wait", "asleep", "leave"})' = Count({"wait", "asleep", "leave"})
  <2>1. /\ pc[t] = "destroy" /\ pc'[t] = "idle"
        /\ \A u \in Threads \ {t} : pc'[u] = pc[u]
    BY DEF TypeOK
  <2> QED
    BY <2>1, UncountedMove DEF Outside
<1>2. TypeOK'
  BY DEF TypeOK, Points, Outside
<1>3. /\ ~Draining
      /\ nCurrentBarrierHeight >= Height =>
            At({"unlock", "wait", "asleep"}) = {} /\ Count({"asleep"}) = 0
  BY DestroyerAlone
<1>4. Owners' /\ OneLeader' /\ NoGroupDestroyed'
  BY DEF TypeOK, Points, Outside, Owners, OneLeader, NoGroupDestroyed, At
<1>5. Gathering'
  BY <1>1, <1>3 DEF TypeOK, Gathering, Draining, NotBreached, Owners, At
<1>6. Complete'
  BY <1>1 DEF TypeOK, Gathering, Complete, Draining, NotBreached, Owners, At
<1>7. Leaving'
  BY <1>1 DEF TypeOK, Leaving, Complete, Owners, At
<1>8. Over'
  BY <1>1 DEF TypeOK, Leaving, Over, Owners, At
<1> QED
  BY <1>2, <1>4, <1>5, <1>6, <1>7, <1>8

(* Nobody else has the lock that is freed.                                 *)
LEMMA FreeIInv == ASSUME IInv, NEW t \in Threads, Free(t) PROVE IInv'
<1> USE DEF IInv, Free
<1>1. /\ \A S : Count(S) \in Nat
      /\ Count({"wait"})' = Count({"wait"})
      /\ Count({"asleep"})' = Count({"asleep"})
      /\ Count({"unlock", "wait", "asleep"})' = Count({"unlock", "wait", "asleep"})
      /\ Count({"transfer", "breach", "wait", "asleep"})' = Count({"transfer",
         "breach", "wait", "asleep"})
      /\ Count({"wait", "asleep", "leave"})' = Count({"wait", "asleep", "leave"})
  <2>1. /\ pc[t] = "free" /\ pc'[t] = "idle"
        /\ \A u \in Threads \ {t} : pc'[u] = pc[u]
    BY DEF TypeOK
  <2> QED
    BY <2>1, UncountedMove DEF Outside
<1>2. TypeOK'
  BY DEF TypeOK, Points, Outside
<1>3. Owners' /\ OneLeader' /\ NoGroupDestroyed'
  BY DEF TypeOK, Points, Outside, Owners, OneLeader, NoGroupDestroyed, At
<1>4. Gathering'
  BY <1>1 DEF TypeOK, Gathering, Draining, NotBreached, Owners, At
<1>5. Complete'
  BY <1>1 DEF TypeOK, Gathering, Complete, Draining, NotBreached, Owners, At
<1>6. Leaving'
  BY <1>1 DEF TypeOK, Leaving, Complete, Owners, At
<1>7. Over'
  BY <1>1 DEF TypeOK, Leaving, Over, Owners, At
<1> QED
  BY <1>2, <1>3, <1>4, <1>5, <1>6, <1>7

(* The thread that brings the counter to 0 completes the group.            *)
LEMMA ArriveIInv == ASSUME IInv, NEW t \in Threads, Arrive(t) PROVE IInv'
<1> USE DEF IInv, Arrive
<1>1. TypeOK'
  <2>1. nCurrentBarrierHeight >= 1
    BY DEF TypeOK, Gathering, Draining, Owners, At
  <2> QED
    BY <2>1 DEF TypeOK, Points, Outside
<1>2. Owners' /\ OneLeader' /\ NoGroupDestroyed'
  BY DEF TypeOK, Points, Outside, Owners, OneLeader, NoGroupDestroyed, At
<1>3. ~Draining /\ lock # Proxy /\ At({"unlock", "breach", "leave", "last"}) = {}
  BY DEF TypeOK, Draining, Owners, At
<1>4. CASE nCurrentBarrierHeight = 1
  <2>1. /\ \A S : Count(S) \in Nat
        /\ Count({"wait"})' = Count({"wait"})
        /\ Count({"asleep"})' = Count({"asleep"})
        /\ Count({"unlock", "wait", "asleep"})' = Count({"unlock", "wait", "asleep"})
        /\ Count({"transfer", "breach", "wait", "asleep"})' = Count({"transfer",
           "breach", "wait", "asleep"}) + 1
        /\ Count({"wait", "asleep", "leave"})' = Count({"wait", "asleep", "leave"})
    <3>1. /\ pc[t] = "arrive" /\ pc'[t] = "transfer"
          /\ \A u \in Threads \ {t} : pc'[u] = pc[u]
      BY <1>4 DEF TypeOK
    <3> QED
      BY <3>1, Moved, Counts
  <2>2. At({"transfer", "breach", "wait", "asleep"}) = At({"unlock", "wait", "asleep"})
    BY <1>3 DEF Draining, At
  <2>3. Count({"transfer", "breach", "wait", "asleep"})' = Height
    BY <1>3, <1>4, <2>1, <2>2 DEF Gathering, Count
  <2>4. NotBreached'
    BY <1>3, <2>1 DEF Gathering, NotBreached
  <2>5. Complete'
    BY <1>3, <1>4, <2>3, <2>4 DEF TypeOK, Complete, At
  <2>6. Gathering' /\ Leaving' /\ Over'
    BY <1>3, <1>4 DEF TypeOK, Gathering, Draining, Leaving, Over, At
  <2> QED
    BY <1>1, <1>2, <2>6, <2>5
<1>5. CASE nCurrentBarrierHeight # 1
  <2>1. /\ \A S : Count(S) \in Nat
        /\ Count({"wait"})' = Count({"wait"})
        /\ Count({"asleep"})' = Count({"asleep"})
        /\ Count({"unlock", "wait", "asleep"})' = Count({"unlock", "wait",
           "asleep"}) + 1
        /\ Count({"transfer", "breach", "wait", "asleep"})' = Count({"transfer",
           "breach", "wait", "asleep"})
        /\ Count({"wait", "asleep", "leave"})' = Count({"wait", "asleep", "leave"})
    <3>1. /\ pc[t] = "arrive" /\ pc'[t] = "unlock"
          /\ \A u \in Threads \ {t} : pc'[u] = pc[u]
      BY <1>5 DEF TypeOK
    <3> QED
      BY <3>1, Moved, Counts
  <2>2. Gathering'
    BY <1>3, <1>5, <2>1 DEF TypeOK, Gathering, Draining, NotBreached, At
  <2>3. Complete' /\ Leaving' /\ Over'
    BY <1>3, <1>5 DEF TypeOK, Draining, Complete, Leaving, Over, At
  <2> QED
    BY <1>1, <1>2, <2>2, <2>3
<1> QED
  BY <1>4, <1>5

(* Before the posts the semaphore makes everybody wait; after them it      *)
(* counts the threads that have not looked yet, and lets each go.          *)
LEMMA SemWaitIInv == ASSUME IInv, NEW t \in Threads, SemWait(t) PROVE IInv'
<1> USE DEF IInv, SemWait, Claimed, MustWait
<1>1. TypeOK'
  BY DEF TypeOK, Points, Outside
<1>2. NoGroupDestroyed'
  BY DEF TypeOK, Points, Outside, NoGroupDestroyed, At
<1>3. NotBreached \/ (lock = Proxy /\ At({"breach", "last"}) = {})
  BY DEF TypeOK, Gathering, Complete, Over, Draining, Owners, At
<1>4. CASE NotBreached
  <2>1. semBarrierBreeched.value - 1 < 0
    BY <1>4, Counts DEF NotBreached
  <2>2. /\ \A S : Count(S) \in Nat
        /\ Count({"wait"})' = Count({"wait"}) - 1
        /\ Count({"asleep"})' = Count({"asleep"}) + 1
        /\ Count({"unlock", "wait", "asleep"})' = Count({"unlock", "wait", "asleep"})
        /\ Count({"transfer", "breach", "wait", "asleep"})' = Count({"transfer",
           "breach", "wait", "asleep"})
        /\ Count({"wait", "asleep", "leave"})' = Count({"wait", "asleep", "leave"})
    <3>1. /\ pc[t] = "wait" /\ pc'[t] = "asleep"
          /\ \A u \in Threads \ {t} : pc'[u] = pc[u]
      BY <2>1 DEF TypeOK
    <3> QED
      BY <3>1, Moved, Counts
  <2>3. NotBreached'
    BY <1>4, <2>1, <2>2 DEF TypeOK, NotBreached
  <2>4. Owners' /\ OneLeader'
    BY <2>1 DEF TypeOK, Points, Outside, Owners, OneLeader
  <2>5. At({"last"}) = {} /\ (lock = Proxy => At({"breach"}) # {})
    <3>1. At({"last"}) = {}
      BY DEF Over, At
    <3>2. Count({"wait"}) # 0
      BY Counts DEF At
    <3>3. ~(semBarrierBreeched.value = Count({"wait"}))
      BY <1>4, <3>2, Counts DEF NotBreached
    <3>4. At({"breach"}) = {} => At({"breach", "last"}) = {}
      BY <3>1 DEF At
    <3> QED
      BY <3>1, <3>3, <3>4 DEF Leaving
  <2>6. Gathering'
    BY <2>1, <2>2, <2>3 DEF TypeOK, Gathering, Draining, At
  <2>7. Complete'
    BY <2>1, <2>2, <2>3 DEF TypeOK, Complete, At
  <2>8. Leaving' /\ Over'
    BY <2>1, <2>5 DEF TypeOK, Leaving, Over, At
  <2> QED
    BY <1>1, <1>2, <2>4, <2>6, <2>7, <2>8
<1>5. CASE lock = Proxy /\ At({"breach", "last"}) = {}
  <2>1. ~(semBarrierBreeched.value - 1 < 0)
    <3>1. Count({"wait"}) # 0
      BY Counts DEF At
    <3> QED
      BY <1>5, <3>1, Counts DEF Leaving
  <2>2. /\ \A S : Count(S) \in Nat
        /\ Count({"wait"})' = Count({"wait"}) - 1
        /\ Count({"asleep"})' = Count({"asleep"})
        /\ Count({"unlock", "wait", "asleep"})' = Count({"unlock", "wait",
           "asleep"}) - 1
        /\ Count({"transfer", "breach", "wait", "asleep"})' = Count({"transfer",
           "breach", "wait", "asleep"}) - 1
        /\ Count({"wait", "asleep", "leave"})' = Count({"wait", "asleep", "leave"})
    <3>1. /\ pc[t] = "wait" /\ pc'[t] = "leave"
          /\ \A u \in Threads \ {t} : pc'[u] = pc[u]
      BY <2>1 DEF TypeOK
    <3> QED
      BY <3>1, Moved, Counts
  <2>3. Owners' /\ OneLeader'
    BY <1>5, <2>1 DEF TypeOK, Points, Outside, Owners, OneLeader, At
  <2>4. Leaving'
    BY <1>5, <2>1, <2>2 DEF TypeOK, Leaving, At
  <2>5. Gathering' /\ Complete' /\ Over'
    BY <1>5, <2>1 DEF TypeOK, Gathering, Draining, Complete, Over, Owners, At
  <2> QED
    BY <1>1, <1>2, <2>3, <2>4, <2>5
<1> QED
  BY <1>3, <1>4, <1>5

(* A thread that leaves is in a group whose semaphore has been posted.     *)
LEMMA LeaverInGroup ==
    ASSUME IInv, NEW t \in Threads, pc[t] = "leave"
    PROVE  /\ lock = Proxy
           /\ At({"transfer", "breach", "last"}) = {}
           /\ nCurrentBarrierHeight < Height
           /\ nCurrentBarrierHeight + Count({"wait", "asleep", "leave"}) = Height
           /\ semBarrierBreeched = [value |-> Count({"wait"}),
              sem |-> Count({"asleep"})]
<1>1. lock = Proxy
  BY DEF IInv, Owners
<1>2. At({"transfer", "breach", "last"}) = {}
  BY <1>1 DEF IInv, Owners, Complete, Over, At
<1>3. At({"breach", "last"}) = {}
  BY <1>2 DEF At
<1> QED
  BY <1>1, <1>2, <1>3 DEF IInv, Leaving

(* The one that brings the counter back to its height has seen all others  *)
(* leave.                                                                  *)
LEMMA LeaveIInv == ASSUME IInv, NEW t \in Threads, Leave(t) PROVE IInv'
<1>1. /\ lock = Proxy
      /\ At({"transfer", "breach", "last"}) = {}
      /\ nCurrentBarrierHeight < Height
      /\ nCurrentBarrierHeight + Count({"wait", "asleep", "leave"}) = Height
      /\ semBarrierBreeched = [value |-> Count({"wait"}), sem |-> Count({"asleep"})]
  BY LeaverInGroup DEF Leave
<1> USE DEF IInv, Leave
<1>2. TypeOK'
  BY <1>1 DEF TypeOK, Points, Outside
<1>3. Owners' /\ OneLeader' /\ NoGroupDestroyed'
  BY <1>1 DEF TypeOK, Points, Outside, Owners, OneLeader, NoGroupDestroyed, At
<1>4. CASE nCurrentBarrierHeight + 1 = Height
  <2>1. Count({"wait", "asleep", "leave"}) = 1
    BY <1>1, <1>4, Counts DEF TypeOK
  <2>2. At({"wait", "asleep", "leave"}) \ {t} = {}
    <3>1. t \in At({"wait", "asleep", "leave"})
      BY DEF At
    <3>2. IsFiniteSet(At({"wait", "asleep", "leave"}) \ {t})
          /\ Cardinality(At({"wait", "asleep", "leave"}) \ {t}) = 0
      BY <2>1, <3>1, Counts, FS_RemoveElement DEF Count
    <3> QED
      BY <3>2, FS_EmptySet
  <2>3. At({"wait", "asleep", "leave"})' = {}
    BY <1>4, <2>2 DEF TypeOK, At
  <2>4. At({"wait"}) = {} /\ At({"asleep"}) = {}
    BY <2>3, <1>4 DEF TypeOK, At
  <2>5. semBarrierBreeched = SemInit(0)
    BY <1>1, <2>4, Counts DEF SemInit
  <2>6. Over'
    BY <1>4, <2>3, <2>5 DEF TypeOK, Over
  <2>7. Gathering' /\ Complete' /\ Leaving'
    BY <1>1, <1>4 DEF TypeOK, Gathering, Draining, Complete, Leaving, At
  <2> QED
    BY <1>2, <1>3, <2>6, <2>7
<1>5. CASE nCurrentBarrierHeight + 1 # Height
  <2>1. /\ \A S : Count(S) \in Nat
        /\ Count({"wait"})' = Count({"wait"})
        /\ Count({"asleep"})' = Count({"asleep"})
        /\ Count({"unlock", "wait", "asleep"})' = Count({"unlock", "wait", "asleep"})
        /\ Count({"transfer", "breach", "wait", "asleep"})' = Count({"transfer",
           "breach", "wait", "asleep"})
        /\ Count({"wait", "asleep", "leave"})' = Count({"wait", "asleep", "leave"}) - 1
    <3>1. /\ pc[t] = "leave" /\ pc'[t] = "compare"
          /\ \A u \in Threads \ {t} : pc'[u] = pc[u]
      BY <1>5 DEF TypeOK
    <3> QED
      BY <3>1, Moved, Counts
  <2>2. Leaving'
    BY <1>1, <1>5, <2>1 DEF TypeOK, Leaving, At
  <2>3. Gathering' /\ Complete' /\ Over'
    BY <1>1, <1>5 DEF TypeOK, Gathering, Draining, Complete, Over, At
  <2> QED
    BY <1>2, <1>3, <2>2, <2>3
<1> QED
  BY <1>4, <1>5

LEMMA NextIInv == IInv /\ [Next]_vars => IInv'
<1> SUFFICES ASSUME IInv, [Next]_vars PROVE IInv'
  OBVIOUS
<1>1. CASE UNCHANGED vars
  BY <1>1 DEF vars, IInv, TypeOK, Owners, OneLeader, Gathering, Complete, Leaving, Over,
              NoGroupDestroyed, NotBreached, Draining, Count, At
<1>2. CASE Next
  BY <1>2, OutsideIInv, AcquireIInv, ArriveIInv, TransferIInv, BreachIInv, UnlockIInv,
     SemWaitIInv, AwakeIInv, LeaveIInv, LastIInv, TryAcquireIInv, DestroyCheckedIInv,
     DestroyRefusedIInv, FreeIInv DEF Next, Step
<1> QED
  BY <1>1, <1>2

(* The invariant that the theorems below rest on.                          *)
THEOREM Invariance == Spec => []IInv
BY InitIInv, NextIInv, PTL DEF Spec

(* pthread_barrier_destroy destroys no barrier in which there is a group:  *)
(* what can still touch it are callers at b->lock, and threads that have   *)
(* counted themselves out and compare.                                     *)
THEOREM SparesGroups == Spec => []NoGroupDestroyed
<1>1. IInv => NoGroupDestroyed
  BY DEF IInv
<1> QED
  BY Invariance, <1>1, PTL

(***************************************************************************)
(* The steps of the barrier as steps of BarrierSpec                        *)
(***************************************************************************)
(* BarrierSpec counts as Barrier does.                                     *)
LEMMA SameCardinality == \A S : Abstract!Cardinality(S) = Cardinality(S)
BY DEF Abstract!Cardinality, Cardinality

LEMMA InitMaps == Init => Abstract!Init
BY DEF Init, Abstract!Init, arrivedBar, releasedBar, resultBar, Draining, At

(* A thread's result is seen from outside when it has counted itself out.  *)
LEMMA ResultStays ==
    ASSUME result' = result, \A u \in Threads : pc'[u] = "compare" <=> pc[u] = "compare"
    PROVE  resultBar' = resultBar
BY DEF resultBar

(* A thread joins the group that gathers when it has counted itself.       *)
LEMMA ArriveMaps ==
    ASSUME IInv, NEW t \in Threads, Arrive(t)
    PROVE  Abstract!Arrive(t)
<1> USE DEF IInv, Arrive
<1>1. ~Draining /\ lock # Proxy /\ At({"transfer", "breach", "leave", "last"}) = {}
  BY DEF TypeOK, Draining, Owners, At
<1>2. arrivedBar = At({"unlock", "wait", "asleep"}) /\ releasedBar = {}
  BY <1>1 DEF arrivedBar, releasedBar
<1>3. t \notin arrivedBar
  BY <1>2 DEF At
<1>4. Cardinality(arrivedBar \cup {t}) = Height - nCurrentBarrierHeight + 1
  <2>1. Cardinality(arrivedBar \cup {t}) = Cardinality(arrivedBar) + 1
    BY <1>2, <1>3, Counts, FS_AddElement
  <2>2. nCurrentBarrierHeight + Cardinality(arrivedBar) = Height
    BY <1>1, <1>2 DEF Gathering, Count
  <2>3. Cardinality(arrivedBar) \in Nat
    BY <1>2, Counts DEF Count
  <2> QED
    BY <2>1, <2>2, <2>3 DEF TypeOK
<1>5. resultBar' = resultBar
  BY ResultStays DEF TypeOK
<1>6. CASE nCurrentBarrierHeight = 1
  <2>1. Draining'
    BY <1>6 DEF TypeOK, Draining, At
  <2>2. arrivedBar' = {} /\ releasedBar' = arrivedBar \cup {t}
    <3>1. At({"unlock"}) = {}
      BY DEF TypeOK, Owners, At
    <3>2. At({"transfer", "breach", "wait", "asleep", "leave", "last"})'
              = At({"unlock", "wait", "asleep"}) \cup {t}
      BY <1>1, <1>6, <3>1 DEF TypeOK, At
    <3> QED
      BY <1>2, <2>1, <3>2 DEF arrivedBar, releasedBar
  <2> QED
    BY <1>2, <1>3, <1>4, <1>6, <1>5, <2>2, SameCardinality DEF Abstract!Arrive
<1>7. CASE nCurrentBarrierHeight # 1
  <2>1. ~Draining'
    BY <1>1, <1>7 DEF TypeOK, Draining, At
  <2>2. At({"unlock", "wait", "asleep"})' = At({"unlock", "wait", "asleep"}) \cup {t}
    BY <1>7 DEF TypeOK, At
  <2>3. arrivedBar' = arrivedBar \cup {t} /\ releasedBar' = {}
    BY <1>2, <2>1, <2>2 DEF arrivedBar, releasedBar
  <2>4. Cardinality(arrivedBar \cup {t}) # Height
    BY <1>4, <1>7 DEF TypeOK
  <2> QED
    BY <1>2, <1>3, <1>5, <2>3, <2>4, SameCardinality DEF Abstract!Arrive
<1> QED
  BY <1>6, <1>7

(* All but the last are out when they have counted themselves out.         *)
LEMMA LeaveMaps ==
    ASSUME IInv, NEW t \in Threads, Leave(t)
    PROVE  Abstract!Leave(t) \/ UNCHANGED <<arrivedBar, releasedBar, resultBar>>
<1>1. /\ lock = Proxy
      /\ At({"transfer", "breach", "last"}) = {}
      /\ nCurrentBarrierHeight < Height
      /\ nCurrentBarrierHeight + Count({"wait", "asleep", "leave"}) = Height
  BY LeaverInGroup DEF Leave
<1> USE DEF IInv, Leave
<1>2. /\ arrivedBar = {} /\ arrivedBar' = {}
      /\ releasedBar = At({"transfer", "breach", "wait", "asleep", "leave", "last"})
      /\ releasedBar' = At({"transfer", "breach", "wait", "asleep", "leave", "last"})'
  BY <1>1 DEF arrivedBar, releasedBar, Draining
<1>3. CASE nCurrentBarrierHeight + 1 = Height
  <2>1. At({"transfer", "breach", "wait", "asleep", "leave", "last"})'
            = At({"transfer", "breach", "wait", "asleep", "leave", "last"})
    BY <1>3 DEF TypeOK, At
  <2>2. resultBar' = resultBar
    BY <1>3, ResultStays DEF TypeOK
  <2> QED
    BY <1>2, <2>1, <2>2
<1>4. CASE nCurrentBarrierHeight + 1 # Height
  <2>1. At({"transfer", "breach", "wait", "asleep", "leave", "last"})'
            = At({"transfer", "breach", "wait", "asleep", "leave", "last"}) \ {t}
    BY <1>4 DEF TypeOK, At
  <2>2. releasedBar = At({"wait", "asleep", "leave"}) /\ t \in releasedBar
    BY <1>1, <1>2 DEF At
  <2>3. releasedBar # {t}
    <3>1. Cardinality({t}) = 1
      BY FS_Singleton
    <3> QED
      BY <1>1, <1>4, <2>2, <3>1, Counts DEF TypeOK, Count
  <2>4. resultBar' = [resultBar EXCEPT ![t] = "0"]
    BY <1>4 DEF TypeOK, resultBar
  <2> QED
    BY <1>2, <2>1, <2>2, <2>3, <2>4 DEF Abstract!Leave
<1> QED
  BY <1>3, <1>4

(* The last returns alone, and the next group can gather.                  *)
LEMMA LastMaps ==
    ASSUME IInv, NEW t \in Threads, Last(t)
    PROVE  Abstract!Leave(t)
<1> USE DEF IInv, Last
<1>1. lock = Proxy /\ At({"unlock", "transfer"}) = {}
  BY DEF TypeOK, Owners, At
<1>2. At({"wait", "asleep", "leave"}) = {}
  BY DEF Over, At
<1>3. At({"transfer", "breach", "wait", "asleep", "leave", "last"}) = {t}
  BY <1>1, <1>2 DEF OneLeader, At
<1>4. arrivedBar = {} /\ releasedBar = {t}
  BY <1>1, <1>3 DEF arrivedBar, releasedBar, Draining
<1>5. ~Draining' /\ At({"unlock", "wait", "asleep"})' = {}
  BY <1>1, <1>2 DEF TypeOK, Draining, At
<1>6. arrivedBar' = {} /\ releasedBar' = {}
  BY <1>5 DEF arrivedBar, releasedBar
<1>7. resultBar' = [resultBar EXCEPT ![t] = "SERIAL"]
  BY DEF TypeOK, resultBar
<1> QED
  BY <1>4, <1>6, <1>7 DEF Abstract!Leave

(* The other steps are not seen from outside.                              *)
LEMMA OthersStutter ==
    ASSUME IInv, IInv', NEW t \in Threads,
           \/ Call(t) \/ Acquire(t) \/ Transfer(t) \/ Breach(t) \/ Unlock(t)
           \/ SemWait(t) \/ Awake(t) \/ Compare(t) \/ CallDestroy(t) \/ TryAcquire(t)
           \/ DestroyChecked(t) \/ DestroyRefused(t) \/ Free(t)
    PROVE  UNCHANGED <<arrivedBar, releasedBar, resultBar>>
<1> USE DEF IInv
<1>1. Draining' = Draining
  BY DEF TypeOK, Owners, Draining, At, Call, Acquire, Transfer, Breach, Unlock, SemWait,
     Awake, Compare,
     CallDestroy, TryAcquire, DestroyChecked, DestroyRefused, Free
<1>2. Draining => At({"transfer", "breach", "wait", "asleep", "leave", "last"})'
                    = At({"transfer", "breach", "wait", "asleep", "leave", "last"})
  BY DEF TypeOK, Owners, Draining, At, Call, Acquire, Transfer, Breach, Unlock, SemWait,
     Awake, Compare,
     CallDestroy, TryAcquire, DestroyChecked, DestroyRefused, Free
<1>3. ~Draining => At({"unlock", "wait", "asleep"})' = At({"unlock", "wait", "asleep"})
  BY DEF TypeOK, Owners, Draining, At, Call, Acquire, Transfer, Breach, Unlock, SemWait,
     Awake, Compare,
     CallDestroy, TryAcquire, DestroyChecked, DestroyRefused, Free
<1>4. resultBar' = resultBar
  <2>1. CASE Compare(t)
    BY <2>1 DEF TypeOK, Compare, resultBar
  <2>2. CASE ~Compare(t)
    <3>1. result' = result /\ \A u \in Threads : pc'[u] = "compare" <=> pc[u] = "compare"
      BY <2>2 DEF TypeOK, Call, Acquire, Transfer, Breach, Unlock, SemWait, Awake,
         CallDestroy, TryAcquire, DestroyChecked, DestroyRefused, Free
    <3> QED
      BY <3>1, ResultStays
  <2> QED
    BY <2>1, <2>2
<1> QED
  BY <1>1, <1>2, <1>3, <1>4 DEF arrivedBar, releasedBar

LEMMA NextMaps ==
    IInv /\ IInv' /\ [Next]_vars =>
        [Abstract!Next]_<<arrivedBar, releasedBar, resultBar>>
<1> SUFFICES ASSUME IInv, IInv', [Next]_vars
             PROVE  [Abstract!Next]_<<arrivedBar, releasedBar, resultBar>>
  OBVIOUS
<1>1. CASE UNCHANGED vars
  BY <1>1 DEF vars, arrivedBar, releasedBar, resultBar, Draining, At
<1>2. CASE Next
  BY <1>2, ArriveMaps, LeaveMaps, LastMaps, OthersStutter DEF Next, Step, Abstract!Next
<1> QED
  BY <1>1, <1>2

(* The barrier does what BarrierSpec promises: nobody passes before the    *)
(* group is complete, groups do not mix, and exactly the last to leave is  *)
(* told PTHREAD_BARRIER_SERIAL_THREAD.                                     *)
THEOREM Implements == Spec => ImplementsBarrier
BY InitMaps, NextMaps, Invariance, PTL
   DEF Spec, ImplementsBarrier, Abstract!Spec, Abstract!vars
=============================================================================
