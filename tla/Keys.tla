-------------------------------- MODULE Keys --------------------------------
(***************************************************************************)
(* Thread-specific data: pthread_key_create, pthread_key_delete,           *)
(* pthread_setspecific, and the destructors that run when a thread ends    *)
(* (ptw32_callUserDestroyRoutines).                                        *)
(*                                                                         *)
(* A thread with a value for a key that has a destructor has an            *)
(* association with it, which is in two chains: the thread's, guarded by   *)
(* threadLock, and the key's, guarded by keyLock.  pthread_key_delete      *)
(* and an ending thread meet in both chains, and take the locks in         *)
(* opposite orders.                                                        *)
(*                                                                         *)
(* The application does not use a key that is being deleted or that has    *)
(* been; threads that end while a key is deleted are the library's care.   *)
(***************************************************************************)
EXTENDS Naturals, Sequences, Control

CONSTANTS Keys,
          Iterations    \* PTHREAD_DESTRUCTOR_ITERATIONS

ASSUME KeysNullAssumption == NULL \notin Keys
ASSUME IterationsAssumption == Iterations \in Nat

VARIABLES status,       \* of the keys: "none", "alive", "deleting" or "freed"
          destructor,   \* whether a key has one
          value,        \* value[t][k]: whether it is not NULL
          keys,         \* the associations of a thread, by their keys
          threads,      \* the associations of a key, by their threads
          nextAssoc,    \* of an ending thread
          keyLock, threadLock,
          key,          \* the key that a thread is working on
          iterations, remaining

kvars == <<status, destructor, value, keys, threads, nextAssoc, keyLock, threadLock,
          pc, key, iterations, remaining>>

chains == <<keys, threads>>
locks == <<keyLock, threadLock>>
counts == <<iterations, remaining>>

KInit == /\ status = [k \in Keys |-> "none"]
         /\ destructor = [k \in Keys |-> FALSE]
         /\ value = [t \in Threads |-> [k \in Keys |-> FALSE]]
         /\ keys = [t \in Threads |-> <<>>]
         /\ threads = [k \in Keys |-> <<>>]
         /\ nextAssoc = [t \in Threads |-> NULL]
         /\ keyLock = [k \in Keys |-> NULL]
         /\ threadLock = [t \in Threads |-> NULL]
         /\ pc = [t \in Threads |-> "run"]
         /\ key = [t \in Threads |-> NULL]
         /\ iterations = [t \in Threads |-> 0]
         /\ remaining = [t \in Threads |-> FALSE]

(* Where the application runs: in a thread's routine or in a destructor.   *)
User(t) == IF iterations[t] = 0 THEN "run" ELSE "destructor"

Usable(t, k) == pc[t] = User(t) /\ status[k] = "alive"

WorkOn(t, k) == key' = [key EXCEPT ![t] = k]

Done(t) == key' = [key EXCEPT ![t] = NULL]

In(s, e) == \E i \in DOMAIN s : s[i] = e

Position(s, e) == CHOOSE i \in DOMAIN s : s[i] = e

(* The node of e is unlinked from the list s.                              *)
Without(s, e) ==
    [i \in 1..(Len(s) - 1) |-> IF i < Position(s, e) THEN s[i] ELSE s[i + 1]]

HeadOrNull(s) == IF s = <<>> THEN NULL ELSE Head(s)

(* What follows e in s.                                                    *)
Follower(s, e) == IF Position(s, e) = Len(s) THEN NULL ELSE s[Position(s, e) + 1]

Take(lock, l, t) == lock[l] = NULL /\ lock' = [lock EXCEPT ![l] = t]

Release(lock, l) == lock' = [lock EXCEPT ![l] = NULL]

(***************************************************************************)
(* pthread_key_create                                                      *)
(***************************************************************************)
Create(t, k, d) ==
    /\ pc[t] = User(t)
    /\ status[k] = "none"
    /\ status' = [status EXCEPT ![k] = "alive"]
    /\ destructor' = [destructor EXCEPT ![k] = d]
    /\ UNCHANGED <<value, chains, nextAssoc, locks, pc, key, counts>>

(***************************************************************************)
(* ptw32_tkAssocCreate and ptw32_tkAssocDestroy                            *)
(***************************************************************************)
AssocCreate(t, k) ==
    /\ keys' = [keys EXCEPT ![t] = <<k>> \o @]
    /\ threads' = [threads EXCEPT ![k] = <<t>> \o @]

(* Wrong variant: an ending thread is not told.                            *)
AssocDestroyMutant(t, k) ==
    /\ keys' = [keys EXCEPT ![t] = Without(@, k)]
    /\ threads' = [threads EXCEPT ![k] = Without(@, t)]
    /\ UNCHANGED nextAssoc

AssocDestroy(t, k) ==
    /\ keys' = [keys EXCEPT ![t] = Without(@, k)]
    /\ threads' = [threads EXCEPT ![k] = Without(@, t)]
    /\ nextAssoc' = IF nextAssoc[t] = k
                    THEN [nextAssoc EXCEPT ![t] = Follower(keys[t], k)]
                    ELSE nextAssoc

(***************************************************************************)
(* pthread_setspecific.  No association is needed for a value of NULL.     *)
(***************************************************************************)
SetValue(t, k, v) == value' = [value EXCEPT ![t][k] = v]

SetPlain(t, k, v) ==
    /\ Usable(t, k)
    /\ ~(v /\ destructor[k])
    /\ SetValue(t, k, v)
    /\ UNCHANGED <<status, destructor, chains, nextAssoc, locks, pc, key, counts>>

Set(t, k) ==
    /\ Usable(t, k)
    /\ destructor[k]
    /\ WorkOn(t, k)
    /\ Goto(t, "setKey")
    /\ UNCHANGED <<status, destructor, value, chains, nextAssoc, locks, counts>>

SetLock(t) ==
    /\ Move(t, "setKey", "setThread")
    /\ Take(keyLock, key[t], t)
    /\ UNCHANGED <<status, destructor, value, chains, nextAssoc, threadLock, key, counts>>

SetAssoc(t) ==
    LET k == key[t]
    IN /\ Move(t, "setThread", User(t))
       /\ threadLock[t] = NULL
       /\ IF In(keys[t], k) THEN UNCHANGED chains ELSE AssocCreate(t, k)
       /\ Release(keyLock, k)
       /\ SetValue(t, k, TRUE)
       /\ Done(t)
       /\ UNCHANGED <<status, destructor, nextAssoc, threadLock, counts>>

(***************************************************************************)
(* pthread_key_delete                                                      *)
(***************************************************************************)
InUse(k) == \E t \in Threads : key[t] = k /\ pc[t] \in {"setKey", "setThread"}

(* key->threads is tested without a lock.                                  *)
Delete(t, k) ==
    /\ Usable(t, k)
    /\ ~InUse(k)
    /\ status' = [status EXCEPT ![k] = "deleting"]
    /\ WorkOn(t, k)
    /\ Goto(t, IF threads[k] # <<>> /\ destructor[k] THEN "delKey" ELSE "delFree")
    /\ UNCHANGED <<destructor, value, chains, nextAssoc, locks, counts>>

DelLock(t) ==
    /\ Move(t, "delKey", "delAssoc")
    /\ Take(keyLock, key[t], t)
    /\ UNCHANGED <<status, destructor, value, chains, nextAssoc, threadLock, key, counts>>

(* One round of the loop, which releases keyLock too.                      *)
DelAssoc(t) ==
    LET k == key[t]
    IN /\ Move(t, "delAssoc", "delLoop")
       /\ keyLock[k] = t
       /\ threads[k] # <<>>
       /\ threadLock[Head(threads[k])] = NULL
       /\ AssocDestroy(Head(threads[k]), k)
       /\ Release(keyLock, k)
       /\ UNCHANGED <<status, destructor, value, threadLock, key, counts>>

DelLoop(t) ==
    /\ Move(t, "delLoop", IF threads[key[t]] = <<>> THEN "delFree" ELSE "delAssoc")
    /\ UNCHANGED <<status, destructor, value, chains, nextAssoc, locks, key, counts>>

(* Wrong variant: nobody can be holding the keyLock.                       *)
DelFreeMutant(t) ==
    /\ Move(t, "delFree", User(t))
    /\ status' = [status EXCEPT ![key[t]] = "freed"]
    /\ Done(t)
    /\ UNCHANGED <<destructor, value, chains, nextAssoc, locks, counts>>

(* "A thread could be holding the keyLock".                                *)
DelFree(t) ==
    /\ Move(t, "delFree", User(t))
    /\ destructor[key[t]] => keyLock[key[t]] = NULL
    /\ status' = [status EXCEPT ![key[t]] = "freed"]
    /\ Done(t)
    /\ UNCHANGED <<destructor, value, chains, nextAssoc, locks, counts>>

(* The loop releases keyLock in its first round.  Another round does not   *)
(* hold it, and releases it again; and without any round it stays locked,  *)
(* and the thread waits for itself in DelFree.                             *)
Broken == \E t \in Threads : /\ pc[t] = "delAssoc"
                             /\ keyLock[key[t]] # t \/ threads[key[t]] = <<>>

(***************************************************************************)
(* ptw32_callUserDestroyRoutines                                           *)
(***************************************************************************)
(* The thread ends.                                                        *)
End(t) ==
    /\ Move(t, "run", "pass")
    /\ UNCHANGED <<status, destructor, value, chains, nextAssoc, locks, key, counts>>

Pass(t) ==
    /\ Move(t, "pass", "assoc")
    /\ threadLock[t] = NULL
    /\ iterations' = [iterations EXCEPT ![t] = @ + 1]
    /\ remaining' = [remaining EXCEPT ![t] = FALSE]
    /\ nextAssoc' = [nextAssoc EXCEPT ![t] = HeadOrNull(keys[t])]
    /\ UNCHANGED <<status, destructor, value, chains, locks, key>>

Finished(t) ==
    /\ Move(t, "assoc", IF remaining[t] THEN "pass" ELSE "ended")
    /\ threadLock[t] = NULL
    /\ nextAssoc[t] = NULL
    /\ UNCHANGED <<status, destructor, value, chains, nextAssoc, locks, key, counts>>

Assoc(t) ==
    /\ Move(t, "assoc", "try")
    /\ nextAssoc[t] # NULL
    /\ Take(threadLock, t, t)
    /\ WorkOn(t, nextAssoc[t])
    /\ UNCHANGED <<status, destructor, value, chains, nextAssoc, keyLock, counts>>

TryLock(t) ==
    /\ Move(t, "try", "locked")
    /\ Take(keyLock, key[t], t)
    /\ UNCHANGED <<status, destructor, value, chains, nextAssoc, threadLock, key, counts>>

(* Wrong variant: the thread keeps its lock and tries again.               *)
TryBusyMutant(t) ==
    /\ Move(t, "try", "try")
    /\ keyLock[key[t]] # NULL
    /\ UNCHANGED <<status, destructor, value, chains, nextAssoc, locks, key, counts>>

TryBusy(t) ==
    /\ Move(t, "try", "assoc")
    /\ keyLock[key[t]] # NULL
    /\ Release(threadLock, t)
    /\ Done(t)
    /\ UNCHANGED <<status, destructor, value, chains, nextAssoc, keyLock, counts>>

(* Wrong variant: a pass after which there may be new values is the last.  *)
CallDestructorMutant(t) ==
    /\ pc[t] = "locked"
    /\ value[t][key[t]]
    /\ iterations[t] <= Iterations
    /\ Goto(t, "unlockCall")
    /\ nextAssoc' = [nextAssoc EXCEPT ![t] = Follower(keys[t], key[t])]
    /\ SetValue(t, key[t], FALSE)
    /\ Release(threadLock, t)
    /\ UNCHANGED <<status, destructor, chains, keyLock, key, counts>>

(* The value is taken and the destructor will be called for it.            *)
CallDestructor(t) ==
    /\ pc[t] = "locked"
    /\ value[t][key[t]]
    /\ iterations[t] <= Iterations
    /\ Goto(t, "unlockCall")
    /\ nextAssoc' = [nextAssoc EXCEPT ![t] = Follower(keys[t], key[t])]
    /\ SetValue(t, key[t], FALSE)
    /\ remaining' = [remaining EXCEPT ![t] = TRUE]
    /\ Release(threadLock, t)
    /\ UNCHANGED <<status, destructor, chains, keyLock, key, iterations>>

(* There is no value, or there have been too many.                         *)
Drop(t) ==
    /\ pc[t] = "locked"
    /\ ~value[t][key[t]] \/ iterations[t] > Iterations
    /\ Goto(t, "unlock")
    /\ keys' = [keys EXCEPT ![t] = Without(@, key[t])]
    /\ threads' = [threads EXCEPT ![key[t]] = Without(@, t)]
    /\ nextAssoc' = [nextAssoc EXCEPT ![t] = Follower(keys[t], key[t])]
    /\ SetValue(t, key[t], FALSE)
    /\ Release(threadLock, t)
    /\ UNCHANGED <<status, destructor, keyLock, key, counts>>

ReleaseKey(t) ==
    /\ \/ Move(t, "unlockCall", "destructor")
       \/ Move(t, "unlock", "assoc")
    /\ Release(keyLock, key[t])
    /\ Done(t)
    /\ UNCHANGED <<status, destructor, value, chains, nextAssoc, threadLock, counts>>

DestructorReturns(t) ==
    /\ Move(t, "destructor", "assoc")
    /\ UNCHANGED <<status, destructor, value, chains, nextAssoc, locks, key, counts>>

-----------------------------------------------------------------------------
(* A thread that cannot go on is in a broken pthread_key_delete; what      *)
(* happens afterwards is not modelled.                                     *)
Acquire(t) == SetLock(t) \/ SetAssoc(t) \/ DelLock(t) \/ DelAssoc(t) \/ DelFree(t)

KStep(t) == \/ DelLoop(t)
            \/ Pass(t) \/ Finished(t) \/ Assoc(t) \/ TryLock(t) \/ TryBusy(t)
            \/ CallDestructor(t) \/ Drop(t) \/ ReleaseKey(t) \/ DestructorReturns(t)

Use(t) == \/ \E k \in Keys, b \in BOOLEAN : Create(t, k, b) \/ SetPlain(t, k, b)
          \/ \E k \in Keys : Set(t, k) \/ Delete(t, k)
          \/ End(t)

KNext == ~Broken /\ \E t \in Threads : Use(t) \/ Acquire(t) \/ KStep(t)

KSpec == KInit /\ [][KNext]_kvars

(* The locks are served in their order (MCSLock); destructors return.      *)
KFairSpec == /\ KSpec
             /\ \A t \in Threads : /\ SF_kvars(~Broken /\ Acquire(t))
                                   /\ WF_kvars(~Broken /\ KStep(t))

(***************************************************************************)
(* Properties                                                              *)
(***************************************************************************)
Ahead(t, k) == \E i, j \in DOMAIN keys[t] : /\ keys[t][i] = nextAssoc[t] /\ keys[t][j] = k
                                              /\ i <= j

(* The pointer that an ending thread keeps while it runs destructors and   *)
(* releases its locks leads to an association that still exists, and a     *)
(* value that the thread will not come to in this pass makes another pass. *)
NextAssocValid ==
    \A t \in Threads :
        pc[t] \in {"assoc", "try", "destructor"} =>
            /\ nextAssoc[t] # NULL => In(keys[t], nextAssoc[t])
            /\ pc[t] = "try" => key[t] = nextAssoc[t]
            /\ \A k \in Keys : In(keys[t], k) /\ value[t][k] => Ahead(t, k) \/ remaining[t]

(* A thread that has ended leaves no association behind for a later        *)
(* pthread_key_delete to find, and no value whose destructor has not run,  *)
(* also when destructors set values and delete keys.                       *)
EndsClean ==
    \A t \in Threads : pc[t] = "ended" =>
        /\ keys[t] = <<>>
        /\ \A k \in Keys : /\ ~In(threads[k], t)
                           /\ status[k] = "alive" /\ destructor[k] => ~value[t][k]

(* "assoc->key must be valid": nobody works on a key that has been freed.  *)
KeyValid ==
    \A t \in Threads :
        pc[t] \in {"try", "locked", "unlockCall", "unlock", "setKey", "setThread"} =>
            status[key[t]] # "freed"

(* "so we must be careful to avoid deadlock": every call returns and every *)
(* thread that ends comes to its end, whatever its destructors do, unless  *)
(* a deletion breaks or threads use pthread_setspecific for ever.          *)
EndsReturn ==
    \/ []<>Broken
    \/ []<>(\E t \in Threads : pc[t] = "setKey")
    \/ \A t \in Threads : pc[t] # "run" ~> pc[t] \in {"run", "ended"}

(* "Both key->keyLock and thread->threadLock are locked before entry to    *)
(* this routine" (ptw32_tkAssocDestroy.c:59).                              *)
LockedOnEntry ==
    \A t \in Threads : pc[t] = "delAssoc" => keyLock[key[t]] = t
=============================================================================
