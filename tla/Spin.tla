-------------------------------- MODULE Spin --------------------------------
(***************************************************************************)
(* Spin locks, with their static initialisation: pthread_spin_init, _lock, *)
(* _trylock, _unlock and _destroy on one pthread_spinlock_t, which holds   *)
(* PTHREAD_SPINLOCK_INITIALIZER, NULL or the address of an object.  Mutex, *)
(* condition variable and read-write lock are initialised by their first   *)
(* users, and destroyed before, in the same way.                           *)
(*                                                                         *)
(* The calls read *lock several times.  What is done under                 *)
(* ptw32_spinlock_test_init_lock reads and writes it once, in one step.    *)
(* With one cpu a spin lock is a mutex, here its owner (see Mutex).        *)
(*                                                                         *)
(* The application destroys a lock when all other threads have finished    *)
(* with it, or when it is, as far as the application knows, still the      *)
(* initialiser; it initialises a lock that is NULL while nobody uses it;   *)
(* and only the owner unlocks.                                             *)
(***************************************************************************)
EXTENDS FiniteSets, Control

CONSTANTS Objects,      \* addresses that calloc can give
          INITIALIZER

ASSUME SpinDistinctAssumption == /\ INITIALIZER \notin Objects \cup {NULL}
                                 /\ NULL \notin Objects

VARIABLES lock,         \* *lock
          interlock,    \* of the objects
          mutex,        \* the owners of the objects' mutexes
          s,            \* the threads' copies of *lock
          try,          \* whether a thread's call is pthread_spin_trylock
          fault         \* history: see Faults

svars == <<lock, interlock, mutex, pc, s, try, fault>>

objects == <<interlock, mutex>>

SInit == /\ lock \in {INITIALIZER, NULL}
         /\ interlock = [o \in Objects |-> "freed"]
         /\ mutex = [o \in Objects |-> NULL]
         /\ pc = [t \in Threads |-> "idle"]
         /\ s = [t \in Threads |-> NULL]
         /\ try = [t \in Threads |-> FALSE]
         /\ fault = "none"

Others(t) == \E u \in Threads \ {t} : pc[u] # "idle"

(***************************************************************************)
(* pthread_spin_init, which on failure leaves *lock alone (ENOMEM) or sets *)
(* it to NULL (no mutex).                                                  *)
(***************************************************************************)
SpinInit ==
    \E o \in Objects, kind \in {"unlocked", "mutex"} :
        /\ interlock[o] = "freed"
        /\ interlock' = [interlock EXCEPT ![o] = kind]
        /\ lock' = o

SpinInitFails == UNCHANGED interlock /\ lock' \in {lock, NULL}

InitExplicit(t) ==
    /\ pc[t] = "idle"
    /\ lock = NULL
    /\ ~Others(t)
    /\ SpinInit
    /\ UNCHANGED <<mutex, pc, s, try, fault>>

(***************************************************************************)
(* ptw32_spinlock_check_need_init                                          *)
(***************************************************************************)
(* Wrong variant: *lock is not read again.                                 *)
NeedInitUnchecked(t) ==
    /\ pc[t] = "needInit"
    /\ \/ SpinInit /\ Goto(t, "initialized")
       \/ SpinInitFails /\ Goto(t, "idle")
    /\ UNCHANGED <<mutex, s, try, fault>>

NeedInit(t) ==
    /\ pc[t] = "needInit"
    /\ \/ /\ lock = INITIALIZER
          /\ \/ SpinInit /\ Goto(t, "initialized")
             \/ SpinInitFails /\ Goto(t, "idle")
       \/ /\ lock # INITIALIZER
          /\ Goto(t, IF lock = NULL THEN "idle" ELSE "initialized")
          /\ UNCHANGED <<lock, interlock>>
    /\ UNCHANGED <<mutex, s, try, fault>>

(***************************************************************************)
(* pthread_spin_lock and pthread_spin_trylock                              *)
(***************************************************************************)
(* The test for NULL.                                                      *)
CallLock(t, trying) ==
    /\ pc[t] = "idle"
    /\ lock # NULL
    /\ ~\E u \in Threads : pc[u] = "destroyObject"
    /\ Goto(t, "test")
    /\ try' = [try EXCEPT ![t] = trying]
    /\ UNCHANGED <<lock, objects, s, fault>>

TestInitializer(t) ==
    /\ Move(t, "test", IF lock = INITIALIZER THEN "needInit" ELSE "read")
    /\ UNCHANGED <<lock, objects, s, try, fault>>

Read(t) ==
    /\ \/ Move(t, "read", "exchange")
       \/ Move(t, "initialized", "exchange")
    /\ s' = [s EXCEPT ![t] = lock]
    /\ fault' = IF lock = NULL THEN "null" ELSE fault
    /\ UNCHANGED <<lock, objects, try>>

(* The loop of pthread_spin_lock stutters while the lock is locked.        *)
ExchangeInterlock(t) ==
    /\ pc[t] = "exchange"
    /\ \/ /\ interlock[s[t]] = "unlocked"
          /\ interlock' = [interlock EXCEPT ![s[t]] = "locked"]
          /\ Goto(t, "owner")
       \/ /\ interlock[s[t]] = "locked" /\ try[t]
          /\ Goto(t, "idle")
          /\ UNCHANGED interlock
       \/ /\ interlock[s[t]] = "mutex"
          /\ Goto(t, "mutex")
          /\ UNCHANGED interlock
    /\ UNCHANGED <<lock, mutex, s, try, fault>>

MutexLock(t) ==
    /\ pc[t] = "mutex"
    /\ \/ /\ mutex[s[t]] = NULL
          /\ mutex' = [mutex EXCEPT ![s[t]] = t]
          /\ Goto(t, "owner")
       \/ /\ mutex[s[t]] # NULL /\ try[t]
          /\ Goto(t, "idle")
          /\ UNCHANGED mutex
    /\ UNCHANGED <<lock, interlock, s, try, fault>>

(* pthread_spin_unlock                                                     *)
SpinUnlock(t) ==
    /\ Move(t, "owner", "idle")
    /\ IF interlock[lock] = "mutex"
       THEN mutex' = [mutex EXCEPT ![lock] = NULL] /\ UNCHANGED interlock
       ELSE interlock' = [interlock EXCEPT ![lock] = "unlocked"] /\ UNCHANGED mutex
    /\ UNCHANGED <<lock, s, try, fault>>

(***************************************************************************)
(* pthread_spin_destroy: a test for NULL, and then a read of *lock, which  *)
(* may have changed only when it was the initialiser.                      *)
(***************************************************************************)
Destroy(t) ==
    /\ pc[t] = "idle"
    /\ \/ lock = INITIALIZER /\ Goto(t, "destroy") /\ UNCHANGED s
       \/ /\ lock \in Objects /\ ~Others(t)
          /\ Goto(t, "destroyObject")
          /\ s' = [s EXCEPT ![t] = lock]
    /\ UNCHANGED <<lock, objects, try, fault>>

DestroyRead(t) ==
    /\ Move(t, "destroy", IF lock = INITIALIZER THEN "destroyStatic" ELSE "destroyObject")
    /\ s' = [s EXCEPT ![t] = lock]
    /\ fault' = IF lock = NULL THEN "null"
                ELSE IF lock # INITIALIZER /\ Others(t) THEN "late"
                ELSE fault
    /\ UNCHANGED <<lock, objects, try>>

DestroyObject(t) ==
    /\ Move(t, "destroyObject", "idle")
    /\ interlock' = [interlock EXCEPT ![s[t]] = "freed"]
    /\ lock' = NULL
    /\ UNCHANGED <<mutex, s, try, fault>>

(* Wrong variant: a lock that has been initialised since is not in use.    *)
DestroyStaticMutant(t) ==
    /\ Move(t, "destroyStatic", "idle")
    /\ lock' = NULL
    /\ UNCHANGED <<objects, s, try, fault>>

DestroyStatic(t) ==
    /\ Move(t, "destroyStatic", "idle")
    /\ lock' = IF lock = INITIALIZER THEN NULL ELSE lock
    /\ UNCHANGED <<objects, s, try, fault>>

(***************************************************************************)
(* Faults: what happens afterwards is not modelled.                        *)
(* "null": a lock was destroyed between two reads of *lock, the first of   *)
(*   which had seen the initialiser, and s is NULL.                        *)
(* "late": pthread_spin_destroy, called for the initialiser, has found an  *)
(*   object that its first user is at work with.                           *)
(***************************************************************************)
SStep(t) == \/ TestInitializer(t) \/ NeedInit(t) \/ Read(t) \/ ExchangeInterlock(t)
            \/ MutexLock(t) \/ SpinUnlock(t)
            \/ DestroyRead(t) \/ DestroyObject(t) \/ DestroyStatic(t)

SNext == /\ fault = "none"
         /\ \E t \in Threads : \/ InitExplicit(t) \/ Destroy(t) \/ SStep(t)
                               \/ \E trying \in BOOLEAN : CallLock(t, trying)

SSpec == SInit /\ [][SNext]_svars

(***************************************************************************)
(* Properties                                                              *)
(***************************************************************************)
SPoints == {"idle", "test", "needInit", "initialized", "read", "exchange", "mutex", "owner",
           "destroy", "destroyStatic", "destroyObject"}

(* Types of the lock word, the objects, and where each thread is. *)
STypeOK ==
    /\ lock \in Objects \cup {INITIALIZER, NULL}
    /\ interlock \in [Objects -> {"freed", "unlocked", "locked", "mutex"}]
    /\ mutex \in [Objects -> Threads \cup {NULL}]
    /\ pc \in [Threads -> SPoints]
    /\ s \in [Threads -> Objects \cup {INITIALIZER, NULL}]
    /\ try \in [Threads -> BOOLEAN]
    /\ fault \in {"none", "null", "late"}

(* Several first users make one object, and all of them lock that one: two *)
(* threads do not own the spin lock, and the one that does has locked the  *)
(* object that *lock points to.                                            *)
Exclusion ==
    \A t \in Threads : pc[t] = "owner" =>
        /\ s[t] = lock
        /\ \A u \in Threads : pc[u] = "owner" => u = t
        /\ \/ interlock[lock] = "locked"
           \/ interlock[lock] = "mutex" /\ mutex[lock] = t

(* "If we get to here, another thread waiting to initialise this mutex     *)
(* will get an EINVAL": a thread whose call of the initialisation has      *)
(* succeeded finds an object in *lock, and uses it while it is there.      *)
InitHolds ==
    fault = "none" =>
        \A t \in Threads :
            /\ pc[t] \in {"read", "initialized"} => lock # INITIALIZER
            /\ pc[t] = "initialized" => lock \in Objects /\ interlock[lock] # "freed"
            /\ pc[t] \in {"exchange", "mutex", "owner"} => /\ s[t] = lock
                                                           /\ interlock[lock] # "freed"
=============================================================================
