----------------------------- MODULE Semaphore -----------------------------
(***************************************************************************)
(* sem_t: sem_wait, sem_timedwait, the non-cancelable ptw32_semwait,       *)
(* sem_trywait, sem_post, sem_post_multiple and sem_destroy on one         *)
(* semaphore (builds without NEED_SEM).                                    *)
(*                                                                         *)
(* s->value is the POSIX value, or minus the number of waiters.  A waiter  *)
(* sleeps on a Win32 semaphore, s->sem, outside of s->lock, and a post     *)
(* releases that semaphore only when it finds waiters.  What is done under *)
(* s->lock is one step (Mutex shows that it excludes).                     *)
(***************************************************************************)
EXTENDS SemOps, FiniteSets

CONSTANTS Threads,
          SEM_VALUE_MAX,
          MaxCount        \* bound on the count of sem_post_multiple

ASSUME ThreadsAssumption == IsFiniteSet(Threads)
ASSUME MaxAssumption == SEM_VALUE_MAX \in Nat \ {0}
ASSUME CountAssumption == MaxCount \in Nat \ {0}

VARIABLES s,          \* s->value and s->sem
          valid,      \* *sem # NULL, s is not freed
          pc,
          call,       \* the waiting function that the thread is in
          tokens,     \* history: initial value + posts - successful waits
          skipped     \* history: cleanups of sem_wait that did nothing

vars == <<s, valid, pc, call, tokens, skipped>>

Calls == {"sem_wait", "sem_timedwait", "ptw32_semwait"}

Points == {"idle", "blocked", "cleanup"}

Init == /\ \E v \in 0..SEM_VALUE_MAX : s = SemInit(v) /\ tokens = v
        /\ valid = TRUE
        /\ pc = [t \in Threads |-> "idle"]
        /\ call = [t \in Threads |-> "sem_wait"]
        /\ skipped = 0

Goto(t, p) == pc' = [pc EXCEPT ![t] = p]

Wait(t, c) ==
    /\ pc[t] = "idle"
    /\ valid
    /\ s' = Claimed(s)
    /\ call' = [call EXCEPT ![t] = c]
    /\ IF MustWait(s)
       THEN Goto(t, "blocked") /\ UNCHANGED tokens
       ELSE tokens' = tokens - 1 /\ UNCHANGED pc
    /\ UNCHANGED <<valid, skipped>>

(* The wait on s->sem is satisfied.                                        *)
Acquire(t) ==
    /\ pc[t] = "blocked"
    /\ valid
    /\ s.sem > 0
    /\ s' = Taken(s)
    /\ tokens' = tokens - 1
    /\ Goto(t, "idle")
    /\ UNCHANGED <<valid, call, skipped>>

(* ptw32_cancelable_wait: the time is up, or there is a request to cancel. *)
(* If s->sem can be had as well, then that wins.                           *)
GiveUp(t) ==
    /\ pc[t] = "blocked"
    /\ valid
    /\ s.sem = 0
    /\ Goto(t, "cleanup")
    /\ UNCHANGED <<s, valid, call, tokens, skipped>>

Timeout(t) == call[t] = "sem_timedwait" /\ GiveUp(t)

Cancel(t) == call[t] \in {"sem_wait", "sem_timedwait"} /\ GiveUp(t)

(* The cleanup handlers.  A post that they consume counts as a wait.       *)
TimedCleanup(t) ==
    /\ pc[t] = "cleanup"
    /\ valid
    /\ call[t] = "sem_timedwait"
    /\ s' = Settled(s)
    /\ tokens' = tokens - (s.sem - s'.sem)
    /\ Goto(t, "idle")
    /\ UNCHANGED <<valid, call, skipped>>

WaitCleanup(t) ==
    /\ pc[t] = "cleanup"
    /\ valid
    /\ call[t] = "sem_wait"
    /\ s' = SettledByWait(s)
    /\ tokens' = tokens - (s.sem - s'.sem)
    /\ skipped' = IF s' = s THEN skipped + 1 ELSE skipped
    /\ Goto(t, "idle")
    /\ UNCHANGED <<valid, call>>

Trywait(t) ==
    /\ pc[t] = "idle"
    /\ valid
    /\ s.value > 0                        \* or else return EAGAIN
    /\ s' = Claimed(s)
    /\ tokens' = tokens - 1
    /\ UNCHANGED <<valid, pc, call, skipped>>

(* ReleaseSemaphore fails when the count would pass its maximum; the value *)
(* is then put back (EINVAL).                                              *)
Post(t) ==
    /\ pc[t] = "idle"
    /\ valid
    /\ s.value < SEM_VALUE_MAX            \* or else return ERANGE
    /\ s.sem + PostRelease(s) <= SEM_VALUE_MAX
    /\ s' = Posted(s)
    /\ tokens' = tokens + 1
    /\ UNCHANGED <<valid, pc, call, skipped>>

PostMultiple(t, count) ==
    /\ pc[t] = "idle"
    /\ valid
    /\ s.value <= SEM_VALUE_MAX - count   \* or else return ERANGE
    /\ s.sem + PostMultipleRelease(s, count) <= SEM_VALUE_MAX
    /\ s' = PostedMultiple(s, count)
    /\ tokens' = tokens + count
    /\ UNCHANGED <<valid, pc, call, skipped>>

(* CloseHandle (s->sem), *sem = NULL, s->value = SEM_VALUE_MAX; later free *)
(* (s).  What a thread that is still inside does then is undefined: the    *)
(* model ends.                                                             *)
Destroy(t) ==
    /\ pc[t] = "idle"
    /\ valid
    /\ s.value >= 0                       \* or else return EBUSY
    /\ valid' = FALSE
    /\ s' = [s EXCEPT !.value = SEM_VALUE_MAX]
    /\ UNCHANGED <<pc, call, tokens, skipped>>

Step(t) == Acquire(t) \/ TimedCleanup(t) \/ WaitCleanup(t)

Call(t) == \/ \E c \in Calls : Wait(t, c)
           \/ Trywait(t)
           \/ Post(t)
           \/ \E count \in 1..MaxCount : PostMultiple(t, count)
           \/ Destroy(t)

Next == \E t \in Threads : Call(t) \/ Step(t) \/ Timeout(t) \/ Cancel(t)

Spec == Init /\ [][Next]_vars

(* A thread whose wait can be satisfied, or that cleans up, runs.          *)
FairSpec == Spec /\ \A t \in Threads : WF_vars(Step(t))

(***************************************************************************)
(* Properties                                                              *)
(***************************************************************************)
(* Types of the fields of *s and of the threads' positions.                *)
TypeOK ==
    /\ s \in [value : Int, sem : 0..SEM_VALUE_MAX]
    /\ s.value <= SEM_VALUE_MAX
    /\ valid \in BOOLEAN
    /\ pc \in [Threads -> Points]
    /\ call \in [Threads -> Calls]
    /\ tokens \in Int
    /\ skipped \in Nat

Inside == {t \in Threads : pc[t] # "idle"}

Waiters == IF s.value < 0 THEN -s.value ELSE 0

(* Each thread inside a wait is either counted in a negative value or has  *)
(* a unit of the Win32 semaphore ready for it, never both and never        *)
(* neither, through all races of posts with timeouts and cancelations; the *)
(* only ones counted that have gone are those whose cleanup did nothing.   *)
(* Hence a post wakes the waiters it must, and sem_destroy closes the      *)
(* semaphore under nobody for whom there is no unit.                       *)
Accounting == s.sem + Waiters = Cardinality(Inside) + skipped

(* No unit is lost or made up: the posts that no wait has taken are in the *)
(* value or in the Win32 semaphore.                                        *)
Conservation == valid => tokens = Units(s)

(* The inductive invariant.                                                *)
IInv == TypeOK /\ Accounting /\ Conservation

(* Once posts have caught up with the waits (the value stays at or above   *)
(* 0), every wait returns.                                                 *)
PostsServeWaits ==
    <>[](valid /\ s.value >= 0) => \A t \in Threads : []<>(pc[t] # "blocked")
=============================================================================
