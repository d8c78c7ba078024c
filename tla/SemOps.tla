------------------------------- MODULE SemOps -------------------------------
(***************************************************************************)
(* What the critical sections of the sem_* functions compute, as functions *)
(* of a semaphore s = [value |-> ..., sem |-> ...]: s.value is s->value,   *)
(* the POSIX value or minus the number of waiters, and s.sem is the count  *)
(* of the Win32 semaphore s->sem on which the waiters sleep.  Semaphore    *)
(* shows how they work together; CondVar and Barrier use them.             *)
(***************************************************************************)
EXTENDS Integers

(* sem_init; the Win32 semaphore starts at 0, "force threads to wait".     *)
SemInit(v) == [value |-> v, sem |-> 0]

(* v = --s->value; a negative v means wait.                                *)
Claimed(s) == [s EXCEPT !.value = @ - 1]

MustWait(s) == s.value - 1 < 0

(* A wait on s->sem is satisfied.                                          *)
Taken(s) == [s EXCEPT !.sem = @ - 1]

(* Wrong variant: a late post is not consumed.                             *)
SettledMutant(s) == [s EXCEPT !.value = @ + 1]

(* After a timeout or a cancelation: WaitForSingleObject (s->sem, 0), to   *)
(* consume a post that came in late, or else "indicate we're no longer     *)
(* waiting".                                                               *)
Settled(s) == IF s.sem > 0 THEN Taken(s) ELSE [s EXCEPT !.value = @ + 1]

(* ptw32_sem_wait_cleanup is passed s and not sem: what it tests against   *)
(* NULL, meant to be the handle, is the first field of *s, s->value.       *)
SettledByWait(s) == IF s.value # 0 THEN Settled(s) ELSE s

(* Wrong variant: the last waiter is overlooked.                           *)
PostReleaseMutant(s) == IF s.value + 1 < 0 THEN 1 ELSE 0

(* sem_post: ++s->value <= 0 means that there was a waiter to release.     *)
PostRelease(s) == IF s.value + 1 <= 0 THEN 1 ELSE 0

(* Wrong variant: more are released than wait.                             *)
PostMultipleReleaseMutant(s, count) == IF -s.value <= 0 THEN 0 ELSE count

(* sem_post_multiple: release as many as wait, at most count.              *)
PostMultipleRelease(s, count) ==
    IF -s.value <= 0 THEN 0 ELSE IF -s.value <= count THEN -s.value ELSE count

Posted(s) == [value |-> s.value + 1, sem |-> s.sem + PostRelease(s)]

PostedMultiple(s, count) ==
    [value |-> s.value + count, sem |-> s.sem + PostMultipleRelease(s, count)]

(* The units that a wait can have without a further post.                  *)
Units(s) == s.sem + (IF s.value > 0 THEN s.value ELSE 0)
=============================================================================
