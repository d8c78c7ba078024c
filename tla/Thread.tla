------------------------------- MODULE Thread -------------------------------
(***************************************************************************)
(* The life of threads: pthread_create, _exit, _join, _detach, _kill,      *)
(* _cancel and _testcancel, and the structures that are used again.        *)
(*                                                                         *)
(* A pthread_t names a structure p and the value x of its reuse counter;   *)
(* here such a pair also names the thread that was created with it.        *)
(* Callers are application threads with handles of their own, which call   *)
(* any function with any handle that they ever got, also a stale one.      *)
(* Two calls of join or detach on one handle do not overlap.               *)
(*                                                                         *)
(* What is done under ptw32_thread_reuse_lock, or under a stateLock        *)
(* without an access that others make outside of it, is one step (see      *)
(* MCSLock).                                                               *)
(***************************************************************************)
EXTENDS Naturals, Sequences, FiniteSets

CONSTANTS Structs,      \* addresses of thread structures that calloc can give
          Callers,
          MaxX,         \* bound on the reuse counter
          PTHREAD_CANCELED, NULL

Handle == Structs \X (0..MaxX)

ASSUME CallersAssumption == Callers \cap Handle = {}
ASSUME NullAssumption == /\ NULL \notin Handle \cup Callers
                         /\ PTHREAD_CANCELED \notin Handle \cup {NULL}
ASSUME MaxXAssumption == MaxX \in Nat

VARIABLES tp,       \* the structures
          fresh,    \* structures that have not been allocated yet
          reuse,    \* the reuse list, from its top to its bottom
          pc,       \* of the callers, and of the threads by their handles
          arg,      \* the handle that a caller is working on
          result,   \* history: how a thread has ended
          asked,    \* history: threads that pthread_cancel has been called for
          early,    \* history: threads that were canceled before they started
          fault     \* history: see Faults

vars == <<tp, fresh, reuse, pc, arg, result, asked, early, fault>>

(* PThreadState; the code compares these numbers.                          *)
Initial == 0
Running == 1
CancelPending == 3
Canceling == 4
Exiting == 5
Last == 6
Reuse == 7

P(h) == h[1]

X(h) == h[2]

(* What memset leaves, but for the reuse counter.                          *)
Zero(x) == [x |-> x, state |-> Initial, detached |-> FALSE, cancelEnabled |-> TRUE,
            async |-> TRUE, cancelEvent |-> FALSE, stateLock |-> NULL,
            threadH |-> NULL, exitStatus |-> NULL]

Init == /\ tp = [p \in Structs |-> Zero(0)]
        /\ fresh = Structs
        /\ reuse = <<>>
        /\ pc = [t \in Callers \cup Handle |-> IF t \in Callers THEN "idle" ELSE "none"]
        /\ arg = [c \in Callers |-> NULL]
        /\ result = [h \in Handle |-> NULL]
        /\ asked = {}
        /\ early = {}
        /\ fault = "none"

Goto(t, point) == pc' = [pc EXCEPT ![t] = point]

Move(t, from, to) == pc[t] = from /\ Goto(t, to)

Begin(c, h, point) == /\ pc[c] = "idle"
                      /\ pc[h] # "none"
                      /\ arg' = [arg EXCEPT ![c] = h]
                      /\ Goto(c, point)

Current(h) == tp[P(h)].x = X(h)

Free(p) == tp[p].stateLock = NULL

histories == <<result, asked, early, fault>>

pool == <<fresh, reuse>>

(***************************************************************************)
(* ptw32_threadReusePush, at the end of ptw32_threadDestroy.  A stateLock  *)
(* that somebody holds is wiped too.                                       *)
(***************************************************************************)
Push(p) == /\ tp' = [tp EXCEPT ![p] = [Zero(@.x + 1) EXCEPT !.state = Reuse]]
           /\ reuse' = Append(reuse, p)
           /\ fault' = IF Free(p) THEN fault ELSE "stray"
           /\ UNCHANGED <<fresh, arg, result, asked, early>>

(***************************************************************************)
(* pthread_create                                                          *)
(***************************************************************************)
Reset(p) == [tp[p] EXCEPT !.detached = FALSE, !.cancelEnabled = TRUE, !.async = FALSE,
                          !.stateLock = NULL, !.cancelEvent = FALSE]

(* ptw32_new: from the top of the reuse list, or else from calloc.         *)
New(c) ==
    \E p \in Structs :
        /\ \/ reuse # <<>> /\ p = Head(reuse) /\ reuse' = Tail(reuse) /\ UNCHANGED fresh
           \/ reuse = <<>> /\ p \in fresh /\ fresh' = fresh \ {p} /\ UNCHANGED reuse
        /\ tp[p].x <= MaxX
        /\ tp' = [tp EXCEPT ![p] = Reset(p)]
        /\ arg' = [arg EXCEPT ![c] = <<p, tp[p].x>>]
        /\ Move(c, "idle", "create")
        /\ UNCHANGED histories

(* The attributes and the Win32 thread; the caller gets the handle.        *)
Launch(c, detached) ==
    /\ pc[c] = "create"
    /\ tp' = [tp EXCEPT ![P(arg[c])].detached = detached, ![P(arg[c])].state = Initial,
                        ![P(arg[c])].threadH = arg[c]]
    /\ pc' = [pc EXCEPT ![c] = "idle", ![arg[c]] = "new"]
    /\ UNCHANGED <<pool, arg, histories>>

(* _beginthreadex fails.                                                   *)
LaunchFails(c) ==
    /\ Move(c, "create", "idle")
    /\ Push(P(arg[c]))

(***************************************************************************)
(* pthread_join and pthread_detach                                         *)
(***************************************************************************)
Claimed(h) == \E c \in Callers : /\ arg[c] = h
                                 /\ pc[c] \in {"joinWait", "joined", "detachWait"}

Joinable(h) == Current(h) /\ ~tp[P(h)].detached

(* ESRCH or EINVAL, which change nothing, unless the handle is joinable.   *)
Join(c, h) ==
    /\ Begin(c, h, "joinWait")
    /\ ~Claimed(h)
    /\ Joinable(h)
    /\ UNCHANGED <<tp, pool, histories>>

(* The Win32 thread of the structure is no more.                           *)
Terminated(p) == tp[p].threadH # NULL /\ pc[tp[p].threadH] = "ended"

JoinReady(c) ==
    /\ Move(c, "joinWait", "joined")
    /\ Terminated(P(arg[c]))
    /\ UNCHANGED <<tp, pool, arg, histories>>

(* The wait of pthread_join is a cancelation point.  The caller goes on as *)
(* a new thread.                                                           *)
JoinCanceled(c) ==
    /\ Move(c, "joinWait", "idle")
    /\ UNCHANGED <<tp, pool, arg, histories>>

(* Wrong variant: pthread_detach does not look at the state.               *)
DetachUnseen(t, h) ==
    /\ Joinable(h)
    /\ Free(P(h))
    /\ tp' = [tp EXCEPT ![P(h)].detached = TRUE]
    /\ pc' = [pc EXCEPT ![t] = IF t \in Callers THEN "idle" ELSE @]

(* Wrong variant: joinable is not tested under the lock.                   *)
DetachUntested(t, h) ==
    /\ Free(P(h))
    /\ IF tp[P(h)].state # Last
       THEN /\ tp' = [tp EXCEPT ![P(h)].detached = TRUE]
            /\ pc' = [pc EXCEPT ![t] = IF t \in Callers THEN "idle" ELSE @]
       ELSE /\ Goto(t, "detachWait")
            /\ UNCHANGED tp

(* A thread that has not reached PThreadStateLast destroys its structure   *)
(* itself, one that has leaves that to the caller.                         *)
Detach(t, h) ==
    /\ Joinable(h)
    /\ Free(P(h))
    /\ IF tp[P(h)].state # Last
       THEN /\ tp' = [tp EXCEPT ![P(h)].detached = TRUE]
            /\ pc' = [pc EXCEPT ![t] = IF t \in Callers THEN "idle" ELSE @]
       ELSE /\ Goto(t, "detachWait")
            /\ UNCHANGED tp

DetachOther(c, h) ==
    /\ pc[c] = "idle"
    /\ pc[h] # "none"
    /\ ~Claimed(h)
    /\ Detach(c, h)
    /\ arg' = [arg EXCEPT ![c] = h]
    /\ UNCHANGED <<pool, histories>>

DetachJoined(c) ==
    /\ pc[c] = "joined"
    /\ Detach(c, arg[c])
    /\ UNCHANGED <<pool, arg, histories>>

DetachSelf(h) ==
    /\ pc[h] = "run"
    /\ ~Claimed(h)
    /\ Detach(h, h)
    /\ UNCHANGED <<pool, arg, histories>>

(* The thread may still be on its way out.                                 *)
DetachDestroy(c) ==
    /\ Move(c, "detachWait", "idle")
    /\ Terminated(P(arg[c]))
    /\ Push(P(arg[c]))

(***************************************************************************)
(* pthread_cancel                                                          *)
(***************************************************************************)
(* The check is pthread_kill(thread, 0).                                   *)
CancelCheck(c, h) ==
    /\ Begin(c, h, "cancel")
    /\ Current(h)
    /\ tp[P(h)].threadH # NULL
    /\ UNCHANGED <<tp, pool, histories>>

Asynchronous(s) == s.async /\ s.cancelEnabled /\ s.state < Canceling

Acting(s) == [s EXCEPT !.state = Canceling, !.cancelEnabled = FALSE]

Pending(s) == [s EXCEPT !.state = CancelPending, !.cancelEvent = TRUE]

(* The lock is taken, and kept unless there is nothing to do.  A thread    *)
(* writes Exiting without it, so the state may have changed when the next  *)
(* step of the caller is taken.                                            *)
CancelLock(c) ==
    LET p == P(arg[c])
        point == IF Asynchronous(tp[p]) THEN "cancelSuspend" ELSE "cancelMark"
    IN /\ pc[c] = "cancel"
       /\ Free(p)
       /\ IF Asynchronous(tp[p]) \/ tp[p].state < CancelPending
          THEN /\ tp' = [tp EXCEPT ![p].stateLock = c]
               /\ Goto(c, point)
          ELSE Goto(c, "idle") /\ UNCHANGED tp
       /\ UNCHANGED <<pool, arg, histories>>

(* The thread is suspended and resumes in ptw32_throw, wherever it was.  A *)
(* thread that was waiting for its own stateLock will be given it without  *)
(* ever releasing it; one that has run its exit code runs it again.        *)
CancelAsync(c) ==
    LET p == P(arg[c])
        t == tp[p].threadH
    IN /\ pc[c] = "cancelSuspend"
       /\ tp' = [tp EXCEPT ![p] = [Acting(@) EXCEPT !.stateLock = NULL]]
       /\ pc' = [pc EXCEPT ![c] = "idle", ![t] = "throw"]
       /\ asked' = asked \cup {arg[c]}
       /\ fault' \in IF ~Current(arg[c]) THEN {"stray"}
                     ELSE IF pc[t] = "destructors" THEN {"late"}
                     ELSE IF pc[t] \in {"run", "waitCanceled"} THEN {fault, "orphan"}
                     ELSE {fault}
       /\ UNCHANGED <<pool, arg, result, early>>

(* The state, which pthread_testcancel reads without the lock, and then    *)
(* the event, on which the waits wait without it.                          *)
CancelMark(c) ==
    /\ Move(c, "cancelMark", "cancelSet")
    /\ tp' = [tp EXCEPT ![P(arg[c])].state = CancelPending]
    /\ asked' = asked \cup {arg[c]}
    /\ early' = IF pc[arg[c]] = "new" THEN early \cup {arg[c]} ELSE early
    /\ fault' = IF Current(arg[c]) THEN fault ELSE "stray"
    /\ UNCHANGED <<pool, arg, result>>

(* Wrong variant: the event is not set.                                    *)
CancelSetMutant(c) ==
    /\ Move(c, "cancelSet", "idle")
    /\ tp' = [tp EXCEPT ![P(arg[c])].stateLock = NULL]
    /\ UNCHANGED <<pool, arg, histories>>

CancelSet(c) ==
    /\ Move(c, "cancelSet", "idle")
    /\ tp' = [tp EXCEPT ![P(arg[c])].cancelEvent = TRUE, ![P(arg[c])].stateLock = NULL]
    /\ UNCHANGED <<pool, arg, histories>>

(***************************************************************************)
(* What a thread does: ptw32_threadStart, the user's routine               *)
(***************************************************************************)
Update(h, s) == tp' = [tp EXCEPT ![P(h)] = s]

Self(h) == tp[P(h)]

(* The state is overwritten, also if it is CancelPending.                  *)
Start(h) ==
    /\ Move(h, "new", "run")
    /\ Free(P(h))
    /\ Update(h, [Self(h) EXCEPT !.state = Running])
    /\ UNCHANGED <<pool, arg, histories>>

(* pthread_setcancelstate and pthread_setcanceltype.                       *)
SetCancelability(h, enabled, async) ==
    LET s == [Self(h) EXCEPT !.cancelEnabled = enabled, !.async = async]
    IN /\ pc[h] = "run"
       /\ Free(P(h))
       /\ IF enabled /\ async /\ s.cancelEvent
          THEN /\ Update(h, [Acting(s) EXCEPT !.cancelEvent = FALSE])
               /\ Goto(h, "throw")
          ELSE Update(h, s) /\ UNCHANGED pc
       /\ UNCHANGED <<pool, arg, histories>>

SetCancelState(h, enabled) == SetCancelability(h, enabled, Self(h).async)

SetCancelType(h, async) == SetCancelability(h, Self(h).cancelEnabled, async)

(* pthread_cancel(pthread_self()): nobody else reads without the lock.     *)
CancelSelf(h) ==
    /\ pc[h] = "run"
    /\ Free(P(h))
    /\ \/ /\ Asynchronous(Self(h))
          /\ Update(h, Acting(Self(h)))
          /\ Goto(h, "throw")
       \/ /\ ~Asynchronous(Self(h))
          /\ Self(h).state < CancelPending
          /\ Update(h, Pending(Self(h)))
          /\ UNCHANGED pc
    /\ asked' = asked \cup {h}
    /\ UNCHANGED <<pool, arg, result, early, fault>>

(* pthread_testcancel: a test of the state, and then the lock.             *)
Testcancel(h) ==
    /\ Self(h).state = CancelPending
    /\ Free(P(h))
    /\ Self(h).cancelEnabled
    /\ Move(h, "run", "throw")
    /\ Update(h, [Acting(Self(h)) EXCEPT !.cancelEvent = FALSE])
    /\ UNCHANGED <<pool, arg, histories>>

(* ptw32_cancelable_wait on anything.  A thread that disables cancelation  *)
(* does not wait for the event.                                            *)
Wait(h) ==
    /\ Move(h, "run", "wait")
    /\ Self(h).cancelEnabled
    /\ UNCHANGED <<tp, pool, arg, histories>>

WaitDone(h) ==
    /\ Move(h, "wait", "run")
    /\ UNCHANGED <<tp, pool, arg, histories>>

WaitCanceled(h) ==
    /\ Move(h, "wait", "waitCanceled")
    /\ Self(h).cancelEvent
    /\ Update(h, [Self(h) EXCEPT !.cancelEvent = FALSE])
    /\ UNCHANGED <<pool, arg, histories>>

(* Wrong variant: the state is not set.                                    *)
WaitActsMutant(h) ==
    /\ Move(h, "waitCanceled", "run")
    /\ Free(P(h))
    /\ UNCHANGED <<tp, pool, arg, histories>>

WaitActs(h) ==
    /\ Move(h, "waitCanceled", "throw")
    /\ Free(P(h))
    /\ Self(h).state < Canceling
    /\ Update(h, Acting(Self(h)))
    /\ UNCHANGED <<pool, arg, histories>>

(***************************************************************************)
(* The end of a thread: by return, pthread_exit or ptw32_throw, and then   *)
(* pthread_win32_thread_detach_np                                          *)
(***************************************************************************)
Return(h) ==
    /\ Move(h, "run", "returned")
    /\ Update(h, [Self(h) EXCEPT !.exitStatus = h])
    /\ result' = [result EXCEPT ![h] = h]
    /\ UNCHANGED <<pool, arg, asked, early, fault>>

Exit(h) ==
    /\ Move(h, "returned", "destructors")
    /\ Update(h, [Self(h) EXCEPT !.state = Exiting])
    /\ UNCHANGED <<pool, arg, histories>>

Throw(h) ==
    /\ Move(h, "throw", "destructors")
    /\ Update(h, [Self(h) EXCEPT !.state = Exiting, !.exitStatus = PTHREAD_CANCELED])
    /\ result' = [result EXCEPT ![h] = PTHREAD_CANCELED]
    /\ UNCHANGED <<pool, arg, asked, early, fault>>

(* A cancelation point in a destructor of thread-specific data acts on a   *)
(* request that CancelMark has written over Exiting.                       *)
CancelLate(h) ==
    /\ pc[h] = "destructors"
    /\ Self(h).state = CancelPending
    /\ Self(h).cancelEnabled
    /\ Free(P(h))
    /\ fault' = "late"
    /\ UNCHANGED <<tp, pool, pc, arg, result, asked, early>>

LastState(h) ==
    /\ Move(h, "destructors", "last")
    /\ Free(P(h))
    /\ Update(h, [Self(h) EXCEPT !.state = Last])
    /\ UNCHANGED <<pool, arg, histories>>

(* Wrong variant: detachState is not tested.                               *)
LeaveMutant(h) ==
    /\ Move(h, "last", "destroy")
    /\ UNCHANGED <<tp, pool, arg, histories>>

(* detachState is read without a lock.                                     *)
Leave(h) ==
    /\ Move(h, "last", IF Self(h).detached THEN "destroy" ELSE "ending")
    /\ UNCHANGED <<tp, pool, arg, histories>>

Destroy(h) ==
    /\ Move(h, "destroy", "ended")
    /\ Push(P(h))

(* The Win32 thread ends.                                                  *)
End(h) ==
    /\ Move(h, "ending", "ended")
    /\ UNCHANGED <<tp, pool, arg, histories>>

(***************************************************************************)
(* Faults: what happens afterwards is not modelled.                        *)
(* "stray": pthread_cancel has written to the structure of a later thread, *)
(*   or its lock has been wiped while it held it.                          *)
(* "orphan": a stateLock that will never be released.                      *)
(* "late": a cancelation has acted on a thread that had already returned.  *)
(***************************************************************************)
CallerStep(c) == \/ \E detached \in BOOLEAN : Launch(c, detached)
                 \/ LaunchFails(c)
                 \/ JoinReady(c) \/ DetachJoined(c) \/ DetachDestroy(c)
                 \/ CancelLock(c) \/ CancelAsync(c) \/ CancelMark(c) \/ CancelSet(c)

Call(c) == \/ New(c) \/ JoinCanceled(c)
           \/ \E h \in Handle : Join(c, h) \/ DetachOther(c, h) \/ CancelCheck(c, h)

ThreadStep(h) == \/ Start(h) \/ WaitActs(h) \/ Exit(h) \/ Throw(h)
                 \/ LastState(h) \/ Leave(h) \/ Destroy(h) \/ End(h)

CancelPoint(h) == Testcancel(h) \/ WaitCanceled(h)

Run(h) == \/ \E b \in BOOLEAN : SetCancelState(h, b) \/ SetCancelType(h, b)
          \/ CancelSelf(h) \/ DetachSelf(h) \/ Wait(h) \/ WaitDone(h) \/ Return(h)
          \/ CancelLate(h)

Next == /\ fault = "none"
        /\ \/ \E c \in Callers : Call(c) \/ CallerStep(c)
           \/ \E h \in Handle : Run(h) \/ CancelPoint(h) \/ ThreadStep(h)

Spec == Init /\ [][Next]_vars

(* Threads inside a call, and threads on their way out, run; a thread      *)
(* comes to cancelation points.                                            *)
FairSpec == /\ Spec
            /\ \A c \in Callers : WF_vars(fault = "none" /\ CallerStep(c))
            /\ \A h \in Handle : /\ WF_vars(fault = "none" /\ ThreadStep(h))
                                 /\ WF_vars(fault = "none" /\ CancelPoint(h))

(***************************************************************************)
(* Properties                                                              *)
(***************************************************************************)
Points == {"idle", "create", "joinWait", "joined", "detachWait", "cancel",
           "cancelSuspend", "cancelMark", "cancelSet",
           "none", "new", "run", "wait", "waitCanceled", "throw", "returned",
           "destructors", "last", "destroy", "ending", "ended"}

Structure == [x : 0..MaxX + 1, state : 0..Reuse, detached : BOOLEAN,
              cancelEnabled : BOOLEAN, async : BOOLEAN, cancelEvent : BOOLEAN,
              stateLock : Callers \cup {NULL}, threadH : Handle \cup {NULL},
              exitStatus : Handle \cup {PTHREAD_CANCELED, NULL}]

(* Types of the structures and of the threads' positions.                  *)
TypeOK ==
    /\ tp \in [Structs -> Structure]
    /\ fresh \subseteq Structs
    /\ reuse \in Seq(Structs)
    /\ pc \in [Callers \cup Handle -> Points]
    /\ arg \in [Callers -> Handle \cup {NULL}]
    /\ result \in [Handle -> Handle \cup {PTHREAD_CANCELED, NULL}]
    /\ asked \subseteq Handle
    /\ early \subseteq Handle
    /\ fault \in {"none", "stray", "orphan", "late"}

(* Whoever is going to destroy a structure is alone in that, and destroys  *)
(* the thread it means: pthread_detach and the end of the thread decide,   *)
(* one under the lock and one outside of it, which of them it is.          *)
Destroyers(p) == {t \in Callers : pc[t] \in {"create", "detachWait"} /\ P(arg[t]) = p}
                     \cup {h \in Handle : pc[h] = "destroy" /\ P(h) = p}

OneDestroyer ==
    \A p \in Structs :
        /\ Cardinality(Destroyers(p)) <= 1
        /\ \A c \in Callers \cap Destroyers(p) : Current(arg[c])
        /\ \A h \in Handle \cap Destroyers(p) : Current(h)
        /\ Cardinality({i \in DOMAIN reuse : reuse[i] = p}) <= 1
        /\ \A i \in DOMAIN reuse : reuse[i] = p => Destroyers(p) = {}

(* "The target thread is joinable and can't be reused before we join it":  *)
(* a join waits for its own thread and finds that thread's exit status,    *)
(* also after joins that were canceled.                                    *)
JoinSound ==
    \A c \in Callers :
        pc[c] \in {"joinWait", "joined"} =>
            /\ Joinable(arg[c])
            /\ tp[P(arg[c])].threadH = arg[c]
            /\ pc[c] = "joined" => /\ tp[P(arg[c])].exitStatus = result[arg[c]]
                                   /\ result[arg[c]] # NULL

(* A caller has set the state of p and is about to set the event.          *)
SettingEvent(p) == \E c \in Callers : pc[c] = "cancelSet" /\ P(arg[c]) = p

(* "Pthread_cancel() will have set sp->state to PThreadStateCancelPending  *)
(* and set an event": pthread_testcancel, which looks at the state, and    *)
(* the waits, which look at the event, know of the same requests, but for  *)
(* the moment between the two writes, and unless the request came before   *)
(* the thread had started.                                                 *)
PendingSeen ==
    fault # "stray" =>
        \A h \in Handle \ early :
            pc[h] \in {"run", "wait"} =>
                (tp[P(h)].state = CancelPending
                    <=> tp[P(h)].cancelEvent \/ SettingEvent(P(h)))

(* A structure comes back to the reuse list when its thread has been       *)
(* detached and ends, whichever comes first, or when it has been joined.   *)
Spent(h) == \/ /\ Current(h) /\ tp[P(h)].detached
               /\ pc[h] \in {"returned", "throw"}
            \/ \E c \in Callers : pc[c] \in {"joined", "detachWait"} /\ arg[c] = h

Reclaimed == []<>(fault # "none") \/ \A h \in Handle : Spent(h) ~> tp[P(h)].x > X(h)

(* A request that a thread has not turned away ends it, whether it tests   *)
(* or waits.                                                               *)
CancelActs ==
    []<>(fault # "none") \/
        \A h \in Handle :
            pc[h] \in {"run", "wait"} /\ tp[P(h)].state = CancelPending
                /\ tp[P(h)].cancelEnabled
            ~> pc[h] \notin {"run", "wait", "waitCanceled"} \/ ~tp[P(h)].cancelEnabled
=============================================================================
