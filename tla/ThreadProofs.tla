---------------------------- MODULE ThreadProofs ----------------------------
(***************************************************************************)
(* Proofs about Thread, for any structures, callers and bound on the reuse *)
(* counter.                                                                *)
(***************************************************************************)
EXTENDS Thread, SequenceTheorems, FiniteSetTheorems, TLAPS

(***************************************************************************)
(* The invariant                                                           *)
(***************************************************************************)
(* Where a thread has set PThreadStateLast, and where it has a result.     *)
LastPoints == {"last", "destroy", "ending", "ended"}

ExitPoints == {"returned", "destructors"} \cup LastPoints

ClaimPoints == {"joinWait", "joined", "detachWait"}

(* Where a caller of pthread_cancel has the stateLock.                     *)
LockPoints == {"cancelSuspend", "cancelMark", "cancelSet"}

(* A structure belongs to one thread at a time, in the order of x.         *)
Generations ==
    /\ \A h \in Handle :
          /\ pc[h] \notin {"none", "ended"} => Current(h)
          /\ pc[h] # "none" => X(h) <= tp[P(h)].x
          /\ Current(h) => (tp[P(h)].threadH = h <=> pc[h] # "none")
    /\ \A p \in Structs :
          tp[p].threadH # NULL => P(tp[p].threadH) = p /\ Current(tp[p].threadH)

(* A structure without a thread is fresh, in the reuse list or with the    *)
(* caller that creates a thread; no pthread_cancel can do anything to it.  *)
Listed(p) == \E i \in DOMAIN reuse : reuse[i] = p

Pooled ==
    /\ \A p \in Structs :
          /\ p \in fresh => tp[p].threadH = NULL /\ tp[p].x = 0
          /\ Listed(p) => tp[p].threadH = NULL /\ p \notin fresh
          /\ tp[p].threadH = NULL => /\ tp[p].state = Reuse \/ tp[p].x = 0
                                     /\ tp[p].stateLock = NULL
    /\ \A i, j \in DOMAIN reuse : reuse[i] = reuse[j] => i = j

Creating ==
    \A c \in Callers :
        pc[c] = "create" =>
            /\ arg[c] \in Handle
            /\ Current(arg[c])
            /\ tp[P(arg[c])].threadH = NULL /\ ~tp[P(arg[c])].cancelEvent
            /\ P(arg[c]) \notin fresh
            /\ ~Listed(P(arg[c]))
            /\ \A d \in Callers : pc[d] = "create" /\ P(arg[d]) = P(arg[c]) => d = c

(* Handles that callers work on are those of threads.                      *)
Named ==
    \A c \in Callers :
        pc[c] \in ClaimPoints \cup {"cancel"} \cup LockPoints =>
            arg[c] \in Handle /\ pc[arg[c]] # "none"

(* A thread that somebody joins or detaches stays joinable until then.     *)
Claims ==
    \A c \in Callers :
        pc[c] \in ClaimPoints =>
            /\ Joinable(arg[c])
            /\ pc[c] = "joined" => pc[arg[c]] = "ended"
            /\ \A d \in Callers : pc[d] \in ClaimPoints /\ arg[d] = arg[c] => d = c

Locks ==
    \A c \in Callers, p \in Structs :
        tp[p].stateLock = c <=> pc[c] \in LockPoints /\ P(arg[c]) = p

(* What a thread on its way out leaves in its structure.                   *)
Ends ==
    \A h \in Handle : Current(h) =>
        /\ pc[h] \in LastPoints => tp[P(h)].state = Last /\ tp[P(h)].stateLock = NULL
        /\ tp[P(h)].state = Last /\ pc[h] # "none" => pc[h] \in LastPoints
        /\ pc[h] = "destroy" => tp[P(h)].detached
        /\ pc[h] \in {"ending", "ended"} => ~tp[P(h)].detached
        /\ pc[h] \in ExitPoints => tp[P(h)].exitStatus = result[h] /\ result[h] # NULL

(* A thread starts without a request.                                      *)
Unasked ==
    fault # "stray" =>
        \A h \in Handle \ early :
            pc[h] = "new" => ~tp[P(h)].cancelEvent /\ ~SettingEvent(P(h))

IInv == /\ TypeOK
        /\ Generations
        /\ Pooled
        /\ Creating
        /\ Named
        /\ Claims
        /\ Locks
        /\ Ends
        /\ Unasked
        /\ PendingSeen

USE CallersAssumption, NullAssumption, MaxXAssumption
USE DEF pool, histories, Goto, Move

(***************************************************************************)
(* Handles and structures                                                  *)
(***************************************************************************)
(* A handle is its structure and its value of the reuse counter.           *)
LEMMA Handles ==
    /\ \A h \in Handle : P(h) \in Structs /\ X(h) \in 0..MaxX
    /\ \A h, g \in Handle : P(h) = P(g) /\ X(h) = X(g) => h = g
    /\ \A p \in Structs, x \in 0..MaxX :
          <<p, x>> \in Handle /\ P(<<p, x>>) = p /\ X(<<p, x>>) = x
BY DEF Handle, P, X

(* Callers and threads are apart.                                          *)
LEMMA Apart == \A c \in Callers : c \notin Handle
OBVIOUS

(* The fields of a structure, for a handle and for every structure.        *)
LEMMA Fields ==
    ASSUME TypeOK
    PROVE  /\ \A p \in Structs : tp[p] \in Structure
           /\ \A h \in Handle : Self(h) \in Structure
BY Handles DEF TypeOK, Self

(* What a request writes.                                                  *)
LEMMA Requests ==
    ASSUME NEW s \in Structure
    PROVE  Acting(s) \in Structure /\ Pending(s) \in Structure
<1>1. /\ Acting(s) = [[s EXCEPT !.state = Canceling] EXCEPT !.cancelEnabled = FALSE]
      /\ Pending(s) = [[s EXCEPT !.state = CancelPending] EXCEPT !.cancelEvent = TRUE]
  BY DEF Acting, Pending
<1>2. /\ [s EXCEPT !.state = Canceling] \in Structure
      /\ [s EXCEPT !.state = CancelPending] \in Structure
  BY DEF Structure, Canceling, CancelPending, Reuse
<1> QED
  BY <1>1, <1>2 DEF Structure

(* A thread that has begun and not ended is the one of its structure.      *)
LEMMA Lives ==
    ASSUME IInv, NEW h \in Handle, pc[h] \notin {"none", "ended"}
    PROVE  /\ Current(h)
           /\ tp[P(h)].threadH = h
           /\ \A g \in Handle : P(g) = P(h) /\ Current(g) => g = h
BY Handles DEF IInv, Generations, Current

(***************************************************************************)
(* Steps of a thread, which belong to nobody else                          *)
(***************************************************************************)
(* The thread h writes s to its own structure, but not what others go by,  *)
(* and goes to the point q with what it should have there.                 *)
Moves(h, s, q) ==
    /\ pc[h] \notin {"none", "ended"}
    /\ q \in Points \ {"none", "new"}
    /\ pc' = [pc EXCEPT ![h] = q]
    /\ s \in Structure
    /\ s.x = Self(h).x /\ s.threadH = Self(h).threadH
    /\ s.stateLock = Self(h).stateLock
    /\ s.detached = Self(h).detached \/ (s.detached /\ ~Claimed(h))
    /\ tp' = [tp EXCEPT ![P(h)] = s]
    /\ UNCHANGED <<pool, arg, early>>
    /\ asked' \subseteq Handle
    /\ fault = "none" /\ fault' \in {"none", "late"}
    /\ result' \in [Handle -> Handle \cup {PTHREAD_CANCELED, NULL}]
    /\ \A g \in Handle \ {h} : result'[g] = result[g]
    /\ q \in LastPoints <=> s.state = Last
    /\ s.state = Last => s.stateLock = NULL
    /\ q = "destroy" => s.detached
    /\ q \in {"ending", "ended"} => ~s.detached
    /\ q \in ExitPoints => s.exitStatus = result'[h] /\ result'[h] # NULL
    /\ h \notin early /\ q \in {"run", "wait"} =>
          (s.state = CancelPending <=> s.cancelEvent \/ SettingEvent(P(h)))

(* A step in which one thread moves and may write its own structure.       *)
LEMMA MovesIInv ==
    ASSUME IInv, NEW h \in Handle, NEW s, NEW q, Moves(h, s, q)
    PROVE  IInv'
<1> USE DEF Moves, IInv
<1>1. /\ \A t \in Callers : pc'[t] = pc[t] /\ arg'[t] = arg[t]
      /\ \A g \in Handle \ {h} : pc'[g] = pc[g]
      /\ pc'[h] = q
      /\ \A p \in Structs \ {P(h)} : tp'[p] = tp[p]
      /\ tp'[P(h)] = s
      /\ \A p \in Structs : /\ tp'[p].x = tp[p].x
                            /\ tp'[p].threadH = tp[p].threadH
                            /\ tp'[p].stateLock = tp[p].stateLock
  BY Handles DEF TypeOK, Self
<1>2. \A g \in Handle : Current(g)' <=> Current(g)
  BY <1>1, Handles DEF Current
<1>3. /\ Current(h) /\ tp[P(h)].threadH = h
      /\ \A g \in Handle \ {h} : P(g) = P(h) => ~Current(g)
  BY Lives
<1>4. TypeOK'
  BY Handles DEF TypeOK
<1>5. Generations'
  <2>1. ASSUME NEW g \in Handle
        PROVE  /\ pc'[g] \notin {"none", "ended"} => Current(g)'
               /\ pc'[g] # "none" => X(g) <= tp'[P(g)].x
               /\ Current(g)' => (tp'[P(g)].threadH = g <=> pc'[g] # "none")
    BY <1>1, <1>2, <1>3, Handles DEF Generations
  <2>2. ASSUME NEW p \in Structs, tp'[p].threadH # NULL
        PROVE  P(tp'[p].threadH) = p /\ tp'[p].x = X(tp'[p].threadH)
    BY <1>1, <2>2 DEF Generations, Current
  <2> QED
    BY <2>1, <2>2 DEF Generations, Current
<1>6. Pooled'
  <2>1. \A p \in Structs : tp[p].threadH = NULL => tp'[p] = tp[p]
    BY <1>1, <1>3
  <2> QED
    BY <1>1, <2>1 DEF Pooled, Listed
<1>7. Creating'
  <2>1. \A c \in Callers : pc[c] = "create" => arg[c] \in Handle
    BY DEF Creating
  <2>2. \A p \in Structs : tp[p].threadH = NULL => tp'[p] = tp[p]
    BY <1>1, <1>3
  <2> QED
    BY <1>1, <1>2, <2>1, <2>2, Handles DEF Creating, Listed
<1>8. Named'
  BY <1>1 DEF Named
<1>9. Claims'
  <2>1. \A c \in Callers : pc[c] \in ClaimPoints => arg[c] \in Handle
    BY DEF Named
  <2>2. ASSUME NEW c \in Callers, pc[c] \in ClaimPoints
        PROVE  tp'[P(arg[c])].detached = tp[P(arg[c])].detached
    BY <1>1, <1>3, <2>1, <2>2, Handles DEF Claims, Claimed, ClaimPoints, Joinable, Self
  <2> QED
    BY <1>1, <1>2, <2>1, <2>2, Handles DEF Claims, Joinable
<1>10. Locks'
  BY <1>1 DEF Locks
<1>11. Ends'
  <2>1. ASSUME NEW g \in Handle \ {h}, Current(g)'
        PROVE  tp'[P(g)] = tp[P(g)] /\ pc'[g] = pc[g] /\ result'[g] = result[g]
    BY <1>1, <1>2, <1>3, <2>1, Handles
  <2> QED
    BY <1>1, <1>2, <2>1 DEF Ends
<1>12. Unasked' /\ PendingSeen'
  <2>1. ASSUME NEW g \in Handle \ {h}, pc[g] \in {"new", "run", "wait"}
        PROVE  tp'[P(g)] = tp[P(g)]
    BY <1>1, <1>3, <2>1, Handles DEF Generations
  <2>2. \A p \in Structs : SettingEvent(p)' <=> SettingEvent(p)
    BY <1>1 DEF SettingEvent
  <2> QED
    BY <1>1, <2>1, <2>2, Handles DEF Unasked, PendingSeen
<1> QED
  BY <1>4, <1>5, <1>6, <1>7, <1>8, <1>9, <1>10, <1>11, <1>12

USE DEF Initial, Running, CancelPending, Canceling, Exiting, Last, Reuse

(* The first step of a thread.                                             *)
LEMMA StartIInv ==
    ASSUME IInv, NEW h \in Handle, fault = "none", Start(h)
    PROVE  IInv'
<1> DEFINE s == [Self(h) EXCEPT !.state = Running]
<1>1. Self(h) \in Structure /\ (pc[h] \notin {"none", "ended"} => Current(h))
  BY Fields, Lives DEF IInv
<1>2. s \in Structure
  BY <1>1 DEF Structure, Start
<1>3. Moves(h, s, "run")
  BY <1>1, <1>2, Handles DEF IInv, TypeOK, Moves, Points, LastPoints, ExitPoints, Self,
     Structure, Update, Ends, PendingSeen, Unasked, Free, Current, Start
<1> QED
  BY <1>3, MovesIInv

(* Cancelability, which may make a pending request act.                    *)
LEMMA SetCancelabilityIInv ==
    ASSUME IInv, NEW h \in Handle, NEW enabled \in BOOLEAN, NEW async \in BOOLEAN,
           fault = "none", SetCancelability(h, enabled, async)
    PROVE  IInv'
<1> DEFINE v == [Self(h) EXCEPT !.cancelEnabled = enabled, !.async = async]
           s == [Acting(v) EXCEPT !.cancelEvent = FALSE]
<1>1. Self(h) \in Structure /\ (pc[h] \notin {"none", "ended"} => Current(h))
  BY Fields, Lives DEF IInv
<1>2. v \in Structure /\ s \in Structure
  <2> DEFINE u == [Self(h) EXCEPT !.cancelEnabled = enabled]
  <2>1. u \in Structure
    BY <1>1 DEF Structure
  <2>2. v = [u EXCEPT !.async = async] /\ v \in Structure
    BY <2>1 DEF Structure
  <2> QED
    BY <2>2, Requests DEF Structure
<1>3. pc[h] = "run" /\ Current(h) /\ Self(h).state # Last /\ pc \in [Callers \cup Handle -> Points]
  BY <1>1 DEF SetCancelability, IInv, TypeOK, Ends, Self, LastPoints
<1>4. CASE enabled /\ async /\ v.cancelEvent
  <2>1. /\ s.x = Self(h).x /\ s.threadH = Self(h).threadH /\ s.state = Canceling
        /\ s.stateLock = Self(h).stateLock /\ s.detached = Self(h).detached
    BY <1>1, <1>2 DEF Structure, Acting
  <2>2. /\ tp' = [tp EXCEPT ![P(h)] = s] /\ pc' = [pc EXCEPT ![h] = "throw"]
        /\ UNCHANGED <<pool, arg, histories>>
    BY <1>4 DEF SetCancelability, Update
  <2> HIDE DEF s, v
  <2>3. Moves(h, s, "throw")
    BY <1>2, <1>3, <2>1, <2>2 DEF IInv, TypeOK, Moves, Points, LastPoints, ExitPoints
  <2> QED
    BY <2>3, MovesIInv
<1>5. CASE ~(enabled /\ async /\ v.cancelEvent)
  <2>1. /\ v.x = Self(h).x /\ v.threadH = Self(h).threadH /\ v.state = Self(h).state
        /\ v.stateLock = Self(h).stateLock /\ v.detached = Self(h).detached
        /\ v.cancelEvent = Self(h).cancelEvent
    BY <1>1, <1>2 DEF Structure
  <2>2. tp' = [tp EXCEPT ![P(h)] = v] /\ UNCHANGED <<pool, pc, arg, histories>>
    BY <1>5 DEF SetCancelability, Update
  <2>3. pc' = [pc EXCEPT ![h] = "run"]
    BY <1>3, <2>2
  <2>4. h \notin early => (v.state = CancelPending <=> v.cancelEvent \/ SettingEvent(P(h)))
    BY <1>3, <2>1 DEF IInv, PendingSeen, Self
  <2> HIDE DEF s, v
  <2>5. Moves(h, v, "run")
    BY <1>2, <1>3, <2>1, <2>2, <2>3, <2>4 DEF IInv, TypeOK, Moves, Points, LastPoints,
       ExitPoints
  <2> QED
    BY <2>5, MovesIInv
<1> QED
  BY <1>4, <1>5

(* A request of a thread to itself: pending, or acted on.                  *)
LEMMA CancelSelfIInv ==
    ASSUME IInv, NEW h \in Handle, fault = "none", CancelSelf(h)
    PROVE  IInv'
<1> DEFINE s == IF Asynchronous(Self(h)) THEN Acting(Self(h)) ELSE Pending(Self(h))
<1>1. Self(h) \in Structure /\ (pc[h] \notin {"none", "ended"} => Current(h))
  BY Fields, Lives DEF IInv
<1>2. s \in Structure
  BY <1>1, Requests
<1>3. Moves(h, s, IF Asynchronous(Self(h)) THEN "throw" ELSE "run")
  BY <1>1, <1>2, Handles DEF IInv, TypeOK, Moves, Points, LastPoints, ExitPoints, Self,
     Structure, Update, Ends, PendingSeen, Unasked, Free, Current, CancelSelf, Acting,
     Pending, Asynchronous
<1> QED
  BY <1>3, MovesIInv

(* A cancelation point without a wait.                                     *)
LEMMA TestcancelIInv ==
    ASSUME IInv, NEW h \in Handle, fault = "none", Testcancel(h)
    PROVE  IInv'
<1> DEFINE s == [Acting(Self(h)) EXCEPT !.cancelEvent = FALSE]
<1>1. Self(h) \in Structure /\ (pc[h] \notin {"none", "ended"} => Current(h))
  BY Fields, Lives DEF IInv
<1>2. s \in Structure
  BY <1>1, Requests DEF Structure
<1>3. Moves(h, s, "throw")
  BY <1>1, <1>2, Handles DEF IInv, TypeOK, Moves, Points, LastPoints, ExitPoints, Self,
     Structure, Update, Ends, PendingSeen, Unasked, Free, Current, Testcancel, Acting
<1> QED
  BY <1>3, MovesIInv

(* Cancelation points that wait.                                           *)
LEMMA WaitIInv ==
    ASSUME IInv, NEW h \in Handle, fault = "none", Wait(h) \/ WaitDone(h)
    PROVE  IInv'
<1> DEFINE s == Self(h)
<1>1. Self(h) \in Structure /\ (pc[h] \notin {"none", "ended"} => Current(h))
  BY Fields, Lives DEF IInv
<1>2. s \in Structure
  BY <1>1 DEF Structure, Wait, WaitDone
<1>3. Moves(h, s, IF pc[h] = "run" THEN "wait" ELSE "run")
  BY <1>1, <1>2, Handles DEF IInv, TypeOK, Moves, Points, LastPoints, ExitPoints, Self,
     Structure, Update, Ends, PendingSeen, Unasked, Free, Current, Wait, WaitDone
<1> QED
  BY <1>3, MovesIInv

(* The event ends the wait.                                                *)
LEMMA WaitCanceledIInv ==
    ASSUME IInv, NEW h \in Handle, fault = "none", WaitCanceled(h)
    PROVE  IInv'
<1> DEFINE s == [Self(h) EXCEPT !.cancelEvent = FALSE]
<1>1. Self(h) \in Structure /\ (pc[h] \notin {"none", "ended"} => Current(h))
  BY Fields, Lives DEF IInv
<1>2. s \in Structure
  BY <1>1 DEF Structure, WaitCanceled
<1>3. Moves(h, s, "waitCanceled")
  BY <1>1, <1>2, Handles DEF IInv, TypeOK, Moves, Points, LastPoints, ExitPoints, Self,
     Structure, Update, Ends, PendingSeen, Unasked, Free, Current, WaitCanceled
<1> QED
  BY <1>3, MovesIInv

(* The request is acted on.                                                *)
LEMMA WaitActsIInv ==
    ASSUME IInv, NEW h \in Handle, fault = "none", WaitActs(h)
    PROVE  IInv'
<1> DEFINE s == Acting(Self(h))
<1>1. Self(h) \in Structure /\ (pc[h] \notin {"none", "ended"} => Current(h))
  BY Fields, Lives DEF IInv
<1>2. s \in Structure
  BY <1>1, Requests
<1>3. Moves(h, s, "throw")
  BY <1>1, <1>2, Handles DEF IInv, TypeOK, Moves, Points, LastPoints, ExitPoints, Self,
     Structure, Update, Ends, PendingSeen, Unasked, Free, Current, WaitActs, Acting
<1> QED
  BY <1>3, MovesIInv

(* The routine returns.                                                    *)
LEMMA ReturnIInv ==
    ASSUME IInv, NEW h \in Handle, fault = "none", Return(h)
    PROVE  IInv'
<1> DEFINE s == [Self(h) EXCEPT !.exitStatus = h]
<1>1. Self(h) \in Structure /\ (pc[h] \notin {"none", "ended"} => Current(h))
  BY Fields, Lives DEF IInv
<1>2. s \in Structure
  BY <1>1 DEF Structure, Return
<1>3. Moves(h, s, "returned")
  BY <1>1, <1>2, Handles DEF IInv, TypeOK, Moves, Points, LastPoints, ExitPoints, Self,
     Structure, Update, Ends, PendingSeen, Unasked, Free, Current, Return
<1> QED
  BY <1>3, MovesIInv

(* The thread is on its way out.                                           *)
LEMMA ExitIInv ==
    ASSUME IInv, NEW h \in Handle, fault = "none", Exit(h)
    PROVE  IInv'
<1> DEFINE s == [Self(h) EXCEPT !.state = Exiting]
<1>1. Self(h) \in Structure /\ (pc[h] \notin {"none", "ended"} => Current(h))
  BY Fields, Lives DEF IInv
<1>2. s \in Structure
  BY <1>1 DEF Structure, Exit
<1>3. Moves(h, s, "destructors")
  BY <1>1, <1>2, Handles DEF IInv, TypeOK, Moves, Points, LastPoints, ExitPoints, Self,
     Structure, Update, Ends, PendingSeen, Unasked, Free, Current, Exit
<1> QED
  BY <1>3, MovesIInv

(* A cancelation that is acted on.                                         *)
LEMMA ThrowIInv ==
    ASSUME IInv, NEW h \in Handle, fault = "none", Throw(h)
    PROVE  IInv'
<1> DEFINE s == [Self(h) EXCEPT !.state = Exiting, !.exitStatus = PTHREAD_CANCELED]
<1>1. Self(h) \in Structure /\ (pc[h] \notin {"none", "ended"} => Current(h))
  BY Fields, Lives DEF IInv
<1>2. s \in Structure
  <2>1. s = [[Self(h) EXCEPT !.state = Exiting] EXCEPT !.exitStatus = PTHREAD_CANCELED]
    OBVIOUS
  <2>2. [Self(h) EXCEPT !.state = Exiting] \in Structure
    BY <1>1 DEF Structure
  <2> QED
    BY <2>1, <2>2 DEF Structure
<1>3. Moves(h, s, "destructors")
  BY <1>1, <1>2, Handles DEF IInv, TypeOK, Moves, Points, LastPoints, ExitPoints, Self,
     Structure, Update, Ends, PendingSeen, Unasked, Free, Current, Throw
<1> QED
  BY <1>3, MovesIInv

(* The one that comes too late.                                            *)
LEMMA CancelLateIInv ==
    ASSUME IInv, NEW h \in Handle, fault = "none", CancelLate(h)
    PROVE  IInv'
<1> DEFINE s == Self(h)
<1>1. Self(h) \in Structure /\ (pc[h] \notin {"none", "ended"} => Current(h))
  BY Fields, Lives DEF IInv
<1>2. s \in Structure
  BY <1>1 DEF Structure, CancelLate
<1>3. Moves(h, s, "destructors")
  BY <1>1, <1>2, Handles DEF IInv, TypeOK, Moves, Points, LastPoints, ExitPoints, Self,
     Structure, Update, Ends, PendingSeen, Unasked, Free, Current, CancelLate
<1> QED
  BY <1>3, MovesIInv

(* The last state.                                                         *)
LEMMA LastStateIInv ==
    ASSUME IInv, NEW h \in Handle, fault = "none", LastState(h)
    PROVE  IInv'
<1> DEFINE s == [Self(h) EXCEPT !.state = Last]
<1>1. Self(h) \in Structure /\ (pc[h] \notin {"none", "ended"} => Current(h))
  BY Fields, Lives DEF IInv
<1>2. s \in Structure
  BY <1>1 DEF Structure, LastState
<1>3. Moves(h, s, "last")
  BY <1>1, <1>2, Handles DEF IInv, TypeOK, Moves, Points, LastPoints, ExitPoints, Self,
     Structure, Update, Ends, PendingSeen, Unasked, Free, Current, LastState
<1> QED
  BY <1>3, MovesIInv

(* From then on, detachState does not change.                              *)
LEMMA LeaveIInv ==
    ASSUME IInv, NEW h \in Handle, fault = "none", Leave(h) \/ End(h)
    PROVE  IInv'
<1> DEFINE s == Self(h)
<1>1. Self(h) \in Structure /\ (pc[h] \notin {"none", "ended"} => Current(h))
  BY Fields, Lives DEF IInv
<1>2. s \in Structure
  BY <1>1 DEF Structure, Leave, End
<1>3. Moves(h, s, IF pc[h] = "ending" THEN "ended" ELSE IF Self(h).detached THEN "destroy" ELSE "ending")
  BY <1>1, <1>2, Handles DEF IInv, TypeOK, Moves, Points, LastPoints, ExitPoints, Self,
     Structure, Update, Ends, PendingSeen, Unasked, Free, Current, Leave, End
<1> QED
  BY <1>3, MovesIInv

(* pthread_detach of the thread itself, which nobody joins.                *)
LEMMA DetachSelfIInv ==
    ASSUME IInv, NEW h \in Handle, fault = "none", DetachSelf(h)
    PROVE  IInv'
<1> DEFINE s == [Self(h) EXCEPT !.detached = TRUE]
<1>1. Self(h) \in Structure /\ Current(h) /\ Self(h).state # Last
  BY Fields, Lives DEF IInv, DetachSelf, Ends, Self, LastPoints
<1>2. s \in Structure
  BY <1>1 DEF Structure
<1>3. Moves(h, s, "run")
  BY <1>1, <1>2, Handles DEF IInv, TypeOK, Moves, Points, LastPoints, ExitPoints, Self,
     Structure, PendingSeen, Current, DetachSelf, Detach
<1> QED
  BY <1>3, MovesIInv

(***************************************************************************)
(* Steps of callers                                                        *)
(***************************************************************************)
(* A caller goes to the point q with the handle a of a thread.  A thread   *)
(* may have to act on a cancelation.                                       *)
Goes(c, a, q) ==
    /\ pc[c] # "create" /\ q \in Points \ {"create"}
    /\ pc' \in [Callers \cup Handle -> Points]
    /\ pc'[c] = q
    /\ \A d \in Callers \ {c} : pc'[d] = pc[d]
    /\ \A h \in Handle :
          \/ pc'[h] = pc[h]
          \/ pc'[h] = "throw" /\ pc[h] \notin {"none"} \cup LastPoints
    /\ a \in Handle /\ pc[a] # "none"
    /\ arg' = [arg EXCEPT ![c] = a]

(* It writes s to the structure p, which has a thread that has not come to *)
(* its last state, or writes nothing.                                      *)
Writes(p, s) ==
    /\ p \in Structs /\ s \in Structure
    /\ s.x = tp[p].x /\ s.threadH = tp[p].threadH /\ s.exitStatus = tp[p].exitStatus
    /\ tp' = [tp EXCEPT ![p] = s]
    /\ \/ s = tp[p]
       \/ tp[p].threadH # NULL /\ tp[p].state # Last /\ s.state # Last
    /\ UNCHANGED <<pool, result>>

(* It claims a joinable thread that nobody else has claimed, and detaches  *)
(* one that nobody has claimed.                                            *)
Claiming(c, a, q, p, s) ==
    /\ q \in ClaimPoints =>
          /\ Joinable(a)
          /\ q = "joined" => pc[a] = "ended"
          /\ \A d \in Callers \ {c} : ~(pc[d] \in ClaimPoints /\ arg[d] = a)
    /\ \/ s.detached = tp[p].detached
       \/ q \notin ClaimPoints /\ \A d \in Callers \ {c} : ~(pc[d] \in ClaimPoints /\ P(arg[d]) = p)

(* It takes the lock for all that it does to the structure.                *)
Locking(c, a, q, p, s) ==
    \/ pc[c] \notin LockPoints /\ q \notin LockPoints /\ s.stateLock = tp[p].stateLock
    \/ /\ pc[c] \notin LockPoints /\ q \in LockPoints
       /\ P(a) = p /\ tp[p].stateLock = NULL /\ s.stateLock = c
    \/ /\ pc[c] \in LockPoints /\ q \in LockPoints
       /\ P(arg[c]) = p /\ P(a) = p /\ s.stateLock = tp[p].stateLock
    \/ /\ pc[c] \in LockPoints /\ q \notin LockPoints
       /\ P(arg[c]) = p /\ s.stateLock = NULL

(* It asks for a cancelation in the state and then with the event, or makes *)
(* the thread act.                                                         *)
Asking(c, a, q, p, s) ==
    /\ asked' \subseteq Handle
    /\ early' \subseteq Handle /\ early \subseteq early'
    /\ fault = "none" /\ fault' \in {"none", "stray", "orphan", "late"}
    /\ \/ fault' = "stray"
       \/ /\ pc[c] # "cancelSet" /\ q # "cancelSet"
          /\ s.state = tp[p].state /\ s.cancelEvent = tp[p].cancelEvent
       \/ /\ pc[c] # "cancelSet" /\ q = "cancelSet" /\ P(a) = p
          /\ s.state = CancelPending
          /\ \A h \in Handle : P(h) = p /\ pc[h] = "new" => h \in early'
       \/ /\ pc[c] = "cancelSet" /\ q # "cancelSet" /\ P(arg[c]) = p
          /\ s.state = tp[p].state /\ s.cancelEvent
       \/ /\ pc[c] # "cancelSet" /\ q # "cancelSet"
          /\ \A h \in Handle : P(h) = p => pc'[h] \notin {"new", "run", "wait"}

CallerMoves(c, a, q, p, s) ==
    /\ Goes(c, a, q)
    /\ Writes(p, s)
    /\ Claiming(c, a, q, p, s)
    /\ Locking(c, a, q, p, s)
    /\ Asking(c, a, q, p, s)

(* A step in which one caller moves and may write one structure.           *)
LEMMA CallerMovesIInv ==
    ASSUME IInv, NEW c \in Callers, NEW a, NEW q, NEW p, NEW s, CallerMoves(c, a, q, p, s)
    PROVE  IInv'
<1>1. /\ \A d \in Callers \ {c} : pc'[d] = pc[d] /\ arg'[d] = arg[d]
      /\ pc'[c] = q /\ arg'[c] = a
      /\ \A r \in Structs \ {p} : tp'[r] = tp[r]
      /\ tp'[p] = s
      /\ \A r \in Structs : /\ tp'[r].x = tp[r].x
                            /\ tp'[r].threadH = tp[r].threadH
                            /\ tp'[r].exitStatus = tp[r].exitStatus
  BY DEF CallerMoves, Goes, Writes, Claiming, Locking, Asking, IInv, TypeOK
<1>2. \A g \in Handle : Current(g)' <=> Current(g)
  BY <1>1, Handles DEF CallerMoves, Goes, Writes, Claiming, Locking, Asking, IInv, Current
<1>3. \A h \in Handle : pc'[h] = "none" <=> pc[h] = "none"
  BY DEF CallerMoves, Goes, Writes, Claiming, Locking, Asking, IInv
<1>4. TypeOK'
  <2>1. arg' \in [Callers -> Handle \cup {NULL}]
    BY DEF CallerMoves, Goes, Writes, Claiming, Locking, Asking, IInv, TypeOK
  <2> QED
    BY <2>1 DEF CallerMoves, Goes, Writes, Claiming, Locking, Asking, IInv, TypeOK
<1>5. Generations'
  <2>1. ASSUME NEW g \in Handle
        PROVE  /\ pc'[g] \notin {"none", "ended"} => Current(g)'
               /\ pc'[g] # "none" => X(g) <= tp'[P(g)].x
               /\ Current(g)' => (tp'[P(g)].threadH = g <=> pc'[g] # "none")
    BY <1>1, <1>2, <1>3, Handles DEF CallerMoves, Goes, Writes, Claiming, Locking, Asking,
       IInv, Generations, LastPoints
  <2>2. ASSUME NEW r \in Structs, tp'[r].threadH # NULL
        PROVE  P(tp'[r].threadH) = r /\ tp'[r].x = X(tp'[r].threadH)
    BY <1>1, <2>2 DEF CallerMoves, Goes, Writes, Claiming, Locking, Asking, IInv,
       Generations, Current
  <2> QED
    BY <2>1, <2>2 DEF CallerMoves, Goes, Writes, Claiming, Locking, Asking, IInv,
       Generations, Current
<1>6. Pooled'
  <2>1. \A r \in Structs : tp[r].threadH = NULL => tp'[r] = tp[r]
    BY <1>1 DEF CallerMoves, Goes, Writes, Claiming, Locking, Asking, IInv
  <2> QED
    BY <1>1, <2>1 DEF CallerMoves, Goes, Writes, Claiming, Locking, Asking, IInv, Pooled,
       Listed
<1>7. Creating'
  <2>1. \A d \in Callers : pc[d] = "create" => arg[d] \in Handle
    BY DEF CallerMoves, Goes, Writes, Claiming, Locking, Asking, IInv, Creating
  <2> QED
    BY <1>1, <1>2, <2>1, Handles DEF CallerMoves, Goes, Writes, Claiming, Locking, Asking,
       IInv, Creating, Listed
<1>8. Named'
  BY <1>1, <1>3 DEF CallerMoves, Goes, Writes, Claiming, Locking, Asking, IInv, Named
<1>9. Claims'
  <2>1. /\ \A d \in Callers : pc[d] \in ClaimPoints => arg[d] \in Handle /\ Joinable(arg[d])
        /\ \A d \in Callers : pc[d] = "joined" => arg[d] \in Handle /\ pc[arg[d]] = "ended"
        /\ \A d, e \in Callers :
              pc[d] \in ClaimPoints /\ pc[e] \in ClaimPoints /\ arg[e] = arg[d] => e = d
    BY DEF IInv, Named, Claims, ClaimPoints
  <2>2. /\ q \in ClaimPoints => a \in Handle /\ Joinable(a)
        /\ q = "joined" => a \in Handle /\ pc[a] = "ended"
        /\ q \in ClaimPoints => \A d \in Callers \ {c} : ~(pc[d] \in ClaimPoints /\ arg[d] = a)
    BY DEF CallerMoves, Goes, Writes, Claiming, Locking, Asking, ClaimPoints
  <2>3. \A g \in Handle : pc[g] = "ended" => pc'[g] = "ended"
    BY DEF CallerMoves, Goes, Writes, Claiming, Locking, Asking, LastPoints
  <2>4. \/ s.detached = tp[p].detached
        \/ q \notin ClaimPoints /\ \A d \in Callers \ {c} : ~(pc[d] \in ClaimPoints /\ P(arg[d]) = p)
    BY DEF CallerMoves, Goes, Writes, Claiming, Locking, Asking
  <2>5. ASSUME NEW d \in Callers, pc'[d] \in ClaimPoints PROVE Joinable(arg[d])'
    BY <1>1, <1>2, <2>1, <2>2, <2>4, <2>5, Handles DEF Joinable, Current
  <2>6. ASSUME NEW d \in Callers, pc'[d] = "joined" PROVE pc'[arg'[d]] = "ended"
    BY <1>1, <2>1, <2>2, <2>3, <2>6
  <2>7. ASSUME NEW d \in Callers, NEW e \in Callers,
               pc'[d] \in ClaimPoints, pc'[e] \in ClaimPoints, arg'[e] = arg'[d]
        PROVE  e = d
    BY <1>1, <2>1, <2>2, <2>7
  <2> QED
    BY <2>5, <2>6, <2>7 DEF Claims
<1>10. Locks'
  BY <1>1 DEF CallerMoves, Goes, Writes, Claiming, Locking, Asking, IInv, Locks, TypeOK,
     Structure
<1>11. Ends'
  BY <1>1, <1>2, Handles DEF CallerMoves, Goes, Writes, Claiming, Locking, Asking, IInv,
     Ends, LastPoints, ExitPoints
<1>12. Unasked' /\ PendingSeen'
  <2>1. CASE fault' = "stray"
    BY <2>1 DEF Unasked, PendingSeen
  <2>2. CASE fault' # "stray"
    <3>1. \A r \in Structs \ {p} : SettingEvent(r)' <=> SettingEvent(r)
      BY <1>1, <2>2 DEF CallerMoves, Goes, Asking, SettingEvent
    <3>2. /\ q = "cancelSet" => SettingEvent(p)'
          /\ pc[c] = "cancelSet" => SettingEvent(p)
          /\ pc[c] # "cancelSet" /\ q # "cancelSet" => (SettingEvent(p)' <=> SettingEvent(p))
      BY <1>1, <2>2 DEF CallerMoves, Goes, Asking, SettingEvent
    <3>3. \A h \in Handle : pc'[h] \in {"new", "run", "wait"} => pc'[h] = pc[h]
      BY DEF CallerMoves, Goes
    <3>4. ASSUME NEW h \in Handle \ early', pc'[h] = "new"
          PROVE  ~tp'[P(h)].cancelEvent /\ ~SettingEvent(P(h))'
      BY <1>1, <2>2, <3>1, <3>2, <3>3, <3>4, Handles DEF CallerMoves, Asking, IInv, Unasked
    <3>5. ASSUME NEW h \in Handle \ early', pc'[h] \in {"run", "wait"}
          PROVE  tp'[P(h)].state = CancelPending
                     <=> tp'[P(h)].cancelEvent \/ SettingEvent(P(h))'
      BY <1>1, <2>2, <3>1, <3>2, <3>3, <3>5, Handles DEF CallerMoves, Asking, IInv,
         PendingSeen
    <3> QED
      BY <3>4, <3>5 DEF Unasked, PendingSeen
  <2> QED
    BY <2>1, <2>2
<1> QED
  BY <1>4, <1>5, <1>6, <1>7, <1>8, <1>9, <1>10, <1>11, <1>12 DEF IInv

(* A handle that was ever given out, and its structure.                    *)
LEMMA Known ==
    ASSUME IInv, NEW h \in Handle, pc[h] # "none"
    PROVE  /\ P(h) \in Structs /\ tp[P(h)] \in Structure
           /\ tp[P(h)].threadH = NULL => tp[P(h)].state = Reuse
           /\ Current(h) => tp[P(h)].threadH = h
           /\ Terminated(P(h)) /\ Current(h) => pc[h] = "ended"
           /\ pc[h] \in {"new", "run", "wait"} => Current(h)
<1>1. /\ P(h) \in Structs /\ X(h) \in 0..MaxX /\ tp[P(h)] \in Structure /\ X(h) <= tp[P(h)].x
      /\ Current(h) => tp[P(h)].threadH = h
      /\ pc[h] \in {"new", "run", "wait"} => Current(h)
  BY Handles, Fields DEF IInv, Generations
<1>2. tp[P(h)].threadH = NULL => tp[P(h)].state = Reuse
  BY <1>1 DEF IInv, Pooled, Current, Structure
<1> QED
  BY <1>1, <1>2 DEF Terminated

(* Who waits for a thread knows that it stays joinable.                    *)
LEMMA JoinIInv ==
    ASSUME IInv, fault = "none", NEW c \in Callers, NEW h \in Handle,
           Join(c, h) \/ CancelCheck(c, h)
    PROVE  IInv'
<1>1. tp[P(h)] \in Structure /\ P(h) \in Structs /\ tp = [tp EXCEPT ![P(h)] = tp[P(h)]]
  BY Handles, Fields DEF IInv, TypeOK
<1>2. CASE Join(c, h)
  <2>1. CallerMoves(c, h, "joinWait", P(h), tp[P(h)])
    BY <1>1, <1>2, Apart DEF CallerMoves, IInv, TypeOK, Goes, Points, Join, Begin, Claimed,
       Writes, Structure, Claiming, ClaimPoints, Locking, LockPoints, Asking
  <2> QED
    BY <2>1, CallerMovesIInv
<1>3. CASE CancelCheck(c, h)
  <2>1. CallerMoves(c, h, "cancel", P(h), tp[P(h)])
    BY <1>1, <1>3, Apart DEF CallerMoves, IInv, TypeOK, Goes, Points, CancelCheck, Begin,
       Writes, Structure, Claiming, ClaimPoints, Locking, LockPoints, Asking
  <2> QED
    BY <2>1, CallerMovesIInv
<1> QED
  BY <1>2, <1>3

(* pthread_join finds that its thread has ended, or is canceled waiting.   *)
LEMMA JoinedIInv ==
    ASSUME IInv, fault = "none", NEW c \in Callers, JoinReady(c) \/ JoinCanceled(c)
    PROVE  IInv'
<1> DEFINE h == arg[c]
<1>1. /\ h \in Handle /\ pc[h] # "none" /\ Joinable(h)
      /\ \A d \in Callers \ {c} : ~(pc[d] \in ClaimPoints /\ arg[d] = h)
  BY DEF IInv, Named, Claims, ClaimPoints, JoinReady, JoinCanceled
<1>2. tp[P(h)] \in Structure /\ P(h) \in Structs /\ tp = [tp EXCEPT ![P(h)] = tp[P(h)]]
  BY <1>1, Known DEF IInv, TypeOK
<1>3. arg = [arg EXCEPT ![c] = h]
  BY DEF IInv, TypeOK
<1>4. CASE JoinReady(c)
  <2>1. pc[h] = "ended"
    BY <1>1, <1>4, Known DEF JoinReady, Joinable
  <2>2. CallerMoves(c, h, "joined", P(h), tp[P(h)])
    BY <1>1, <1>2, <1>3, <1>4, <2>1, Apart DEF CallerMoves, IInv, TypeOK, Goes, Points,
       JoinReady, Writes, Structure, Claiming, ClaimPoints, Locking, LockPoints, Asking
  <2> QED
    BY <2>2, CallerMovesIInv
<1>5. CASE JoinCanceled(c)
  <2>1. CallerMoves(c, h, "idle", P(h), tp[P(h)])
    BY <1>1, <1>2, <1>3, <1>5, Apart DEF CallerMoves, IInv, TypeOK, Goes, Points,
       JoinCanceled, Writes, Structure, Claiming, ClaimPoints, Locking, LockPoints, Asking
  <2> QED
    BY <2>1, CallerMovesIInv
<1> QED
  BY <1>4, <1>5

(* Under stateLock, pthread_detach leaves the structure to the thread or   *)
(* takes it upon itself.                                                   *)
LEMMA DetachIInv ==
    ASSUME IInv, fault = "none", NEW c \in Callers, NEW h \in Handle,
           DetachOther(c, h) \/ (DetachJoined(c) /\ h = arg[c])
    PROVE  IInv'
<1> DEFINE s == [tp[P(h)] EXCEPT !.detached = TRUE]
<1>1. /\ pc[c] \notin {"create"} \cup LockPoints
      /\ pc[h] # "none" /\ Joinable(h)
      /\ \A d \in Callers \ {c} : ~(pc[d] \in ClaimPoints /\ arg[d] = h)
      /\ arg' = [arg EXCEPT ![c] = h]
  BY DEF IInv, TypeOK, Named, Claims, Claimed, ClaimPoints, LockPoints, DetachOther,
     DetachJoined, Detach
<1>2. tp[P(h)] \in Structure /\ P(h) \in Structs /\ tp[P(h)].threadH = h
  BY <1>1, Known DEF Joinable
<1>3. \A d \in Callers \ {c} : ~(pc[d] \in ClaimPoints /\ P(arg[d]) = P(h))
  BY <1>1, Handles DEF IInv, Named, Claims, Joinable, Current
<1>4. CASE tp[P(h)].state # Last
  <2>1. s \in Structure
    BY <1>2 DEF Structure
  <2>2. CallerMoves(c, h, "idle", P(h), s)
    <3>1. Goes(c, h, "idle")
      BY <1>1, <1>2, <1>3, <1>4, <2>1, Apart DEF IInv, TypeOK, Goes, Points, DetachOther,
         DetachJoined, Detach
    <3>2. Writes(P(h), s)
      BY <1>1, <1>2, <1>3, <1>4, <2>1 DEF Writes, Structure, DetachOther, DetachJoined,
         Detach
    <3>3. Claiming(c, h, "idle", P(h), s)
      BY <1>1, <1>2, <1>3, <1>4, <2>1 DEF Claiming, ClaimPoints, DetachOther, DetachJoined,
         Detach
    <3>4. Locking(c, h, "idle", P(h), s)
      BY <1>1, <1>2, <1>3, <1>4, <2>1 DEF Locking, LockPoints, Structure, DetachOther,
         DetachJoined,
         Detach
    <3>5. Asking(c, h, "idle", P(h), s)
      BY <1>1, <1>2, <1>3, <1>4, <2>1 DEF IInv, TypeOK, Asking, Structure, DetachOther,
         DetachJoined, Detach
    <3> QED
      BY <3>1, <3>2, <3>3, <3>4, <3>5 DEF CallerMoves
  <2> QED
    BY <2>2, CallerMovesIInv
<1>5. CASE tp[P(h)].state = Last
  <2>1. tp' = [tp EXCEPT ![P(h)] = tp[P(h)]]
    BY <1>2, <1>5 DEF IInv, TypeOK, DetachOther, DetachJoined, Detach
  <2>2. CallerMoves(c, h, "detachWait", P(h), tp[P(h)])
    <3>1. Goes(c, h, "detachWait")
      BY <1>1, <1>2, <1>3, <1>5, <2>1, Apart DEF IInv, TypeOK, Goes, Points, DetachOther,
         DetachJoined, Detach
    <3>2. Writes(P(h), tp[P(h)])
      BY <1>1, <1>2, <1>3, <1>5, <2>1 DEF Writes, DetachOther, DetachJoined, Detach
    <3>3. Claiming(c, h, "detachWait", P(h), tp[P(h)])
      BY <1>1, <1>2, <1>3, <1>5, <2>1 DEF Claiming, ClaimPoints, DetachOther, DetachJoined,
         Detach
    <3>4. Locking(c, h, "detachWait", P(h), tp[P(h)])
      BY <1>1, <1>2, <1>3, <1>5, <2>1 DEF Locking, LockPoints, DetachOther, DetachJoined,
         Detach
    <3>5. Asking(c, h, "detachWait", P(h), tp[P(h)])
      BY <1>1, <1>2, <1>3, <1>5, <2>1 DEF IInv, TypeOK, Asking, DetachOther, DetachJoined,
         Detach
    <3> QED
      BY <3>1, <3>2, <3>3, <3>4, <3>5 DEF CallerMoves
  <2> QED
    BY <2>2, CallerMovesIInv
<1> QED
  BY <1>4, <1>5

(* A request takes the lock only of a structure with a thread.             *)
LEMMA CancelLockIInv ==
    ASSUME IInv, fault = "none", NEW c \in Callers, CancelLock(c)
    PROVE  IInv'
<1> DEFINE h == arg[c]
           p == P(h)
           s == [tp[p] EXCEPT !.stateLock = c]
           q == IF Asynchronous(tp[p]) THEN "cancelSuspend" ELSE "cancelMark"
<1>1. h \in Handle /\ pc[h] # "none" /\ arg = [arg EXCEPT ![c] = h]
  BY DEF IInv, TypeOK, Named, CancelLock
<1>2. p \in Structs /\ tp[p] \in Structure /\ (tp[p].threadH = NULL => tp[p].state = Reuse)
  BY <1>1, Known
<1>3. CASE Asynchronous(tp[p]) \/ tp[p].state < CancelPending
  <2>1. s \in Structure
    BY <1>2 DEF Structure
  <2>2. CallerMoves(c, h, q, p, s)
    <3>1. Goes(c, h, q)
      <4>1. pc[c] = "cancel" /\ pc' = [pc EXCEPT ![c] = q] /\ q \in Points \ {"create"}
        BY <1>3 DEF CancelLock, Points
      <4>2. arg' = [arg EXCEPT ![c] = h]
        BY <1>1 DEF CancelLock
      <4> QED
        BY <1>1, <4>1, <4>2, Apart DEF IInv, TypeOK, Goes
    <3>2. Writes(p, s)
      BY <1>1, <1>2, <1>3, <2>1 DEF Writes, Structure, CancelLock, Free,
         Asynchronous
    <3>3. Claiming(c, h, q, p, s)
      BY <1>1, <1>2, <1>3, <2>1 DEF Claiming, ClaimPoints, CancelLock, Free,
         Asynchronous
    <3>4. Locking(c, h, q, p, s)
      BY <1>1, <1>2, <1>3, <2>1 DEF Locking, LockPoints, Structure, CancelLock, Free,
         Asynchronous
    <3>5. Asking(c, h, q, p, s)
      BY <1>1, <1>2, <1>3, <2>1 DEF IInv, TypeOK, Asking, Structure, CancelLock, Free,
         Asynchronous
    <3> QED
      BY <3>1, <3>2, <3>3, <3>4, <3>5 DEF CallerMoves
  <2> QED
    BY <2>2, CallerMovesIInv
<1>4. CASE ~(Asynchronous(tp[p]) \/ tp[p].state < CancelPending)
  <2>1. tp' = [tp EXCEPT ![p] = tp[p]]
    BY <1>2, <1>4 DEF IInv, TypeOK, CancelLock
  <2>2. CallerMoves(c, h, "idle", p, tp[p])
    <3>1. Goes(c, h, "idle")
      BY <1>1, <1>4, Apart DEF IInv, TypeOK, Goes, Points, CancelLock
    <3>2. Writes(p, tp[p])
      BY <1>2, <2>1 DEF Writes, CancelLock
    <3>3. Claiming(c, h, "idle", p, tp[p])
      BY DEF Claiming, ClaimPoints
    <3>4. Locking(c, h, "idle", p, tp[p])
      BY DEF Locking, LockPoints, CancelLock
    <3>5. Asking(c, h, "idle", p, tp[p])
      BY DEF IInv, TypeOK, Asking, CancelLock
    <3> QED
      BY <3>1, <3>2, <3>3, <3>4, <3>5 DEF CallerMoves
  <2> QED
    BY <2>2, CallerMovesIInv
<1> QED
  BY <1>3, <1>4

(* While the lock is held, the thread does not get to its last state.      *)
LEMMA Holder ==
    ASSUME IInv, NEW c \in Callers, pc[c] \in LockPoints
    PROVE  /\ arg[c] \in Handle /\ pc[arg[c]] # "none" /\ arg = [arg EXCEPT ![c] = arg[c]]
           /\ P(arg[c]) \in Structs
           /\ tp[P(arg[c])] \in Structure
           /\ tp[P(arg[c])].stateLock = c /\ tp[P(arg[c])].state # Last
           /\ tp[P(arg[c])].threadH \in Handle /\ tp[P(arg[c])].threadH # NULL
           /\ P(tp[P(arg[c])].threadH) = P(arg[c])
           /\ Current(tp[P(arg[c])].threadH)
           /\ pc[tp[P(arg[c])].threadH] \notin {"none"} \cup LastPoints
<1> DEFINE h == arg[c]
           p == P(h)
<1>1. h \in Handle /\ pc[h] # "none" /\ arg = [arg EXCEPT ![c] = h]
  BY DEF IInv, TypeOK, Named
<1>2. p \in Structs /\ tp[p] \in Structure /\ tp[p].stateLock = c
  BY <1>1, Known DEF IInv, Locks
<1>3. tp[p].threadH # NULL /\ tp[p].threadH \in Handle
  BY <1>2 DEF IInv, Pooled, Structure
<1>4. P(tp[p].threadH) = p /\ Current(tp[p].threadH)
  BY <1>2, <1>3 DEF IInv, Generations
<1>5. pc[tp[p].threadH] \notin {"none"} \cup LastPoints
  BY <1>2, <1>3, <1>4 DEF IInv, Ends, Generations
<1>6. tp[p].state # Last
  BY <1>2, <1>3, <1>4, <1>5 DEF IInv, Ends
<1> QED
  BY <1>1, <1>2, <1>3, <1>4, <1>5, <1>6

(* A thread that is made to act was running.                               *)
LEMMA CancelAsyncIInv ==
    ASSUME IInv, fault = "none", NEW c \in Callers, CancelAsync(c)
    PROVE  IInv'
<1> DEFINE h == arg[c]
           p == P(h)
           t == tp[p].threadH
           s == [Acting(tp[p]) EXCEPT !.stateLock = NULL]
<1>1. /\ h \in Handle /\ pc[h] # "none" /\ arg = [arg EXCEPT ![c] = h]
      /\ p \in Structs /\ tp[p] \in Structure
      /\ tp[p].stateLock = c /\ tp[p].state # Last
      /\ t \in Handle /\ t # NULL /\ P(t) = p /\ Current(t)
      /\ pc[t] \notin {"none"} \cup LastPoints
  BY Holder DEF CancelAsync, LockPoints
<1>2. s \in Structure
  BY <1>1, Requests DEF Structure
<1>3. \A g \in Handle : P(g) = p /\ g # t => pc[g] \notin {"new", "run", "wait"}
  BY <1>1, Known, Handles DEF Current
<1>4. CallerMoves(c, h, "idle", p, s)
  <2>1. Goes(c, h, "idle")
    BY <1>1, Apart DEF IInv, TypeOK, Goes, Points, CancelAsync
  <2>2. Writes(p, s)
    BY <1>1, <1>2 DEF Writes, Structure, CancelAsync, Acting
  <2>3. Claiming(c, h, "idle", p, s)
    BY <1>1 DEF Claiming, ClaimPoints, Structure, Acting
  <2>4. Locking(c, h, "idle", p, s)
    BY <1>1, <1>2 DEF Locking, LockPoints, Structure, CancelAsync, Acting
  <2>5. Asking(c, h, "idle", p, s)
    BY <1>1, <1>3, Apart DEF IInv, TypeOK, Asking, CancelAsync
  <2> QED
    BY <2>1, <2>2, <2>3, <2>4, <2>5 DEF CallerMoves
<1> QED
  BY <1>4, CallerMovesIInv

(* The state is set, and says so to a thread that tests.                   *)
LEMMA CancelMarkIInv ==
    ASSUME IInv, fault = "none", NEW c \in Callers, CancelMark(c)
    PROVE  IInv'
<1> DEFINE h == arg[c]
           p == P(h)
           s == [tp[p] EXCEPT !.state = CancelPending]
<1>1. /\ h \in Handle /\ pc[h] # "none" /\ arg = [arg EXCEPT ![c] = h]
      /\ p \in Structs /\ tp[p] \in Structure
      /\ tp[p].state # Last /\ tp[p].threadH # NULL
  BY Holder DEF CancelMark, LockPoints
<1>2. s \in Structure
  BY <1>1 DEF Structure
<1>3. \A g \in Handle : P(g) = p /\ pc[g] = "new" /\ Current(h) => g = h
  BY <1>1, Known, Handles DEF Current
<1>4. CallerMoves(c, h, "cancelSet", p, s)
  <2>1. Goes(c, h, "cancelSet")
    BY <1>1, Apart DEF IInv, TypeOK, Goes, Points, CancelMark
  <2>2. Writes(p, s)
    BY <1>1, <1>2 DEF Writes, Structure, CancelMark
  <2>3. Claiming(c, h, "cancelSet", p, s)
    BY <1>1 DEF Claiming, ClaimPoints, Structure
  <2>4. Locking(c, h, "cancelSet", p, s)
    BY <1>1, <1>2 DEF Locking, LockPoints, Structure, CancelMark
  <2>5. Asking(c, h, "cancelSet", p, s)
    BY <1>1, <1>2, <1>3 DEF IInv, TypeOK, Asking, Structure, CancelMark
  <2> QED
    BY <2>1, <2>2, <2>3, <2>4, <2>5 DEF CallerMoves
<1> QED
  BY <1>4, CallerMovesIInv

(* The event is set, for a thread whose state is.                          *)
LEMMA CancelSetIInv ==
    ASSUME IInv, fault = "none", NEW c \in Callers, CancelSet(c)
    PROVE  IInv'
<1> DEFINE h == arg[c]
           p == P(h)
           s == [tp[p] EXCEPT !.cancelEvent = TRUE, !.stateLock = NULL]
<1>1. /\ h \in Handle /\ pc[h] # "none" /\ arg = [arg EXCEPT ![c] = h]
      /\ p \in Structs /\ tp[p] \in Structure
      /\ tp[p].state # Last /\ tp[p].threadH # NULL
  BY Holder DEF CancelSet, LockPoints
<1>2. s \in Structure
  BY <1>1 DEF Structure
<1>3. tp' = [tp EXCEPT ![p] = s]
  BY <1>1 DEF IInv, TypeOK, CancelSet
<1>4. CallerMoves(c, h, "idle", p, s)
  <2>1. Goes(c, h, "idle")
    BY <1>1, Apart DEF IInv, TypeOK, Goes, Points, CancelSet
  <2>2. Writes(p, s)
    BY <1>1, <1>2, <1>3 DEF Writes, Structure, CancelSet
  <2>3. Claiming(c, h, "idle", p, s)
    BY <1>1 DEF Claiming, ClaimPoints, Structure
  <2>4. Locking(c, h, "idle", p, s)
    BY <1>1, <1>2 DEF Locking, LockPoints, Structure, CancelSet
  <2>5. Asking(c, h, "idle", p, s)
    BY <1>1, <1>2 DEF IInv, TypeOK, Asking, Structure, CancelSet
  <2> QED
    BY <2>1, <2>2, <2>3, <2>4, <2>5 DEF CallerMoves
<1> QED
  BY <1>4, CallerMovesIInv

(***************************************************************************)
(* Steps that give structures out and take them back                       *)
(***************************************************************************)
(* What is taken off the top of the reuse list is no longer in it.         *)
LEMMA TailListed ==
    ASSUME reuse \in Seq(Structs), reuse # <<>>, reuse' = Tail(reuse),
           \A i, j \in DOMAIN reuse : reuse[i] = reuse[j] => i = j
    PROVE  /\ Head(reuse) \in Structs /\ Listed(Head(reuse))
           /\ reuse' \in Seq(Structs)
           /\ \A p \in Structs : Listed(p)' <=> Listed(p) /\ p # Head(reuse)
           /\ \A i, j \in DOMAIN reuse' : reuse'[i] = reuse'[j] => i = j
<1>1. /\ Len(reuse) \in Nat \ {0} /\ DOMAIN reuse = 1..Len(reuse)
      /\ Head(reuse) = reuse[1] /\ Head(reuse) \in Structs
      /\ reuse' \in Seq(Structs)
      /\ DOMAIN reuse' = 1..Len(reuse) - 1
      /\ \A i \in 1..Len(reuse) - 1 : reuse'[i] = reuse[i + 1]
  OBVIOUS
<1>2. \A i \in DOMAIN reuse' : i + 1 \in DOMAIN reuse /\ reuse'[i] = reuse[i + 1] /\ i + 1 # 1
  BY <1>1
<1>3. \A i \in DOMAIN reuse : i # 1 => i - 1 \in DOMAIN reuse' /\ reuse'[i - 1] = reuse[i]
  BY <1>1
<1>4. 1 \in DOMAIN reuse /\ Listed(Head(reuse))
  BY <1>1 DEF Listed
<1>5. \A p \in Structs : Listed(p)' <=> Listed(p) /\ p # Head(reuse)
  <2>1. ASSUME NEW p \in Structs, NEW i \in DOMAIN reuse', reuse'[i] = p
        PROVE  Listed(p) /\ p # Head(reuse)
    BY <1>1, <1>2, <1>4, <2>1 DEF Listed
  <2>2. ASSUME NEW p \in Structs, Listed(p), p # Head(reuse)
        PROVE  \E i \in DOMAIN reuse' : reuse'[i] = p
    <3>1. PICK i \in DOMAIN reuse : reuse[i] = p
      BY <2>2 DEF Listed
    <3>2. i # 1
      BY <1>1, <2>2, <3>1
    <3> QED
      BY <1>3, <3>1, <3>2
  <2> QED
    BY <2>1, <2>2 DEF Listed
<1>6. \A i, j \in DOMAIN reuse' : reuse'[i] = reuse'[j] => i = j
  <2> SUFFICES ASSUME NEW i \in DOMAIN reuse', NEW j \in DOMAIN reuse', reuse'[i] = reuse'[j]
               PROVE  i = j
    OBVIOUS
  <2>1. i + 1 = j + 1 /\ i \in Int /\ j \in Int
    BY <1>1, <1>2
  <2> QED
    BY <2>1
<1> QED
  BY <1>1, <1>4, <1>5, <1>6

(* What is pushed is in the list, once.                                    *)
LEMMA AppendListed ==
    ASSUME reuse \in Seq(Structs), NEW p \in Structs, ~Listed(p), reuse' = Append(reuse, p),
           \A i, j \in DOMAIN reuse : reuse[i] = reuse[j] => i = j
    PROVE  /\ reuse' \in Seq(Structs)
           /\ \A r \in Structs : Listed(r)' <=> Listed(r) \/ r = p
           /\ \A i, j \in DOMAIN reuse' : reuse'[i] = reuse'[j] => i = j
<1>1. /\ Len(reuse) \in Nat /\ DOMAIN reuse = 1..Len(reuse)
      /\ reuse' \in Seq(Structs)
      /\ DOMAIN reuse' = 1..Len(reuse) + 1
      /\ reuse'[Len(reuse) + 1] = p
      /\ \A i \in DOMAIN reuse : reuse'[i] = reuse[i]
  OBVIOUS
<1>2. DOMAIN reuse' = DOMAIN reuse \cup {Len(reuse) + 1}
  BY <1>1
<1>3. \A i \in DOMAIN reuse : reuse'[i] # p
  BY <1>1 DEF Listed
<1>4. \A r \in Structs : Listed(r)' <=> Listed(r) \/ r = p
  BY <1>1, <1>2 DEF Listed
<1>5. \A i, j \in DOMAIN reuse' : reuse'[i] = reuse'[j] => i = j
  BY <1>1, <1>2, <1>3
<1> QED
  BY <1>1, <1>4, <1>5

(* A structure goes back to the list when no thread is left in it and      *)
(* nobody means it any more, and then its lock is free.                    *)
Returns(p) ==
    /\ p \in Structs
    /\ tp[p].x \in 0..MaxX
    /\ tp[p].stateLock = NULL
    /\ p \notin fresh /\ ~Listed(p)
    /\ pc' \in [Callers \cup Handle -> Points]
    /\ \A h \in Handle : P(h) = p => pc'[h] \in {"none", "ended"}
    /\ \A h \in Handle : P(h) # p => pc'[h] = pc[h]
    /\ \A h \in Handle : pc[h] # "none" => pc'[h] # "none"
    /\ \A h \in Handle : pc[h] = "ended" => pc'[h] = "ended"
    /\ \A h \in Handle : P(h) = p /\ X(h) > tp[p].x => pc'[h] = "none"
    /\ \A c \in Callers :
          \/ pc'[c] = pc[c] /\ ~(pc[c] \in ClaimPoints \cup {"create"} /\ P(arg[c]) = p)
          \/ pc'[c] = "idle" /\ pc[c] \notin LockPoints
    /\ fault = "none"

(* A structure that nobody has a claim on goes to the reuse list.          *)
LEMMA PushIInv ==
    ASSUME IInv, NEW p, Returns(p), Push(p)
    PROVE  IInv'
<1> DEFINE s == [Zero(tp[p].x + 1) EXCEPT !.state = Reuse]
<1>1. /\ p \in Structs
      /\ s \in Structure
      /\ tp' = [tp EXCEPT ![p] = s]
      /\ reuse' = Append(reuse, p)
      /\ UNCHANGED <<fresh, arg, result, asked, early, fault>>
      /\ s.x = tp[p].x + 1 /\ s.state = Reuse /\ s.threadH = NULL /\ s.stateLock = NULL
  <2>1. p \in Structs /\ tp[p].x + 1 \in 0..MaxX + 1
    BY DEF Returns
  <2>2. Zero(tp[p].x + 1) \in Structure
    BY <2>1 DEF Zero, Structure
  <2>3. /\ s \in Structure
        /\ s.x = tp[p].x + 1 /\ s.state = Reuse /\ s.threadH = NULL /\ s.stateLock = NULL
    <3>1. s \in Structure
      BY <2>2 DEF Structure
    <3> QED
      BY <3>1 DEF Zero
  <2>4. /\ tp' = [tp EXCEPT ![p] = s]
        /\ reuse' = Append(reuse, p)
        /\ UNCHANGED <<fresh, arg, result, asked, early, fault>>
    BY <2>1 DEF IInv, TypeOK, Returns, Push, Free
  <2> QED
    BY <2>1, <2>3, <2>4
<1> HIDE DEF s
<1>2. /\ \A r \in Structs \ {p} : tp'[r] = tp[r]
      /\ tp'[p] = s
      /\ \A h \in Handle : P(h) # p => (Current(h)' <=> Current(h)) /\ tp'[P(h)] = tp[P(h)] /\ pc'[h] = pc[h]
      /\ \A h \in Handle : P(h) = p /\ Current(h)' => pc'[h] = "none" /\ X(h) = tp[p].x + 1
  BY <1>1, Handles DEF IInv, TypeOK, Current, Returns
<1>3. /\ reuse' \in Seq(Structs)
      /\ \A r \in Structs : Listed(r)' <=> Listed(r) \/ r = p
      /\ \A i, j \in DOMAIN reuse' : reuse'[i] = reuse'[j] => i = j
  BY <1>1, AppendListed DEF IInv, TypeOK, Pooled, Returns
<1>4. TypeOK'
  BY <1>1, <1>3 DEF IInv, TypeOK, Returns
<1>5. Generations'
  <2>1. ASSUME NEW g \in Handle
        PROVE  /\ pc'[g] \notin {"none", "ended"} => Current(g)'
               /\ pc'[g] # "none" => X(g) <= tp'[P(g)].x
               /\ Current(g)' => (tp'[P(g)].threadH = g <=> pc'[g] # "none")
    <3>1. CASE P(g) # p
      BY <1>2, <3>1 DEF IInv, Generations
    <3>2. CASE P(g) = p
      <4>1. pc'[g] \in {"none", "ended"} /\ (X(g) > tp[p].x => pc'[g] = "none")
        BY <3>2 DEF Returns
      <4>2. X(g) \in Int /\ tp[p].x \in Int
        BY Handles DEF Returns
      <4>3. tp'[P(g)] = s /\ g # NULL
        BY <1>2, <3>2
      <4> QED
        BY <1>1, <1>2, <3>2, <4>1, <4>2, <4>3
    <3> QED
      BY <3>1, <3>2
  <2>2. ASSUME NEW r \in Structs, tp'[r].threadH # NULL
        PROVE  P(tp'[r].threadH) = r /\ tp'[r].x = X(tp'[r].threadH)
    BY <1>1, <1>2, <2>2 DEF IInv, Generations, Current
  <2> QED
    BY <2>1, <2>2 DEF Generations, Current
<1>6. Pooled'
  BY <1>1, <1>2, <1>3 DEF IInv, Pooled, Returns
<1>7. Creating'
  <2>1. \A c \in Callers : pc'[c] = "create" => pc[c] = "create" /\ P(arg[c]) # p /\ arg[c] \in Handle
    BY DEF IInv, Creating, Returns
  <2> QED
    BY <1>1, <1>2, <1>3, <2>1, Handles DEF IInv, Creating
<1>8. Named'
  <2>1. ASSUME NEW c \in Callers, pc'[c] \in ClaimPoints \cup {"cancel"} \cup LockPoints
        PROVE  pc'[c] = pc[c] /\ arg[c] \in Handle /\ pc[arg[c]] # "none"
    BY <2>1 DEF IInv, Named, Returns, ClaimPoints, LockPoints
  <2>2. \A h \in Handle : pc[h] # "none" => pc'[h] # "none"
    BY DEF Returns
  <2> QED
    BY <1>1, <2>1, <2>2 DEF Named
<1>9. Claims'
  <2>1. \A c \in Callers :
          pc'[c] \in ClaimPoints => pc'[c] = pc[c] /\ P(arg[c]) # p /\ arg[c] \in Handle
    BY DEF IInv, Named, Returns, ClaimPoints
  <2> QED
    BY <1>1, <1>2, <2>1 DEF IInv, Claims, Joinable
<1>10. Locks'
  BY <1>1, <1>2 DEF IInv, Locks, LockPoints, Returns
<1>11. Ends'
  BY <1>1, <1>2 DEF IInv, Ends, LastPoints, ExitPoints
<1>12. Unasked' /\ PendingSeen'
  <2>1. ASSUME NEW h \in Handle, pc'[h] \in {"new", "run", "wait"}
        PROVE  pc'[h] = pc[h] /\ tp'[P(h)] = tp[P(h)]
    BY <1>2, <2>1 DEF Returns
  <2>2. \A r \in Structs : SettingEvent(r)' <=> SettingEvent(r)
    BY <1>1 DEF SettingEvent, Returns, LockPoints
  <2> QED
    BY <1>1, <2>1, <2>2, Handles DEF IInv, Unasked, PendingSeen
<1> QED
  BY <1>4, <1>5, <1>6, <1>7, <1>8, <1>9, <1>10, <1>11, <1>12 DEF IInv

(* A thread that ends detached returns its structure.                      *)
LEMMA DestroyIInv ==
    ASSUME IInv, fault = "none", NEW h \in Handle, Destroy(h)
    PROVE  IInv'
<1>1. /\ P(h) \in Structs /\ tp[P(h)].threadH = h /\ h # NULL
      /\ Current(h) /\ X(h) \in 0..MaxX
      /\ \A g \in Handle : P(g) = P(h) /\ Current(g) => g = h
  BY Handles, Lives DEF Destroy
<1>2. tp[P(h)].detached /\ tp[P(h)].stateLock = NULL
  BY <1>1 DEF IInv, Ends, LastPoints, Destroy
<1>3. \A c \in Callers : ~(pc[c] \in ClaimPoints \cup {"create"} /\ P(arg[c]) = P(h))
  BY <1>1, <1>2 DEF IInv, Named, Claims, Joinable, Creating
<1>4. /\ pc' \in [Callers \cup Handle -> Points]
      /\ pc'[h] = "ended"
      /\ \A t \in (Callers \cup Handle) \ {h} : pc'[t] = pc[t]
  BY DEF IInv, TypeOK, Destroy, Points
<1>5. \A g \in Handle :
         /\ P(g) = P(h) => pc'[g] \in {"none", "ended"}
         /\ P(g) = P(h) /\ X(g) > X(h) => pc'[g] = "none"
  BY <1>1, <1>4, Handles DEF IInv, Generations, Current
<1>6. Returns(P(h))
  BY <1>1, <1>2, <1>3, <1>4, <1>5, Apart DEF IInv, Pooled, Returns, Current
<1> QED
  BY <1>6, PushIInv DEF Destroy

(* Who joins or detaches a thread at its end returns the structure of that *)
(* thread.                                                                 *)
LEMMA DetachDestroyIInv ==
    ASSUME IInv, fault = "none", NEW c \in Callers, DetachDestroy(c)
    PROVE  IInv'
<1> DEFINE h == arg[c]
<1>1. /\ h \in Handle /\ pc[h] # "none" /\ Joinable(h)
      /\ \A d \in Callers \ {c} : ~(pc[d] \in ClaimPoints /\ arg[d] = h)
  BY DEF IInv, Named, Claims, ClaimPoints, DetachDestroy
<1>2. /\ P(h) \in Structs /\ tp[P(h)].threadH = h /\ h # NULL
      /\ Current(h) /\ X(h) \in 0..MaxX /\ pc[h] = "ended"
      /\ \A g \in Handle : P(g) = P(h) /\ Current(g) => g = h
  BY <1>1, Known, Handles DEF Joinable, Current, DetachDestroy
<1>3. tp[P(h)].stateLock = NULL
  BY <1>1, <1>2 DEF IInv, Ends, LastPoints
<1>4. \A d \in Callers \ {c} : ~(pc[d] \in ClaimPoints \cup {"create"} /\ P(arg[d]) = P(h))
  BY <1>1, <1>2 DEF IInv, Named, Claims, Joinable, Creating
<1>5. /\ pc' \in [Callers \cup Handle -> Points]
      /\ pc'[c] = "idle" /\ pc[c] = "detachWait"
      /\ \A t \in (Callers \cup Handle) \ {c} : pc'[t] = pc[t]
  BY DEF IInv, TypeOK, DetachDestroy, Points
<1>6. \A g \in Handle :
         /\ P(g) = P(h) => pc'[g] \in {"none", "ended"}
         /\ P(g) = P(h) /\ X(g) > X(h) => pc'[g] = "none"
  BY <1>1, <1>2, <1>5, Handles, Apart DEF IInv, Generations, Current
<1>7. Returns(P(h))
  BY <1>1, <1>2, <1>3, <1>4, <1>5, <1>6, Apart DEF IInv, Pooled, Returns, Current,
     LockPoints
<1> QED
  BY <1>7, PushIInv DEF DetachDestroy

(* A structure for which there is no Win32 thread goes back.               *)
LEMMA LaunchFailsIInv ==
    ASSUME IInv, fault = "none", NEW c \in Callers, LaunchFails(c)
    PROVE  IInv'
<1> DEFINE h == arg[c]
<1>1. /\ h \in Handle /\ Current(h) /\ tp[P(h)].threadH = NULL
      /\ P(h) \notin fresh /\ ~Listed(P(h))
      /\ \A d \in Callers : pc[d] = "create" /\ P(arg[d]) = P(h) => d = c
  BY DEF IInv, Creating, LaunchFails
<1>2. /\ P(h) \in Structs /\ X(h) \in 0..MaxX
      /\ pc[h] = "none" /\ tp[P(h)].stateLock = NULL
      /\ \A g \in Handle : P(g) = P(h) /\ Current(g) => g = h
  BY <1>1, Handles DEF IInv, Generations, Pooled, Current
<1>3. \A d \in Callers \ {c} : ~(pc[d] \in ClaimPoints \cup {"create"} /\ P(arg[d]) = P(h))
  BY <1>1, <1>2 DEF IInv, Named, Claims, Joinable
<1>4. /\ pc' \in [Callers \cup Handle -> Points]
      /\ pc'[c] = "idle" /\ pc[c] = "create"
      /\ \A t \in (Callers \cup Handle) \ {c} : pc'[t] = pc[t]
  BY DEF IInv, TypeOK, LaunchFails, Points
<1>5. \A g \in Handle :
         /\ P(g) = P(h) => pc'[g] \in {"none", "ended"}
         /\ P(g) = P(h) /\ X(g) > X(h) => pc'[g] = "none"
  BY <1>1, <1>2, <1>4, Handles, Apart DEF IInv, Generations, Current
<1>6. Returns(P(h))
  BY <1>1, <1>2, <1>3, <1>4, <1>5, Apart DEF IInv, Returns, Current, LockPoints
<1> QED
  BY <1>6, PushIInv DEF LaunchFails

(* A caller takes a structure for a new thread: nobody else has it.        *)
LEMMA NewIInv ==
    ASSUME IInv, fault = "none", NEW c \in Callers, New(c)
    PROVE  IInv'
<1>1. PICK p \in Structs :
        /\ \/ reuse # <<>> /\ p = Head(reuse) /\ reuse' = Tail(reuse) /\ UNCHANGED fresh
           \/ reuse = <<>> /\ p \in fresh /\ fresh' = fresh \ {p} /\ UNCHANGED reuse
        /\ tp[p].x <= MaxX
        /\ tp' = [tp EXCEPT ![p] = Reset(p)]
        /\ arg' = [arg EXCEPT ![c] = <<p, tp[p].x>>]
  BY DEF New
<1> DEFINE h == <<p, tp[p].x>>
           s == Reset(p)
<1>2. pc[c] = "idle" /\ pc' = [pc EXCEPT ![c] = "create"] /\ UNCHANGED histories
  BY DEF New
<1>3. /\ tp[p] \in Structure /\ tp[p].threadH = NULL
      /\ h \in Handle /\ P(h) = p /\ X(h) = tp[p].x
      /\ \A d \in Callers : ~(pc[d] = "create" /\ P(arg[d]) = p)
  <2>1. tp[p] \in Structure /\ tp[p].x \in 0..MaxX
    BY <1>1, Fields DEF IInv, Structure
  <2>2. h \in Handle /\ P(h) = p /\ X(h) = tp[p].x
    BY <2>1, Handles
  <2>3. CASE reuse # <<>>
    <3>1. Listed(p)
      BY <1>1, <2>3, TailListed DEF IInv, TypeOK, Pooled
    <3> QED
      BY <2>1, <2>2, <3>1 DEF IInv, Pooled, Creating
  <2>4. CASE reuse = <<>>
    BY <1>1, <2>1, <2>2, <2>4 DEF IInv, Pooled, Creating
  <2> QED
    BY <2>3, <2>4
<1>4. /\ s \in Structure
      /\ s.x = tp[p].x /\ s.threadH = NULL /\ s.stateLock = NULL /\ s.state = tp[p].state
      /\ ~s.cancelEvent
  <2> DEFINE s1 == [tp[p] EXCEPT !.detached = FALSE]
             s2 == [s1 EXCEPT !.cancelEnabled = TRUE]
             s3 == [s2 EXCEPT !.async = FALSE]
             s4 == [s3 EXCEPT !.stateLock = NULL]
             s5 == [s4 EXCEPT !.cancelEvent = FALSE]
  <2>1. s1 \in Structure
    BY <1>3 DEF Structure
  <2>2. s2 \in Structure
    BY <2>1 DEF Structure
  <2>3. s3 \in Structure
    BY <2>2 DEF Structure
  <2>4. s4 \in Structure
    BY <2>3 DEF Structure
  <2>5. s5 \in Structure
    BY <2>4 DEF Structure
  <2>6. s = s5
    BY DEF Reset
  <2> QED
    BY <1>3, <2>5, <2>6 DEF Reset, Structure
<1> HIDE DEF h, s
<1>5. /\ \A r \in Structs \ {p} : tp'[r] = tp[r]
      /\ tp'[p] = s
      /\ \A r \in Structs : tp'[r].x = tp[r].x /\ tp'[r].threadH = tp[r].threadH
      /\ \A g \in Handle : pc'[g] = pc[g] /\ (Current(g)' <=> Current(g))
      /\ pc'[c] = "create" /\ arg'[c] = h
      /\ \A d \in Callers \ {c} : pc'[d] = pc[d] /\ arg'[d] = arg[d]
  <2>1. tp' = [tp EXCEPT ![p] = s] /\ arg' = [arg EXCEPT ![c] = h]
    BY <1>1 DEF h, s
  <2>2. /\ \A r \in Structs \ {p} : tp'[r] = tp[r]
        /\ tp'[p] = s
        /\ arg'[c] = h
        /\ \A d \in Callers \ {c} : arg'[d] = arg[d]
    BY <2>1 DEF IInv, TypeOK
  <2>3. \A g \in Handle : Current(g)' <=> Current(g)
    BY <1>4, <2>2, Handles DEF Current
  <2> QED
    BY <1>2, <1>3, <1>4, <2>2, <2>3, Apart DEF IInv, TypeOK
<1>6. /\ reuse' \in Seq(Structs) /\ fresh' \subseteq Structs
      /\ p \notin fresh' /\ ~Listed(p)'
      /\ \A r \in Structs : (r \in fresh' => r \in fresh) /\ (Listed(r)' => Listed(r))
      /\ \A i, j \in DOMAIN reuse' : reuse'[i] = reuse'[j] => i = j
  <2>1. CASE reuse # <<>>
    <3>1. Listed(p)
      BY <1>1, <2>1, TailListed DEF IInv, TypeOK, Pooled
    <3>2. p \notin fresh
      BY <3>1 DEF IInv, Pooled
    <3> QED
      BY <1>1, <2>1, <3>2, TailListed DEF IInv, TypeOK, Pooled
  <2>2. CASE reuse = <<>>
    BY <1>1, <2>2 DEF IInv, TypeOK, Pooled, Listed
  <2> QED
    BY <2>1, <2>2
<1>7. TypeOK'
  <2>1. tp' = [tp EXCEPT ![p] = s] /\ arg' = [arg EXCEPT ![c] = h]
    BY <1>1 DEF h, s
  <2> QED
    BY <1>2, <1>3, <1>4, <1>6, <2>1 DEF IInv, TypeOK, Points
<1>8. Generations'
  <2>1. ASSUME NEW g \in Handle
        PROVE  /\ pc'[g] \notin {"none", "ended"} => Current(g)'
               /\ pc'[g] # "none" => X(g) <= tp'[P(g)].x
               /\ Current(g)' => (tp'[P(g)].threadH = g <=> pc'[g] # "none")
    BY <1>5, Handles DEF IInv, Generations
  <2>2. ASSUME NEW r \in Structs, tp'[r].threadH # NULL
        PROVE  P(tp'[r].threadH) = r /\ tp'[r].x = X(tp'[r].threadH)
    BY <1>5, <2>2 DEF IInv, Generations, Current
  <2> QED
    BY <2>1, <2>2 DEF Generations, Current
<1>9. Pooled'
  <2>1. \A r \in Structs : tp'[r].state = tp[r].state /\ (tp[r].threadH = NULL => tp'[r].stateLock = NULL)
    BY <1>4, <1>5 DEF IInv, Pooled
  <2> QED
    BY <1>5, <1>6, <2>1 DEF IInv, Pooled
<1>10. Creating'
  <2>1. \A d \in Callers \ {c} :
          pc[d] = "create" => arg[d] \in Handle /\ P(arg[d]) \in Structs \ {p}
    BY <1>3, Handles DEF IInv, Creating
  <2>2. ASSUME NEW d \in Callers \ {c}, pc[d] = "create"
        PROVE  /\ arg'[d] \in Handle /\ Current(arg[d])' /\ tp'[P(arg'[d])] = tp[P(arg[d])]
               /\ P(arg'[d]) \notin fresh' /\ ~Listed(P(arg[d]))'
    BY <1>5, <1>6, <2>1, <2>2 DEF IInv, Creating
  <2>3. \A d, e \in Callers :
          pc'[d] = "create" /\ pc'[e] = "create" /\ P(arg'[e]) = P(arg'[d]) => e = d
    BY <1>3, <1>5, <2>1 DEF IInv, Creating
  <2>4. /\ arg'[c] \in Handle /\ Current(arg[c])' /\ tp'[P(arg'[c])] = s
        /\ P(arg'[c]) = p
    BY <1>3, <1>4, <1>5 DEF Current
  <2>5. \A d \in Callers \ {c} : pc'[d] = "create" =>
          arg'[d] \in Handle /\ pc[d] = "create" /\ tp'[P(arg'[d])].threadH = NULL /\ ~tp'[P(arg'[d])].cancelEvent
    BY <1>5, <2>2 DEF IInv, Creating
  <2> QED
    BY <1>4, <1>6, <2>2, <2>3, <2>4, <2>5 DEF Creating
<1>11. Named'
  BY <1>5 DEF IInv, Named, ClaimPoints, LockPoints
<1>12. Claims'
  <2>1. \A d \in Callers : pc[d] \in ClaimPoints =>
          arg[d] \in Handle /\ Current(arg[d]) /\ tp[P(arg[d])].threadH = arg[d] /\ arg[d] # NULL
    BY DEF IInv, Named, Claims, Joinable, Generations
  <2>2. \A d \in Callers : pc[d] \in ClaimPoints => arg[d] \in Handle /\ P(arg[d]) \in Structs \ {p}
    BY <1>3, <2>1, Handles
  <2>3. \A d \in Callers : pc'[d] \in ClaimPoints => d # c
    BY <1>5 DEF ClaimPoints
  <2> QED
    BY <1>5, <2>2, <2>3 DEF IInv, Claims, Joinable, ClaimPoints
<1>13. Locks'
  <2>1. \A d \in Callers : ~(pc[d] \in LockPoints /\ P(arg[d]) = p)
    BY <1>3 DEF IInv, Locks, Pooled
  <2>2. \A d \in Callers : s.stateLock # d
    BY <1>4
  <2> QED
    BY <1>2, <1>5, <2>1, <2>2 DEF IInv, Locks, LockPoints
<1>14. \A g \in Handle : Current(g) /\ P(g) = p => pc[g] = "none"
  BY <1>3, Handles DEF IInv, Generations
<1>15. Ends'
  BY <1>2, <1>5, <1>14, Handles DEF IInv, Ends, LastPoints, ExitPoints
<1>16. Unasked' /\ PendingSeen'
  <2>1. ASSUME NEW g \in Handle, pc[g] \in {"new", "run", "wait"}
        PROVE  tp'[P(g)] = tp[P(g)]
    BY <1>5, <1>14, <2>1, Handles DEF IInv, Generations
  <2>2. \A r \in Structs : SettingEvent(r)' <=> SettingEvent(r)
    BY <1>2, <1>5 DEF SettingEvent
  <2> QED
    BY <1>2, <1>5, <2>1, <2>2, Handles DEF IInv, Unasked, PendingSeen
<1> QED
  BY <1>7, <1>8, <1>9, <1>10, <1>11, <1>12, <1>13, <1>15, <1>16 DEF IInv

(* The structure has its thread.                                           *)
LEMMA LaunchIInv ==
    ASSUME IInv, fault = "none", NEW c \in Callers, NEW detached \in BOOLEAN, Launch(c, detached)
    PROVE  IInv'
<1> DEFINE h == arg[c]
           p == P(h)
           s == [tp[p] EXCEPT !.detached = detached, !.state = Initial, !.threadH = h]
<1>1. /\ h \in Handle /\ Current(h) /\ tp[p].threadH = NULL /\ ~tp[p].cancelEvent
      /\ p \notin fresh /\ ~Listed(p)
      /\ \A d \in Callers : pc[d] = "create" /\ P(arg[d]) = p => d = c
  BY DEF IInv, Creating, Launch
<1>2. /\ p \in Structs /\ tp[p] \in Structure /\ h # NULL
      /\ pc[h] = "none" /\ tp[p].stateLock = NULL
      /\ \A g \in Handle : P(g) = p /\ Current(g) => g = h
  BY <1>1, Handles, Fields DEF IInv, Generations, Pooled, Current
<1>3. /\ s \in Structure
      /\ s.x = tp[p].x /\ s.threadH = h /\ s.stateLock = NULL /\ s.state = Initial
      /\ ~s.cancelEvent
  <2> DEFINE s1 == [tp[p] EXCEPT !.detached = detached]
             s2 == [s1 EXCEPT !.state = Initial]
             s3 == [s2 EXCEPT !.threadH = h]
  <2>1. s1 \in Structure
    BY <1>2 DEF Structure
  <2> HIDE DEF s1
  <2>2. s2 \in Structure
    BY <2>1 DEF Structure
  <2> HIDE DEF s2
  <2>3. s3 \in Structure
    BY <1>1, <2>2 DEF Structure
  <2>4. s = s3
    BY DEF s1, s2
  <2> QED
    BY <1>1, <1>2, <2>3, <2>4 DEF Structure
<1>4. /\ tp' = [tp EXCEPT ![p] = s]
      /\ pc' = [pc EXCEPT ![c] = "idle", ![h] = "new"] /\ pc[c] = "create"
      /\ UNCHANGED <<fresh, reuse, arg, result, asked, early, fault>>
  BY <1>2 DEF IInv, TypeOK, Launch
<1> HIDE DEF s
<1>5. /\ \A r \in Structs \ {p} : tp'[r] = tp[r]
      /\ tp'[p] = s
      /\ \A r \in Structs : tp'[r].x = tp[r].x
      /\ \A g \in Handle : Current(g)' <=> Current(g)
      /\ pc'[c] = "idle" /\ pc'[h] = "new"
      /\ \A d \in Callers \ {c} : pc'[d] = pc[d]
      /\ \A g \in Handle \ {h} : pc'[g] = pc[g]
      /\ pc' \in [Callers \cup Handle -> Points]
  <2>1. /\ \A r \in Structs \ {p} : tp'[r] = tp[r]
        /\ tp'[p] = s
        /\ \A r \in Structs : tp'[r].x = tp[r].x
    BY <1>2, <1>3, <1>4 DEF IInv, TypeOK
  <2>2. \A g \in Handle : Current(g)' <=> Current(g)
    BY <2>1, Handles DEF Current
  <2>3. /\ pc'[c] = "idle" /\ pc'[h] = "new"
        /\ \A d \in Callers \ {c} : pc'[d] = pc[d]
        /\ \A g \in Handle \ {h} : pc'[g] = pc[g]
        /\ pc' \in [Callers \cup Handle -> Points]
    BY <1>1, <1>4, Apart DEF IInv, TypeOK, Points
  <2> QED
    BY <2>1, <2>2, <2>3
<1>6. TypeOK'
  BY <1>2, <1>3, <1>4, <1>5 DEF IInv, TypeOK
<1>7. Generations'
  <2>1. ASSUME NEW g \in Handle
        PROVE  /\ pc'[g] \notin {"none", "ended"} => Current(g)'
               /\ pc'[g] # "none" => X(g) <= tp'[P(g)].x
               /\ Current(g)' => (tp'[P(g)].threadH = g <=> pc'[g] # "none")
    <3>1. CASE g = h
      BY <1>1, <1>3, <1>5, <3>1, Handles DEF Current
    <3>2. CASE g # h /\ P(g) = p
      BY <1>2, <1>5, <3>2 DEF IInv, Generations
    <3>3. CASE P(g) # p
      BY <1>1, <1>5, <3>3, Handles DEF IInv, Generations
    <3> QED
      BY <3>1, <3>2, <3>3
  <2>2. ASSUME NEW r \in Structs, tp'[r].threadH # NULL
        PROVE  P(tp'[r].threadH) = r /\ tp'[r].x = X(tp'[r].threadH)
    BY <1>1, <1>3, <1>5, <2>2 DEF IInv, Generations, Current
  <2> QED
    BY <2>1, <2>2 DEF Generations, Current
<1>8. Pooled'
  BY <1>1, <1>2, <1>3, <1>4, <1>5 DEF IInv, Pooled, Listed
<1>9. Creating'
  <2>1. \A d \in Callers \ {c} :
          pc[d] = "create" => arg[d] \in Handle /\ P(arg[d]) \in Structs \ {p}
    BY <1>1, Handles DEF IInv, Creating
  <2>2. \A d \in Callers : pc'[d] = "create" => d # c /\ pc[d] = "create"
    BY <1>5
  <2> QED
    BY <1>4, <1>5, <2>1, <2>2 DEF IInv, Creating, Listed
<1>10. Named'
  BY <1>4, <1>5 DEF IInv, Named, ClaimPoints, LockPoints
<1>11. Claims'
  <2>1. \A d \in Callers : pc[d] \in ClaimPoints =>
          arg[d] \in Handle /\ Current(arg[d]) /\ pc[arg[d]] # "none"
    BY DEF IInv, Named, Claims, Joinable
  <2>2. \A d \in Callers : pc[d] \in ClaimPoints =>
          arg[d] \in Handle \ {h} /\ P(arg[d]) \in Structs \ {p}
    BY <1>2, <2>1, Handles
  <2>3. \A d \in Callers : pc'[d] \in ClaimPoints => d # c
    BY <1>5 DEF ClaimPoints
  <2> QED
    BY <1>4, <1>5, <2>2, <2>3 DEF IInv, Claims, Joinable, ClaimPoints
<1>12. Locks'
  <2>1. \A r \in Structs : tp'[r].stateLock = tp[r].stateLock
    BY <1>2, <1>3, <1>5
  <2> QED
    BY <1>4, <1>5, <2>1 DEF IInv, Locks, LockPoints
<1>13. \A g \in Handle \ {h} : Current(g) => P(g) \in Structs \ {p}
  BY <1>2, Handles
<1>14. Ends'
  BY <1>3, <1>4, <1>5, <1>13 DEF IInv, Ends, LastPoints, ExitPoints
<1>15. Unasked' /\ PendingSeen'
  <2>1. ASSUME NEW g \in Handle \ {h}, pc[g] \in {"new", "run", "wait"}
        PROVE  tp'[P(g)] = tp[P(g)]
    BY <1>5, <1>13, <2>1 DEF IInv, Generations
  <2>2. \A r \in Structs : SettingEvent(r)' <=> SettingEvent(r)
    BY <1>4, <1>5 DEF SettingEvent
  <2>3. ~SettingEvent(p)
    BY <1>2 DEF IInv, Locks, LockPoints, SettingEvent
  <2>4. pc'[h] = "new" /\ tp'[P(h)] = s
    BY <1>5
  <2> QED
    BY <1>3, <1>4, <1>5, <2>1, <2>2, <2>3, <2>4, Handles DEF IInv, Unasked, PendingSeen
<1> QED
  BY <1>6, <1>7, <1>8, <1>9, <1>10, <1>11, <1>12, <1>14, <1>15 DEF IInv

(***************************************************************************)
(* The invariant holds                                                     *)
(***************************************************************************)
LEMMA InitIInv == Init => IInv
<1> SUFFICES ASSUME Init PROVE IInv
  OBVIOUS
<1>1. Zero(0) \in Structure
  BY DEF Zero, Structure
<1>2. /\ \A p \in Structs : tp[p] = Zero(0)
      /\ \A c \in Callers : pc[c] = "idle"
      /\ \A h \in Handle : pc[h] = "none"
      /\ Zero(0).x = 0 /\ Zero(0).threadH = NULL /\ Zero(0).stateLock = NULL
      /\ Zero(0).state = Initial
      /\ DOMAIN reuse = {}
  BY Apart DEF Init, Zero
<1>3. TypeOK
  <2>1. pc \in [Callers \cup Handle -> Points]
    BY DEF Init, Points
  <2> QED
    BY <1>1, <2>1 DEF Init, TypeOK
<1>4. Generations
  BY <1>2, Handles DEF Generations
<1>5. Pooled
  BY <1>2 DEF Init, Pooled, Listed
<1>6. Creating /\ Named /\ Claims
  BY <1>2 DEF Creating, Named, Claims, ClaimPoints, LockPoints
<1>7. Locks
  BY <1>2 DEF Locks, LockPoints
<1>8. Ends
  BY <1>2, Handles DEF Ends, LastPoints, ExitPoints
<1>9. Unasked /\ PendingSeen
  BY <1>2 DEF Unasked, PendingSeen
<1> QED
  BY <1>3, <1>4, <1>5, <1>6, <1>7, <1>8, <1>9 DEF IInv

(* All that callers do.                                                    *)
LEMMA CallerIInv ==
    ASSUME IInv, fault = "none", NEW c \in Callers, Call(c) \/ CallerStep(c)
    PROVE  IInv'
<1>1. CASE New(c)
  BY <1>1, NewIInv
<1>2. CASE \E detached \in BOOLEAN : Launch(c, detached)
  BY <1>2, LaunchIInv
<1>3. CASE LaunchFails(c)
  BY <1>3, LaunchFailsIInv
<1>4. CASE JoinReady(c) \/ JoinCanceled(c)
  BY <1>4, JoinedIInv
<1>5. CASE \E h \in Handle : Join(c, h) \/ CancelCheck(c, h)
  BY <1>5, JoinIInv
<1>6. CASE \E h \in Handle : DetachOther(c, h)
  BY <1>6, DetachIInv
<1>7. CASE DetachJoined(c)
  <2>1. arg[c] \in Handle
    BY <1>7 DEF IInv, Named, ClaimPoints, DetachJoined
  <2> QED
    BY <1>7, <2>1, DetachIInv
<1>8. CASE DetachDestroy(c)
  BY <1>8, DetachDestroyIInv
<1>9. CASE CancelAsync(c)
  BY <1>9, CancelAsyncIInv
<1>10. CASE CancelLock(c)
  BY <1>10, CancelLockIInv
<1>11. CASE CancelMark(c)
  BY <1>11, CancelMarkIInv
<1>12. CASE CancelSet(c)
  BY <1>12, CancelSetIInv
<1> QED
  BY <1>1, <1>2, <1>3, <1>4, <1>5, <1>6, <1>7, <1>8, <1>9, <1>10, <1>11, <1>12 DEF Call,
     CallerStep

(* All that threads do.                                                    *)
LEMMA ThreadIInv ==
    ASSUME IInv, fault = "none", NEW h \in Handle, Run(h) \/ CancelPoint(h) \/ ThreadStep(h)
    PROVE  IInv'
<1>1. CASE \E b \in BOOLEAN : SetCancelState(h, b) \/ SetCancelType(h, b)
  <2>1. Self(h).async \in BOOLEAN /\ Self(h).cancelEnabled \in BOOLEAN
    BY Fields DEF IInv, Structure
  <2> QED
    BY <1>1, <2>1, SetCancelabilityIInv DEF SetCancelState, SetCancelType
<1>2. CASE CancelSelf(h)
  BY <1>2, CancelSelfIInv
<1>3. CASE DetachSelf(h)
  BY <1>3, DetachSelfIInv
<1>4. CASE Wait(h) \/ WaitDone(h)
  BY <1>4, WaitIInv
<1>5. CASE Return(h)
  BY <1>5, ReturnIInv
<1>6. CASE CancelLate(h)
  BY <1>6, CancelLateIInv
<1>7. CASE CancelPoint(h)
  BY <1>7, TestcancelIInv, WaitCanceledIInv DEF CancelPoint
<1>8. CASE ThreadStep(h)
  BY <1>8, StartIInv, WaitActsIInv, ExitIInv, ThrowIInv, LastStateIInv, LeaveIInv,
     DestroyIInv
  DEF ThreadStep
<1> QED
  BY <1>1, <1>2, <1>3, <1>4, <1>5, <1>6, <1>7, <1>8 DEF Run

(* A step that changes nothing.                                            *)
LEMMA StutterIInv == IInv /\ UNCHANGED vars => IInv'
<1> SUFFICES ASSUME IInv, UNCHANGED vars PROVE IInv'
  OBVIOUS
<1> USE DEF vars
<1>1. \A h \in Handle : Current(h)' <=> Current(h)
  BY DEF Current
<1>2. TypeOK' /\ Generations'
  BY <1>1 DEF IInv, TypeOK, Generations, Current
<1>3. Pooled' /\ Creating'
  BY DEF IInv, Pooled, Creating, Listed, Current
<1>4. Named' /\ Claims' /\ Locks'
  BY DEF IInv, Named, Claims, Locks, Joinable, Current
<1>5. Ends' /\ Unasked' /\ PendingSeen'
  BY <1>1 DEF IInv, Ends, Unasked, PendingSeen, SettingEvent
<1> QED
  BY <1>2, <1>3, <1>4, <1>5 DEF IInv

(* The inductive invariant holds: structures pass from thread to thread    *)
(* without two of them meeting in one.                                     *)
THEOREM Invariance == Spec => []IInv
<1>1. IInv /\ [Next]_vars => IInv'
  BY CallerIInv, ThreadIInv, StutterIInv DEF Next
<1> QED
  BY InitIInv, <1>1, PTL DEF Spec

(* The structures, the reuse list and the calls of pthread_create, _join,  *)
(* _detach and _cancel keep their types.                                   *)
THEOREM TypeCorrect == Spec => []TypeOK
<1>1. IInv => TypeOK
  BY DEF IInv
<1> QED
  BY Invariance, <1>1, PTL

(* Of the threads and callers that are going to destroy a structure there  *)
(* is one.                                                                 *)
LEMMA SoleDestroyer ==
    ASSUME IInv, NEW p \in Structs, NEW a \in Destroyers(p), NEW b \in Destroyers(p)
    PROVE  a = b
<1>1. \A c \in Callers :
         /\ pc[c] = "create" /\ P(arg[c]) = p => tp[p].threadH = NULL
         /\ pc[c] = "detachWait" /\ P(arg[c]) = p =>
               /\ arg[c] \in Handle /\ Current(arg[c])
               /\ tp[p].threadH = arg[c] /\ ~tp[p].detached
  BY DEF IInv, Creating, Named, Claims, ClaimPoints, Joinable, Generations
<1>2. \A h \in Handle :
         pc[h] = "destroy" /\ P(h) = p => tp[p].threadH = h /\ tp[p].detached
  BY DEF IInv, Generations, Ends
<1>3. NULL \notin Handle
  OBVIOUS
<1>4. CASE a \in Callers /\ b \in Callers
  BY <1>1, <1>3, <1>4, Apart DEF Destroyers, IInv, Creating, Claims, ClaimPoints
<1>5. CASE a \in Handle /\ b \in Handle
  BY <1>2, <1>5, Apart DEF Destroyers
<1>6. CASE a \in Callers /\ b \in Handle
  BY <1>1, <1>2, <1>3, <1>6, Apart DEF Destroyers
<1>7. CASE a \in Handle /\ b \in Callers
  BY <1>1, <1>2, <1>3, <1>7, Apart DEF Destroyers
<1> QED
  BY <1>4, <1>5, <1>6, <1>7 DEF Destroyers

(* pthread_create, pthread_detach and the end of a thread, in any order:   *)
(* one of them destroys the structure, of the thread that it means, and    *)
(* what is in the reuse list is there once and nobody is about to destroy  *)
(* it.                                                                     *)
THEOREM Destruction == Spec => []OneDestroyer
<1>1. IInv => OneDestroyer
  <2> SUFFICES ASSUME IInv, NEW p \in Structs
               PROVE  /\ Cardinality(Destroyers(p)) <= 1
                      /\ \A c \in Callers \cap Destroyers(p) : Current(arg[c])
                      /\ \A h \in Handle \cap Destroyers(p) : Current(h)
                      /\ Cardinality({i \in DOMAIN reuse : reuse[i] = p}) <= 1
                      /\ \A i \in DOMAIN reuse : reuse[i] = p => Destroyers(p) = {}
    BY DEF OneDestroyer
  <2>1. ASSUME NEW S, \A a, b \in S : a = b
        PROVE  Cardinality(S) <= 1
    <3>1. CASE S = {}
      BY <3>1, FS_EmptySet
    <3>2. CASE S # {}
      <4>1. PICK a \in S : S = {a}
        BY <2>1, <3>2
      <4>2. Cardinality({a}) = 1
        BY FS_Singleton
      <4> QED
        BY <4>1, <4>2
    <3> QED
      BY <3>1, <3>2
  <2>2. Cardinality(Destroyers(p)) <= 1
    BY <2>1, SoleDestroyer
  <2>3. \A c \in Callers \cap Destroyers(p) : Current(arg[c])
    BY Apart DEF Destroyers, IInv, Creating, Claims, ClaimPoints, Joinable
  <2>4. \A h \in Handle \cap Destroyers(p) : Current(h)
    BY Apart DEF Destroyers, IInv, Generations
  <2>5. Cardinality({i \in DOMAIN reuse : reuse[i] = p}) <= 1
    BY <2>1 DEF IInv, Pooled
  <2>6. ASSUME NEW i \in DOMAIN reuse, reuse[i] = p, NEW a \in Destroyers(p)
        PROVE  FALSE
    <3>1. Listed(p) /\ tp[p].threadH = NULL
      BY <2>6 DEF Listed, IInv, Pooled
    <3>2. CASE a \in Callers
      BY <3>1, <3>2, Apart DEF Destroyers, IInv, Creating, Named, Claims, ClaimPoints,
         Joinable, Generations
    <3>3. CASE a \in Handle
      BY <3>1, <3>3, Apart DEF Destroyers, IInv, Generations
    <3> QED
      BY <3>2, <3>3 DEF Destroyers
  <2> QED
    BY <2>2, <2>3, <2>4, <2>5, <2>6
<1> QED
  BY Invariance, <1>1, PTL

(* A join gets the exit status of the thread it waits for, and not that of *)
(* a later thread in the same structure.                                   *)
THEOREM Joining == Spec => []JoinSound
<1>1. IInv => JoinSound
  <2> SUFFICES ASSUME IInv, NEW c \in Callers, pc[c] \in {"joinWait", "joined"}
               PROVE  /\ Joinable(arg[c])
                      /\ tp[P(arg[c])].threadH = arg[c]
                      /\ pc[c] = "joined" => /\ tp[P(arg[c])].exitStatus = result[arg[c]]
                                             /\ result[arg[c]] # NULL
    BY DEF JoinSound
  <2>1. arg[c] \in Handle /\ pc[arg[c]] # "none" /\ Joinable(arg[c])
    BY DEF IInv, Named, Claims, ClaimPoints
  <2>2. pc[c] = "joined" => pc[arg[c]] = "ended"
    BY DEF IInv, Claims, ClaimPoints
  <2> QED
    BY <2>1, <2>2 DEF IInv, Generations, Ends, ExitPoints, LastPoints, Joinable
<1> QED
  BY Invariance, <1>1, PTL

(* pthread_testcancel and the waits know of the same requests.             *)
THEOREM Requesting == Spec => []PendingSeen
<1>1. IInv => PendingSeen
  BY DEF IInv
<1> QED
  BY Invariance, <1>1, PTL
=============================================================================
