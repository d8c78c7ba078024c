---------------------------- MODULE MCSLockProofs ----------------------------
(***************************************************************************)
(* Proofs about MCSLock, for any number of threads: the queue that the     *)
(* nodes encode is the order of the claims, one thread owns the lock, no   *)
(* handoff is lost, and the lock implements FifoLock; also when nodes are  *)
(* used again while a late notifier still works on them.                   *)
(***************************************************************************)
EXTENDS MCSLock, TLAPS

(* The flags, and the events, are still what they are when one is changed. *)
LEMMA Updated ==
    ASSUME NEW S, NEW T, NEW V, NEW x \in [S -> [T -> V]], NEW f \in S, NEW n \in T, NEW v \in V
    PROVE  [x EXCEPT ![f][n] = v] \in [S -> [T -> V]]
OBVIOUS

(* The rest of a sequence.                                                 *)
LEMMA TailFacts ==
    ASSUME NEW S, NEW q \in Seq(S), Len(q) > 1
    PROVE  /\ Tail(q) \in Seq(S) /\ Tail(q) # <<>> /\ Len(Tail(q)) = Len(q) - 1
           /\ Tail(q)[1] = q[2] /\ Tail(q)[Len(Tail(q))] = q[Len(q)]
           /\ \A i \in 1..(Len(q) - 1) : Tail(q)[i] = q[i + 1]
<1>1. /\ Tail(q) \in Seq(S) /\ Len(Tail(q)) = Len(q) - 1
      /\ \A i \in 1..(Len(q) - 1) : Tail(q)[i] = q[i + 1]
  OBVIOUS
<1>2. Tail(q) # <<>>
  <2>1. Len(Tail(q)) # 0
    BY <1>1
  <2>2. Len(<<>>) = 0
    OBVIOUS
  <2> QED
    BY <2>1, <2>2
<1>3. Tail(q)[1] = q[1 + 1]
  BY <1>1
<1>4. Len(q) - 1 \in 1..(Len(q) - 1) /\ (Len(q) - 1) + 1 = Len(q)
  OBVIOUS
<1>5. Tail(q)[Len(q) - 1] = q[Len(q)]
  BY <1>1, <1>4
<1> QED
  BY <1>1, <1>2, <1>3, <1>5

USE ProxyAssumption, NullAssumption DEF Goto, Nodes, Flags

(* A thread outside of a call is not queued, and nobody signals its event. *)
LEMMA Idle == ASSUME IInv, NEW t \in Threads, pc[t] = "idle"
              PROVE  /\ \A i \in 1..Len(queue) : queue[i] # t
                     /\ ~signaled["readyFlag"][t]
                     /\ \A u \in Threads : pc[u] = "passEv" => succ[u] # t
<1> USE DEF IInv, QueueIntact, PassSound
<1>1. ~Queued(t)
  BY DEF Queued, Waiting, Linking, AwaitReady, Holding, Releasing, AwaitNext, Transferring
<1>2. ~signaled["readyFlag"][t]
  BY DEF ReadyFlags
<1>3. \A u \in Threads : pc[u] = "passEv" => succ[u] # t
  BY DEF SignalTarget
<1> QED
  BY <1>1, <1>2, <1>3 DEF Members

(* A thread that holds the lock is alone, at the head of the queue, and    *)
(* the one behind it waits.                                                *)
LEMMA Holder ==
    ASSUME IInv, NEW t \in Threads, pc[t] \in Holding
    PROVE  /\ Len(queue) > 0 /\ queue[1] = node[t]
           /\ \A u \in Threads : pc[u] # "passEv" /\ (pc[u] \in Holding => u = t)
           /\ \A u \in Threads : pc[u] \in Waiting => ~Granted(u)
           /\ Len(queue) > 1 => queue[2] \in Threads /\ queue[2] # t /\ pc[queue[2]] \in Waiting
<1> USE DEF IInv, QueueIntact, PassSound
<1>1. Len(queue) > 0 /\ queue[1] = node[t]
  BY DEF TypeOK, MutualExclusion
<1>2. \A u \in Threads : pc[u] \in Holding => u = t
  BY DEF MutualExclusion
<1>3. \A u \in Threads : pc[u] \in Waiting => ~Granted(u)
  BY DEF HandoffIntact, Unowned
<1>4. ASSUME NEW u \in Threads, pc[u] = "passEv" PROVE FALSE
  <2>1. succ[u] = queue[1] /\ succ[u] \in Threads /\ pc[succ[u]] = "readyEv"
    BY <1>4 DEF SignalTarget
  <2>2. node[t] = t
    BY <2>1, <1>1 DEF Locals
  <2> QED
    BY <2>1, <2>2, <1>1 DEF Holding, Releasing, AwaitNext, Transferring
<1>5. ASSUME Len(queue) > 1 PROVE queue[2] \in Threads /\ queue[2] # t /\ pc[queue[2]] \in Waiting
  <2>1. queue[2] \in Nodes /\ queue[2] # Proxy /\ queue[2] # queue[1]
    BY <1>5 DEF TypeOK, Members
  <2>2. Queued(queue[2])
    BY <1>5, <2>1 DEF Members, TypeOK
  <2>3. queue[2] # t
    <3>1. CASE node[t] = t
      BY <3>1, <2>1, <1>1
    <3>2. CASE node[t] # t
      BY <3>2, <2>2 DEF Queued, Waiting, Linking, AwaitReady, Holding, Releasing, AwaitNext, Transferring
    <3> QED
      BY <3>1, <3>2
  <2>4. queue[2] \in Threads
    BY <2>1
  <2> QED
    BY <2>2, <2>3, <2>4, <1>2 DEF Queued
<1> QED
  BY <1>1, <1>2, <1>3, <1>4, <1>5

(* A claim is queued behind the last one, which has no successor yet, or   *)
(* owns the free lock.                                                     *)
LEMMA AcquireIInv == ASSUME IInv, NEW t \in Threads, Acquire(t) PROVE IInv'
<1> USE DEF IInv, QueueIntact, PassSound, Acquire, ClearNode, Recycle, Points, Waiting, Linking, AwaitReady, Holding, Releasing, Transferring, AwaitNext
<1>1. TypeOK'
  BY DEF TypeOK
<1>a. /\ queue \in Seq(Nodes) /\ Len(queue) \in Nat
      /\ Len(queue') = Len(queue) + 1 /\ queue'[Len(queue) + 1] = t
      /\ \A i \in 1..Len(queue) : queue'[i] = queue[i]
      /\ Len(queue) = 0 <=> queue = <<>>
  BY DEF TypeOK
<1>b. /\ \A i \in 1..Len(queue) : queue[i] # t
      /\ ~signaled["readyFlag"][t]
      /\ \A u \in Threads : pc[u] = "passEv" => succ[u] # t
  BY Idle
<1>c. \A u \in Threads : u # t => (Queued(u) <=> Queued(u)')
  BY DEF Queued, TypeOK
<1>d. lock = NULL <=> Len(queue) = 0
  BY <1>a DEF Tailed, TypeOK
<1>e. pc' = [pc EXCEPT ![t] = IF lock = NULL THEN "crit" ELSE "link"]
  OBVIOUS
<1>2. Members'
  <2>1. \A u \in Threads : Queued(u)' <=> \E i \in 1..Len(queue') : queue'[i] = u
    <3> TAKE u \in Threads
    <3>1. CASE u = t
      BY <3>1, <1>a, <1>d DEF Queued, TypeOK
    <3>2. CASE u # t
      BY <3>2, <1>a, <1>c DEF Members
    <3> QED
      BY <3>1, <3>2
  <2>2. \A i, j \in 1..Len(queue') : queue'[i] = queue'[j] => i = j
    BY <1>a, <1>b DEF Members
  <2>3. \A i \in 1..Len(queue') : queue'[i] = Proxy => i = 1
    BY <1>a DEF Members
  <2> QED
    BY <2>1, <2>2, <2>3 DEF Members
<1>3. Links'
  <2> SUFFICES ASSUME NEW i \in 1..(Len(queue') - 1) PROVE Linked(i)'
    BY DEF Links
  <2>1. CASE i < Len(queue)
    <3>1. Linked(i) /\ queue[i] # t /\ queue[i + 1] # t /\ queue'[i] = queue[i] /\ queue'[i + 1] = queue[i + 1]
      BY <2>1, <1>a, <1>b DEF Links
    <3>2. queue[i] \in Nodes /\ queue[i + 1] \in Threads
      BY <2>1, <1>a DEF Members
    <3> QED
      BY <3>1, <3>2 DEF Linked, TypeOK
  <2>2. CASE i = Len(queue)
    <3>1. queue'[i] = queue[i] /\ queue'[i + 1] = t /\ queue[i] # t /\ Len(queue) > 0
      BY <2>2, <1>a, <1>b
    <3>2. lock = queue[i] /\ next[lock] = NULL /\ queue[i] \in Nodes
      BY <2>2, <3>1, <1>a DEF Tailed
    <3>3. lock # NULL
      BY <3>2
    <3> QED
      BY <3>1, <3>2, <3>3 DEF Linked, TypeOK
  <2> QED
    BY <2>1, <2>2, <1>a
<1>4. Tailed'
  BY <1>a DEF Tailed, TypeOK
<1>5. Locals'
  <2>1. \A u \in Threads : pc[u] = "link" => Len(queue) > 0
    BY <1>a DEF Members, Queued
  <2>2. \A u \in Threads : pc'[u] = "link" => queue'[1] # u
    BY <2>1, <1>a, <1>b, <1>d DEF Locals, TypeOK
  <2> QED
    BY <2>2 DEF TypeOK, Locals
<1>6. MutualExclusion'
  <2>1. \A u \in Threads : pc[u] \in Holding => Len(queue) > 0
    BY <1>a DEF MutualExclusion
  <2>2. queue' # <<>>
    BY <1>a
  <2> QED
    BY <2>1, <2>2, <1>a, <1>d DEF TypeOK, MutualExclusion
<1>7. PassTarget'
  BY <1>a, <1>b DEF TypeOK, PassTarget
<1>8. SignalTarget'
  <2>1. \A u, v \in Threads : pc[u] = "passEv" /\ pc[v] = "passEv" => u = v
    BY DEF SignalTarget
  <2>2. ASSUME NEW u \in Threads, pc[u] = "passEv"
        PROVE  /\ queue' # <<>> /\ succ[u] = queue'[1] /\ succ[u] \in Threads
               /\ pc'[succ[u]] = "readyEv" /\ ~signaled["readyFlag"][succ[u]]
    BY SMTT(60), <2>2, <1>a, <1>b DEF TypeOK, SignalTarget
  <2> QED
    BY <2>1, <2>2 DEF TypeOK, SignalTarget
<1>9. ReadyFlags'
  BY <1>b DEF TypeOK, ReadyFlags
<1>10. HandoffIntact'
  <2> SUFFICES ASSUME NEW u \in Threads, pc'[u] \in Waiting
               PROVE  Granted(u)' <=> (Unowned /\ queue # <<>> /\ queue[1] = u)'
    BY DEF HandoffIntact
  <2>1. CASE u = t
    <3>1. ~Granted(t)'
      BY <1>b DEF Granted, TypeOK
    <3>2. Len(queue) > 0
      BY <2>1, <1>a, <1>d DEF TypeOK
    <3> QED
      BY <2>1, <3>1, <3>2, <1>a, <1>b
  <2>2. CASE u # t
    <3>1. pc[u] \in Waiting /\ Queued(u)
      BY <2>2 DEF TypeOK, Queued
    <3>2. Len(queue) > 0 /\ lock # NULL
      BY <3>1, <1>a, <1>d DEF Members
    <3>3. Granted(u)' <=> Granted(u)
      BY <2>2, <1>b DEF Granted, TypeOK
    <3>4. Unowned' <=> Unowned
      BY <3>2 DEF Unowned, TypeOK
    <3> QED
      BY <3>1, <3>2, <3>3, <3>4, <1>a DEF HandoffIntact
  <2> QED
    BY <2>1, <2>2
<1> QED
  BY <1>1, <1>2, <1>3, <1>4, <1>5, <1>6, <1>7, <1>8, <1>9, <1>10

(* The node that a claim links itself to is the one before it in the       *)
(* queue.                                                                  *)
LEMMA LinkIInv == ASSUME IInv, NEW t \in Threads, Link(t) PROVE IInv'
<1> USE DEF IInv, QueueIntact, PassSound, Link, Points, Waiting, Linking, AwaitReady, Holding, Releasing, Transferring, AwaitNext
<1>1. TypeOK'
  BY DEF TypeOK
<1>2. Members'
  BY DEF TypeOK, Members, Queued, MutualExclusion, Locals, Tailed
<1>a. PICK j \in 1..(Len(queue) - 1) : queue[j + 1] = t /\ pred[t] = queue[j] /\ next[queue[j]] = NULL
  <2>1. PICK k \in 1..Len(queue) : queue[k] = t
    BY DEF Members, Queued
  <2>2. k # 1
    BY <2>1 DEF Locals
  <2>3. k - 1 \in 1..(Len(queue) - 1) /\ (k - 1) + 1 = k
    BY <2>2 DEF TypeOK
  <2>4. Linked(k - 1)
    BY <2>3 DEF Links
  <2> QED
    BY <2>1, <2>3, <2>4 DEF Linked
<1>b. /\ Len(queue) \in Nat /\ pred[t] \in Nodes
      /\ \A i \in 1..Len(queue) : i # j => queue[i] # pred[t]
      /\ \A i \in 1..Len(queue) : i # j + 1 => queue[i] # t
      /\ \A i \in 1..Len(queue) : queue[i] \in Nodes
      /\ \A i \in 2..Len(queue) : queue[i] \in Threads
  BY <1>a DEF TypeOK, Members
<1>3. Links'
  <2> SUFFICES ASSUME NEW i \in 1..(Len(queue) - 1) PROVE Linked(i)'
    BY DEF Links
  <2>1. CASE i = j
    BY <2>1, <1>a, <1>b DEF Linked, TypeOK
  <2>2. CASE i # j
    <3>1. Linked(i) /\ queue[i] # pred[t] /\ queue[i + 1] # t /\ queue[i] \in Nodes /\ queue[i + 1] \in Threads
      BY <2>2, <1>b DEF Links
    <3> QED
      BY <3>1 DEF Linked, TypeOK
  <2> QED
    BY <2>1, <2>2
<1>4. Tailed'
  <2>1. queue # <<>> /\ lock = queue[Len(queue)] /\ next[lock] = NULL
    BY <1>a DEF Tailed, TypeOK
  <2>2. lock # pred[t] /\ lock \in Nodes
    BY <2>1, <1>a, <1>b
  <2> QED
    BY <2>1, <2>2 DEF Tailed, TypeOK
<1>5. Locals'
  BY DEF TypeOK, Members, Queued, Tailed, Locals, MutualExclusion, PassTarget
<1>6. MutualExclusion'
  BY DEF TypeOK, Members, Queued, Tailed, Locals, MutualExclusion, HandoffIntact, Granted, Unowned, ReadyFlags
<1>7. PassTarget'
  BY DEF TypeOK, Members, Queued, PassTarget, MutualExclusion, Links, Linked, Tailed, Locals
<1>8. SignalTarget'
  BY DEF TypeOK, Members, Queued, SignalTarget, MutualExclusion, PassTarget, ReadyFlags, Locals, HandoffIntact, Granted, Unowned
<1>9. ReadyFlags'
  BY DEF TypeOK, Members, Queued, SignalTarget, ReadyFlags, MutualExclusion, PassTarget
<1>10. HandoffIntact'
  BY DEF TypeOK, Members, Queued, HandoffIntact, Granted, Unowned, SignalTarget, ReadyFlags, MutualExclusion, PassTarget, Tailed, Locals
<1> QED
  BY <1>1, <1>2, <1>3, <1>4, <1>5, <1>6, <1>7, <1>8, <1>9, <1>10

(* The nextFlag says nothing about who owns the lock.                      *)
LEMMA NotifyIInv == ASSUME IInv, NEW t \in Threads, Notify(t) PROVE IInv'
<1> USE DEF IInv, QueueIntact, PassSound, Notify, FlagSet, Points, Waiting, Linking, AwaitReady, Holding, Releasing, Transferring, AwaitNext
<1>1. TypeOK'
  BY DEF TypeOK
<1>2. Members'
  BY DEF TypeOK, Members, Queued, MutualExclusion, Locals, Tailed
<1>3. Links'
  BY DEF TypeOK, Links, Linked, Members, Queued, Tailed, Locals, MutualExclusion
<1>4. Tailed'
  BY DEF TypeOK, Members, Queued, Tailed, Locals, Links, Linked, MutualExclusion
<1>5. Locals'
  BY SMTT(60) DEF TypeOK, Members, Queued, Tailed, Locals, MutualExclusion, PassTarget
<1>6. MutualExclusion'
  BY SMTT(60) DEF TypeOK, Members, Queued, Tailed, Locals, MutualExclusion, HandoffIntact, Granted, Unowned, ReadyFlags
<1>7. PassTarget'
  BY DEF TypeOK, Members, Queued, PassTarget, MutualExclusion, Links, Linked, Tailed, Locals
<1>8. SignalTarget'
  BY DEF TypeOK, Members, Queued, SignalTarget, MutualExclusion, PassTarget, ReadyFlags, Locals, HandoffIntact, Granted, Unowned
<1>9. ReadyFlags'
  BY DEF TypeOK, Members, Queued, SignalTarget, ReadyFlags, MutualExclusion, PassTarget
<1>10. HandoffIntact'
  BY DEF TypeOK, Members, Queued, HandoffIntact, Granted, Unowned, SignalTarget, ReadyFlags, MutualExclusion, PassTarget, Tailed, Locals
<1> QED
  BY <1>1, <1>2, <1>3, <1>4, <1>5, <1>6, <1>7, <1>8, <1>9, <1>10

LEMMA NotifyEventIInv == ASSUME IInv, NEW t \in Threads, NotifyEvent(t) PROVE IInv'
<1> USE DEF IInv, QueueIntact, PassSound, NotifyEvent, SetEvent, Points, Waiting, Linking, AwaitReady, Holding, Releasing, Transferring, AwaitNext
<1>1. TypeOK'
  BY DEF TypeOK
<1>2. Members'
  BY DEF TypeOK, Members, Queued, MutualExclusion, Locals, Tailed
<1>3. Links'
  BY DEF TypeOK, Links, Linked, Members, Queued, Tailed, Locals, MutualExclusion
<1>4. Tailed'
  BY DEF TypeOK, Members, Queued, Tailed, Locals, Links, Linked, MutualExclusion
<1>5. Locals'
  BY DEF TypeOK, Members, Queued, Tailed, Locals, MutualExclusion, PassTarget
<1>6. MutualExclusion'
  BY DEF TypeOK, Members, Queued, Tailed, Locals, MutualExclusion, HandoffIntact, Granted, Unowned, ReadyFlags
<1>7. PassTarget'
  BY DEF TypeOK, Members, Queued, PassTarget, MutualExclusion, Links, Linked, Tailed, Locals
<1>8. SignalTarget'
  BY DEF TypeOK, Members, Queued, SignalTarget, MutualExclusion, PassTarget, ReadyFlags, Locals, HandoffIntact, Granted, Unowned
<1>9. ReadyFlags'
  BY DEF TypeOK, Members, Queued, SignalTarget, ReadyFlags, MutualExclusion, PassTarget
<1>10. HandoffIntact'
  BY SMTT(60) DEF TypeOK, Members, Queued, HandoffIntact, Granted, Unowned, SignalTarget, ReadyFlags, MutualExclusion, PassTarget, Tailed, Locals
<1> QED
  BY <1>1, <1>2, <1>3, <1>4, <1>5, <1>6, <1>7, <1>8, <1>9, <1>10

(* A waiter whose readyFlag or event has been set is the oldest claim, and *)
(* the lock has no owner.                                                  *)
LEMMA WaitReadyIInv == ASSUME IInv, NEW t \in Threads, WaitReady(t) PROVE IInv'
<1> USE DEF IInv, QueueIntact, PassSound, WaitReady, FlagWaitCas, FlagWaitEvent, Points, Waiting, Linking, AwaitReady, Holding, Releasing, Transferring, AwaitNext
<1>1. TypeOK'
  <2>1. CASE pc[t] = "readyCas" /\ FlagWaitCas(t, "readyFlag", t, "readyEv", "crit")
    <3>1. flag' \in [Flags -> [Nodes -> {"Zero", "Set", "Event"}]]
      BY SMTT(60), <2>1 DEF TypeOK
    <3>2. signaled' \in [Flags -> [Nodes -> BOOLEAN]]
      <4>1. \/ signaled' = signaled
            \/ signaled' = [signaled EXCEPT !["readyFlag"][t] = FALSE]
        BY <2>1
      <4> QED
        <5>1. signaled \in [Flags -> [Nodes -> BOOLEAN]] /\ "readyFlag" \in Flags /\ t \in Nodes
          BY DEF TypeOK
        <5>2. [signaled EXCEPT !["readyFlag"][t] = FALSE] \in [Flags -> [Nodes -> BOOLEAN]]
          BY <5>1, Updated, Zenon
        <5> QED
          BY <4>1, <5>1, <5>2
    <3>3. pc' \in [Threads -> Points]
      BY SMTT(60), <2>1 DEF TypeOK
    <3> QED
      BY <2>1, <3>1, <3>2, <3>3 DEF TypeOK
  <2>2. CASE pc[t] = "readyEv" /\ FlagWaitEvent(t, "readyFlag", t, "crit")
    <3>1. signaled' \in [Flags -> [Nodes -> BOOLEAN]]
      BY <2>2 DEF TypeOK
    <3>2. pc' \in [Threads -> Points]
      BY <2>2 DEF TypeOK
    <3> QED
      BY <2>2, <3>1, <3>2 DEF TypeOK
  <2> QED
    BY <2>1, <2>2
<1>2. Members'
  BY DEF TypeOK, Members, Queued, MutualExclusion, Locals, Tailed
<1>3. Links'
  BY DEF TypeOK, Links, Linked, Members, Queued, Tailed, Locals, MutualExclusion
<1>4. Tailed'
  BY DEF TypeOK, Members, Queued, Tailed, Locals, Links, Linked, MutualExclusion
<1>5. Locals'
  BY DEF TypeOK, Members, Queued, Tailed, Locals, MutualExclusion, PassTarget
<1>6. MutualExclusion'
  BY DEF TypeOK, Members, Queued, Tailed, Locals, MutualExclusion, HandoffIntact, Granted, Unowned, ReadyFlags
<1>7. PassTarget'
  BY DEF TypeOK, Members, Queued, PassTarget, MutualExclusion, Links, Linked, Tailed, Locals
<1>8. SignalTarget'
  BY SMTT(60) DEF TypeOK, Members, Queued, SignalTarget, MutualExclusion, PassTarget, ReadyFlags, Locals, HandoffIntact, Granted, Unowned
<1>9. ReadyFlags'
  BY DEF TypeOK, Members, Queued, SignalTarget, ReadyFlags, MutualExclusion, PassTarget
<1>10. HandoffIntact'
  BY DEF TypeOK, Members, Queued, HandoffIntact, Granted, Unowned, SignalTarget, ReadyFlags, MutualExclusion, PassTarget, Tailed, Locals
<1> QED
  BY <1>1, <1>2, <1>3, <1>4, <1>5, <1>6, <1>7, <1>8, <1>9, <1>10

(* A try finds the queue empty, or leaves it alone.                        *)
LEMMA TryAcquireIInv == ASSUME IInv, NEW t \in Threads, TryAcquire(t) PROVE IInv'
<1> USE DEF IInv, QueueIntact, PassSound, TryAcquire, ClearNode, Recycle, Points, Waiting, Linking, AwaitReady, Holding, Releasing, Transferring, AwaitNext
<1>a. /\ queue \in Seq(Nodes) /\ Len(queue) \in Nat
      /\ lock = NULL <=> Len(queue) = 0
      /\ Len(queue) = 0 <=> queue = <<>>
      /\ lock = NULL => queue' \in Seq(Nodes) /\ Len(queue') = 1 /\ queue'[1] = t
      /\ lock # NULL => queue' = queue /\ pc' = pc
  <2>1. queue \in Seq(Nodes) /\ Len(queue) \in Nat /\ (Len(queue) = 0 <=> queue = <<>>)
    BY DEF TypeOK
  <2>2. lock = NULL <=> Len(queue) = 0
    BY <2>1 DEF Tailed, TypeOK
  <2>3. lock = NULL => queue' = Append(queue, t)
    OBVIOUS
  <2>4. lock # NULL => queue' = queue /\ pc' = pc
    OBVIOUS
  <2>5. /\ Append(queue, t) \in Seq(Nodes)
        /\ Len(Append(queue, t)) = Len(queue) + 1
        /\ Append(queue, t)[Len(queue) + 1] = t
    BY <2>1
  <2>6. Len(queue) = 0 => Len(Append(queue, t)) = 1 /\ Append(queue, t)[1] = t
    BY <2>5
  <2> QED
    BY <2>1, <2>2, <2>3, <2>4, <2>5, <2>6
<1>b. /\ \A i \in 1..Len(queue) : queue[i] # t
      /\ ~signaled["readyFlag"][t]
      /\ \A u \in Threads : pc[u] = "passEv" => succ[u] # t
  BY Idle
<1>1. TypeOK'
  <2>1. next' \in [Nodes -> Nodes \cup {NULL}] /\ flag' \in [Flags -> [Nodes -> {"Zero", "Set", "Event"}]]
    BY DEF TypeOK
  <2>2. pc' \in [Threads -> Points] /\ node' \in [Threads -> Nodes] /\ lock' \in Nodes \cup {NULL}
    BY SMTT(60) DEF TypeOK
  <2>3. queue' \in Seq(Nodes)
    BY <1>a
  <2>4. recycled' \in BOOLEAN
    BY DEF TypeOK
  <2> QED
    BY <2>1, <2>2, <2>3, <2>4 DEF TypeOK
<1>2. Members'
  BY DEF TypeOK, Members, Queued, MutualExclusion, Locals, Tailed
<1>3. Links'
  <2>1. CASE lock = NULL
    <3>1. Len(queue') = 1
      BY <2>1, <1>a
    <3> QED
      BY <3>1 DEF Links
  <2>2. CASE lock # NULL
    <3> SUFFICES ASSUME NEW i \in 1..(Len(queue) - 1) PROVE Linked(i)'
      BY <2>2, <1>a DEF Links
    <3>1. Linked(i) /\ queue[i] # t /\ queue[i] \in Nodes
      BY <1>a, <1>b DEF Links
    <3> QED
      BY <3>1, <2>2, <1>a DEF Linked, TypeOK
  <2> QED
    BY <2>1, <2>2
<1>4. Tailed'
  BY DEF TypeOK, Members, Queued, Tailed, Locals, Links, Linked, MutualExclusion
<1>5. Locals'
  BY DEF TypeOK, Members, Queued, Tailed, Locals, MutualExclusion, PassTarget
<1>6. MutualExclusion'
  BY DEF TypeOK, Members, Queued, Tailed, Locals, MutualExclusion, HandoffIntact, Granted, Unowned, ReadyFlags
<1>7. PassTarget'
  BY DEF TypeOK, Members, Queued, PassTarget, MutualExclusion, Links, Linked, Tailed, Locals
<1>8. SignalTarget'
  <2>1. \A u \in Threads : pc'[u] = "passEv" <=> pc[u] = "passEv"
    BY DEF TypeOK
  <2>2. ASSUME NEW u \in Threads, pc[u] = "passEv"
        PROVE  /\ queue' # <<>> /\ succ[u] = queue'[1] /\ succ[u] \in Threads
               /\ pc'[succ[u]] = "readyEv" /\ ~signaled["readyFlag"][succ[u]]
    BY <2>2, <1>a, <1>b DEF TypeOK, SignalTarget
  <2> QED
    BY <2>1, <2>2 DEF TypeOK, SignalTarget
<1>9. ReadyFlags'
  BY DEF TypeOK, Members, Queued, SignalTarget, ReadyFlags, MutualExclusion, PassTarget
<1>10. HandoffIntact'
  BY DEF TypeOK, Members, Queued, HandoffIntact, Granted, Unowned, SignalTarget, ReadyFlags, MutualExclusion, PassTarget, Tailed, Locals
<1> QED
  BY <1>1, <1>2, <1>3, <1>4, <1>5, <1>6, <1>7, <1>8, <1>9, <1>10

(* The owner reads its successor, if there is one.                         *)
LEMMA ReleaseIInv == ASSUME IInv, NEW t \in Threads, Release(t) PROVE IInv'
<1> USE DEF IInv, QueueIntact, PassSound, Release, Points, Waiting, Linking, AwaitReady, Holding, Releasing, Transferring, AwaitNext
<1>1. TypeOK'
  BY DEF TypeOK
<1>2. Members'
  BY DEF TypeOK, Members, Queued, MutualExclusion, Locals, Tailed
<1>3. Links'
  BY DEF TypeOK, Links, Linked, Members, Queued, Tailed, Locals, MutualExclusion
<1>4. Tailed'
  BY DEF TypeOK, Members, Queued, Tailed, Locals, Links, Linked, MutualExclusion
<1>5. Locals'
  BY DEF TypeOK, Members, Queued, Tailed, Locals, MutualExclusion, PassTarget
<1>6. MutualExclusion'
  BY DEF TypeOK, Members, Queued, Tailed, Locals, MutualExclusion, HandoffIntact, Granted, Unowned, ReadyFlags
<1>7. PassTarget'
  BY DEF TypeOK, Members, Queued, PassTarget, MutualExclusion, Links, Linked, Tailed, Locals
<1>8. SignalTarget'
  BY DEF TypeOK, Members, Queued, SignalTarget, MutualExclusion, PassTarget, ReadyFlags, Locals, HandoffIntact, Granted, Unowned
<1>9. ReadyFlags'
  BY DEF TypeOK, Members, Queued, SignalTarget, ReadyFlags, MutualExclusion, PassTarget
<1>10. HandoffIntact'
  BY DEF TypeOK, Members, Queued, HandoffIntact, Granted, Unowned, SignalTarget, ReadyFlags, MutualExclusion, PassTarget, Tailed, Locals
<1> QED
  BY <1>1, <1>2, <1>3, <1>4, <1>5, <1>6, <1>7, <1>8, <1>9, <1>10

(* The lock points to the owner exactly when the queue has no other.       *)
LEMMA ReleaseCasIInv == ASSUME IInv, NEW t \in Threads, ReleaseCas(t) PROVE IInv'
<1> USE DEF IInv, QueueIntact, PassSound, ReleaseCas, Return, Points, Waiting, Linking, AwaitReady, Holding, Releasing, Transferring, AwaitNext
<1>1. TypeOK'
  <2>1. CASE lock = node[t]
    <3>1. queue \in Seq(Nodes) /\ queue # <<>>
      BY DEF TypeOK, MutualExclusion
    <3>2. queue' \in Seq(Nodes)
      BY <2>1, <3>1
    <3>3. pc' \in [Threads -> Points] /\ node' \in [Threads -> Nodes] /\ succ' \in [Threads -> Nodes \cup {NULL}]
      BY <2>1 DEF TypeOK
    <3> QED
      BY <2>1, <3>2, <3>3 DEF TypeOK
  <2>2. CASE lock # node[t]
    <3>1. pc' \in [Threads -> Points]
      BY <2>2 DEF TypeOK
    <3> QED
      BY <2>2, <3>1 DEF TypeOK
  <2> QED
    BY <2>1, <2>2
<1>2. Members'
  BY SMTT(60) DEF TypeOK, Members, Queued, MutualExclusion, Locals, Tailed
<1>3. Links'
  BY DEF TypeOK, Links, Linked, Members, Queued, Tailed, Locals, MutualExclusion
<1>4. Tailed'
  BY DEF TypeOK, Members, Queued, Tailed, Locals, Links, Linked, MutualExclusion
<1>5. Locals'
  BY SMTT(60) DEF TypeOK, Members, Queued, Tailed, Locals, MutualExclusion, PassTarget
<1>6. MutualExclusion'
  BY DEF TypeOK, Members, Queued, Tailed, Locals, MutualExclusion, HandoffIntact, Granted, Unowned, ReadyFlags
<1>7. PassTarget'
  BY DEF TypeOK, Members, Queued, PassTarget, MutualExclusion, Links, Linked, Tailed, Locals
<1>8. SignalTarget'
  BY DEF TypeOK, Members, Queued, SignalTarget, MutualExclusion, PassTarget, ReadyFlags, Locals, HandoffIntact, Granted, Unowned
<1>9. ReadyFlags'
  BY DEF TypeOK, Members, Queued, SignalTarget, ReadyFlags, MutualExclusion, PassTarget
<1>10. HandoffIntact'
  BY DEF TypeOK, Members, Queued, HandoffIntact, Granted, Unowned, SignalTarget, ReadyFlags, MutualExclusion, PassTarget, Tailed, Locals
<1> QED
  BY <1>1, <1>2, <1>3, <1>4, <1>5, <1>6, <1>7, <1>8, <1>9, <1>10

(* The owner waits for its successor to link itself.                       *)
LEMMA WaitNextIInv == ASSUME IInv, NEW t \in Threads, WaitNext(t) PROVE IInv'
<1> USE DEF IInv, QueueIntact, PassSound, WaitNext, FlagWaitCas, FlagWaitEvent, Points, Waiting, Linking, AwaitReady, Holding, Releasing, Transferring, AwaitNext
<1>1. TypeOK'
  <2>1. CASE pc[t] = "nextCas" /\ FlagWaitCas(t, "nextFlag", node[t], "nextEv", "reread")
    <3>1. flag' \in [Flags -> [Nodes -> {"Zero", "Set", "Event"}]]
      BY SMTT(60), <2>1 DEF TypeOK
    <3>2. signaled' \in [Flags -> [Nodes -> BOOLEAN]]
      <4>1. \/ signaled' = signaled
            \/ signaled' = [signaled EXCEPT !["nextFlag"][node[t]] = FALSE]
        BY <2>1
      <4> QED
        <5>1. signaled \in [Flags -> [Nodes -> BOOLEAN]] /\ "nextFlag" \in Flags /\ node[t] \in Nodes
          BY DEF TypeOK
        <5>2. [signaled EXCEPT !["nextFlag"][node[t]] = FALSE] \in [Flags -> [Nodes -> BOOLEAN]]
          BY <5>1, Updated, Zenon
        <5> QED
          BY <4>1, <5>1, <5>2
    <3>3. pc' \in [Threads -> Points]
      BY SMTT(60), <2>1 DEF TypeOK
    <3> QED
      BY <2>1, <3>1, <3>2, <3>3 DEF TypeOK
  <2>2. CASE pc[t] = "nextEv" /\ FlagWaitEvent(t, "nextFlag", node[t], "reread")
    <3>1. signaled' \in [Flags -> [Nodes -> BOOLEAN]]
      BY <2>2 DEF TypeOK
    <3>2. pc' \in [Threads -> Points]
      BY <2>2 DEF TypeOK
    <3> QED
      BY <2>2, <3>1, <3>2 DEF TypeOK
  <2> QED
    BY <2>1, <2>2
<1>2. Members'
  BY DEF TypeOK, Members, Queued, MutualExclusion, Locals, Tailed
<1>3. Links'
  <2>1. \A u \in Threads : pc[u] = "link" <=> pc'[u] = "link"
    BY DEF TypeOK
  <2>2. next' = next /\ pred' = pred /\ queue' = queue
    OBVIOUS
  <2>3. \A i \in 1..(Len(queue) - 1) : queue[i + 1] \in Threads
    BY DEF TypeOK, Members
  <2> QED
    BY <2>1, <2>2, <2>3 DEF Links, Linked
<1>4. Tailed'
  BY DEF TypeOK, Members, Queued, Tailed, Locals, Links, Linked, MutualExclusion
<1>5. Locals'
  BY DEF TypeOK, Members, Queued, Tailed, Locals, MutualExclusion, PassTarget
<1>6. MutualExclusion'
  BY DEF TypeOK, Members, Queued, Tailed, Locals, MutualExclusion, HandoffIntact, Granted, Unowned, ReadyFlags
<1>7. PassTarget'
  BY DEF TypeOK, Members, Queued, PassTarget, MutualExclusion, Links, Linked, Tailed, Locals
<1>8. SignalTarget'
  <2>1. pc[t] \in Holding /\ pc'[t] # "passEv"
    BY DEF TypeOK
  <2>2. \A u \in Threads : pc[u] # "passEv"
    BY <2>1, Holder
  <2>3. \A u \in Threads : pc'[u] # "passEv"
    BY <2>1, <2>2 DEF TypeOK
  <2> QED
    BY <2>3 DEF SignalTarget
<1>9. ReadyFlags'
  BY DEF TypeOK, Members, Queued, SignalTarget, ReadyFlags, MutualExclusion, PassTarget
<1>10. HandoffIntact'
  BY DEF TypeOK, Members, Queued, HandoffIntact, Granted, Unowned, SignalTarget, ReadyFlags, MutualExclusion, PassTarget, Tailed, Locals
<1> QED
  BY <1>1, <1>2, <1>3, <1>4, <1>5, <1>6, <1>7, <1>8, <1>9, <1>10

LEMMA ReleaseRereadIInv == ASSUME IInv, NEW t \in Threads, ReleaseReread(t) PROVE IInv'
<1> USE DEF IInv, QueueIntact, PassSound, ReleaseReread, Points, Waiting, Linking, AwaitReady, Holding, Releasing, Transferring, AwaitNext
<1>1. TypeOK'
  BY DEF TypeOK
<1>2. Members'
  BY DEF TypeOK, Members, Queued, MutualExclusion, Locals, Tailed
<1>3. Links'
  BY DEF TypeOK, Links, Linked, Members, Queued, Tailed, Locals, MutualExclusion
<1>4. Tailed'
  BY DEF TypeOK, Members, Queued, Tailed, Locals, Links, Linked, MutualExclusion
<1>5. Locals'
  BY DEF TypeOK, Members, Queued, Tailed, Locals, MutualExclusion, PassTarget
<1>6. MutualExclusion'
  BY DEF TypeOK, Members, Queued, Tailed, Locals, MutualExclusion, HandoffIntact, Granted, Unowned, ReadyFlags
<1>7. PassTarget'
  BY DEF TypeOK, Members, Queued, PassTarget, MutualExclusion, Links, Linked, Tailed, Locals
<1>8. SignalTarget'
  BY DEF TypeOK, Members, Queued, SignalTarget, MutualExclusion, PassTarget, ReadyFlags, Locals, HandoffIntact, Granted, Unowned
<1>9. ReadyFlags'
  BY DEF TypeOK, Members, Queued, SignalTarget, ReadyFlags, MutualExclusion, PassTarget
<1>10. HandoffIntact'
  BY DEF TypeOK, Members, Queued, HandoffIntact, Granted, Unowned, SignalTarget, ReadyFlags, MutualExclusion, PassTarget, Tailed, Locals
<1> QED
  BY <1>1, <1>2, <1>3, <1>4, <1>5, <1>6, <1>7, <1>8, <1>9, <1>10

(* The owner sets the readyFlag of the second in the queue, which becomes  *)
(* the first, and signals its event if it has found one.                   *)
LEMMA PassIInv == ASSUME IInv, NEW t \in Threads, Pass(t) PROVE IInv'
<1> USE DEF IInv, QueueIntact, PassSound, Pass, FlagSet, Return, Points, Waiting, Linking, AwaitReady, Holding, Releasing, Transferring, AwaitNext
<1>a. CASE succ[t] = NULL
  <2>1. \A u \in Threads : /\ pc'[u] \in Waiting <=> pc[u] \in Waiting
                           /\ pc'[u] \in Holding <=> pc[u] \in Holding
                           /\ pc'[u] = pc[u] \/ u = t
    BY <1>a DEF TypeOK
  <2>2. UNCHANGED <<lock, next, flag, signaled, node, pred, succ, queue, recycled>> /\ pc' = [pc EXCEPT ![t] = "fault"]
    BY <1>a
  <2>3. TypeOK' /\ Tailed' /\ Locals'
    BY <2>2 DEF TypeOK, Tailed, Locals
  <2>4. Members' /\ MutualExclusion'
    BY <2>1, <2>2 DEF Members, Queued, MutualExclusion
  <2>5. Links'
    BY <2>1, <2>2 DEF Links, Linked, Members, TypeOK
  <2>6. PassTarget' /\ SignalTarget' /\ ReadyFlags'
    BY <2>2 DEF PassTarget, SignalTarget, ReadyFlags, TypeOK
  <2>7. HandoffIntact'
    BY <2>1, <2>2 DEF HandoffIntact, Granted, Unowned, TypeOK
  <2> QED
    BY <2>3, <2>4, <2>5, <2>6, <2>7
<1>b. CASE succ[t] # NULL
  <2>0. PICK m \in Threads : m = succ[t]
    BY <1>b, Holder DEF PassTarget
  <2>1. /\ Len(queue) > 1 /\ queue \in Seq(Nodes) /\ queue # <<>>
        /\ m = queue[2] /\ m \in Threads /\ m # t /\ pc[m] \in {"notify", "notifyEv", "readyCas", "readyEv"}
        /\ queue[1] = node[t] /\ queue[1] # m
        /\ pc[t] = "pass" /\ m \in Nodes
    <3>1. Len(queue) > 1 /\ m = queue[2] /\ pc[m] # "link"
      BY <1>b, <2>0 DEF PassTarget
    <3>2. queue[1] = node[t] /\ queue[2] \in Threads /\ queue[2] # t /\ pc[queue[2]] \in Waiting
      BY <3>1, Holder
    <3>3. queue[1] # queue[2] /\ queue \in Seq(Nodes)
      BY <3>1 DEF Members, TypeOK
    <3> QED
      BY <3>1, <3>2, <3>3
  <2>2. /\ queue' = Tail(queue) /\ Len(queue') = Len(queue) - 1 /\ queue' \in Seq(Nodes)
        /\ \A i \in 1..(Len(queue) - 1) : queue'[i] = queue[i + 1]
        /\ queue' # <<>> /\ queue'[1] = m /\ queue'[Len(queue')] = queue[Len(queue)]
    <3>1. queue' = Tail(queue)
      BY <1>b
    <3> QED
      BY <2>1, <3>1, TailFacts
  <2>3. ~Granted(m) /\ (\A u \in Threads : pc[u] # "passEv" /\ (pc[u] \in Holding => u = t))
        /\ (\A u \in Threads : pc[u] \in Waiting => ~Granted(u))
    BY <2>1, Holder
  <2>4. /\ UNCHANGED <<lock, next, signaled, pred, recycled>>
        /\ \/ /\ flag["readyFlag"][m] = "Event" /\ flag' = flag
              /\ pc' = [pc EXCEPT ![t] = "passEv"] /\ UNCHANGED <<node, succ>>
           \/ /\ flag["readyFlag"][m] # "Event"
              /\ flag' = [flag EXCEPT !["readyFlag"][m] = "Set"]
              /\ pc' = [pc EXCEPT ![t] = "idle"]
              /\ node' = [node EXCEPT ![t] = t] /\ succ' = [succ EXCEPT ![t] = NULL]
    <3>1. flag["readyFlag"][m] # "Set"
      BY <2>3 DEF Granted
    <3>2. flag["readyFlag"][m] \in {"Zero", "Set", "Event"}
      BY <2>1 DEF TypeOK
    <3> QED
      BY <1>b, <2>0, <3>1, <3>2
  <2> HIDE DEF Pass, FlagSet, Return
  <2>5. \A u \in Threads : pc'[u] \notin Holding /\ (u # t => pc'[u] = pc[u]) /\ pc'[t] \in {"passEv", "idle"}
    BY <2>3, <2>4 DEF TypeOK
  <2>6. TypeOK'
    <3>1. flag' \in [Flags -> [Nodes -> {"Zero", "Set", "Event"}]]
      <4> DEFINE V == {"Zero", "Set", "Event"}
      <4>1. flag \in [Flags -> [Nodes -> V]] /\ "readyFlag" \in Flags /\ m \in Nodes /\ "Set" \in V
        BY <2>1 DEF TypeOK
      <4>2. [flag EXCEPT !["readyFlag"][m] = "Set"] \in [Flags -> [Nodes -> V]]
        BY <4>1, Updated, Zenon
      <4> QED
        BY <2>4, <4>1, <4>2
    <3>2. pc' \in [Threads -> Points] /\ node' \in [Threads -> Nodes] /\ succ' \in [Threads -> Nodes \cup {NULL}]
      <4>1. pc \in [Threads -> Points] /\ node \in [Threads -> Nodes] /\ succ \in [Threads -> Nodes \cup {NULL}]
        BY DEF TypeOK
      <4>2. CASE pc' = [pc EXCEPT ![t] = "passEv"] /\ UNCHANGED <<node, succ>>
        BY <4>1, <4>2
      <4>3. CASE pc' = [pc EXCEPT ![t] = "idle"] /\ node' = [node EXCEPT ![t] = t] /\ succ' = [succ EXCEPT ![t] = NULL]
        BY <4>1, <4>3
      <4> QED
        BY <2>4, <4>2, <4>3
    <3> QED
      BY <2>2, <2>4, <3>1, <3>2 DEF TypeOK
  <2>7. Members'
    <3>1. ASSUME NEW u \in Threads PROVE Queued(u)' <=> \E i \in 1..Len(queue') : queue'[i] = u
      <4>1. Queued(u)' <=> pc'[u] \in Waiting
        BY <2>5 DEF Queued
      <4>2. Queued(u) <=> pc[u] \in Waiting \/ (u = t /\ node[t] = t)
        BY <2>1, <2>3 DEF Queued
      <4>3. pc'[u] \in Waiting <=> u # t /\ pc[u] \in Waiting
        BY <2>5
      <4>4. (\E i \in 1..Len(queue') : queue'[i] = u) <=> \E i \in 2..Len(queue) : queue[i] = u
        <5>1. ASSUME NEW i \in 1..Len(queue'), queue'[i] = u PROVE i + 1 \in 2..Len(queue) /\ queue[i + 1] = u
          BY <2>1, <2>2, <5>1
        <5>2. ASSUME NEW i \in 2..Len(queue), queue[i] = u PROVE i - 1 \in 1..Len(queue') /\ queue'[i - 1] = u
          <6>1. i - 1 \in 1..(Len(queue) - 1) /\ (i - 1) + 1 = i
            BY <2>1
          <6> QED
            BY <2>2, <5>2, <6>1
        <5> QED
          BY <5>1, <5>2
      <4>5. (\E i \in 2..Len(queue) : queue[i] = u) <=> u # queue[1] /\ \E i \in 1..Len(queue) : queue[i] = u
        BY <2>1 DEF Members
      <4>6. u # t /\ pc[u] \in Waiting => u # queue[1]
        BY <2>1 DEF Locals
      <4>7. Queued(u) <=> \E i \in 1..Len(queue) : queue[i] = u
        BY DEF Members
      <4>8. pc[t] \notin Waiting
        BY <2>1
      <4> QED
        BY <2>1, <4>1, <4>2, <4>3, <4>4, <4>5, <4>6, <4>7, <4>8
    <3>2. \A i, j \in 1..Len(queue') : queue'[i] = queue'[j] => i = j
      BY <2>1, <2>2 DEF Members
    <3>3. \A i \in 1..Len(queue') : queue'[i] # Proxy
      BY <2>1, <2>2 DEF Members
    <3> QED
      BY <3>1, <3>2, <3>3 DEF Members
  <2>8. Links'
    <3> SUFFICES ASSUME NEW i \in 1..(Len(queue') - 1) PROVE Linked(i)'
      BY DEF Links
    <3>1. i + 1 \in 1..(Len(queue) - 1) /\ queue'[i] = queue[i + 1] /\ queue'[i + 1] = queue[(i + 1) + 1]
      BY <2>1, <2>2
    <3>2. Linked(i + 1)
      BY <3>1 DEF Links
    <3>3. queue[(i + 1) + 1] \in Threads
      BY <2>1, <3>1 DEF Members
    <3>4. pc'[queue[(i + 1) + 1]] = "link" <=> pc[queue[(i + 1) + 1]] = "link"
      BY <2>1, <2>5, <3>3
    <3> QED
      BY <2>4, <3>1, <3>2, <3>4 DEF Linked
  <2>9. Tailed'
    BY <2>1, <2>2, <2>4 DEF Tailed
  <2>10. Locals'
    <3>1. queue'[1] = m
      BY <2>1, <2>2
    <3>2. \A u \in Threads : pc'[u] = "link" => queue'[1] # u
      BY <2>1, <2>5, <3>1
    <3>3. \A u \in Threads : node'[u] \in {u, Proxy} /\ (u # t => node'[u] = node[u])
      BY <2>4 DEF Locals, TypeOK
    <3> QED
      BY <2>4, <2>5, <3>2, <3>3 DEF Locals
  <2>11. MutualExclusion' /\ PassTarget'
    BY <2>5 DEF MutualExclusion, PassTarget
  <2>12. SignalTarget'
    <3>1. \A u \in Threads : pc'[u] = "passEv" => u = t /\ flag["readyFlag"][m] = "Event" /\ succ' = succ
      BY <2>3, <2>4 DEF TypeOK
    <3>2. flag["readyFlag"][m] = "Event" => pc[m] = "readyEv"
      BY <2>1 DEF ReadyFlags
    <3>3. ~signaled["readyFlag"][m] /\ queue'[1] = m /\ queue' # <<>> /\ pc'[m] = pc[m]
      BY <2>1, <2>2, <2>3, <2>5 DEF Granted
    <3>4. signaled' = signaled /\ succ[t] = m
      BY <2>0, <2>4
    <3>5. ASSUME NEW u \in Threads, pc'[u] = "passEv"
          PROVE  /\ queue' # <<>> /\ succ'[u] = queue'[1] /\ succ'[u] \in Threads
                 /\ pc'[succ'[u]] = "readyEv" /\ ~signaled'["readyFlag"][succ'[u]]
      BY <2>1, <3>1, <3>2, <3>3, <3>4, <3>5
    <3> QED
      BY <3>1, <3>5 DEF SignalTarget
  <2>13. ReadyFlags'
    <3>1. \A u \in Threads : flag'["readyFlag"][u] = "Event" <=> flag["readyFlag"][u] = "Event"
      BY <2>1, <2>4 DEF TypeOK
    <3> QED
      BY <2>1, <2>4, <2>5, <3>1 DEF ReadyFlags
  <2>14. HandoffIntact'
    <3> SUFFICES ASSUME NEW u \in Threads, pc'[u] \in Waiting
                 PROVE  Granted(u)' <=> (Unowned /\ queue # <<>> /\ queue[1] = u)'
      BY DEF HandoffIntact
    <3>1. Unowned' /\ queue' # <<>> /\ queue'[1] = m
      BY <2>2, <2>5 DEF Unowned
    <3>2. Granted(m)'
      <4>1. CASE pc' = [pc EXCEPT ![t] = "passEv"] /\ succ' = succ
        <5>1. pc'[t] = "passEv" /\ succ'[t] = m
          BY <2>0, <4>1 DEF TypeOK
        <5> QED
          BY <5>1 DEF Granted
      <4>2. CASE flag' = [flag EXCEPT !["readyFlag"][m] = "Set"]
        BY <2>1, <4>2 DEF Granted, TypeOK
      <4> QED
        BY <2>4, <4>1, <4>2
    <3>3. ASSUME u # m PROVE ~Granted(u)'
      <4>1. pc[u] \in Waiting /\ u # t
        BY <2>5
      <4>2. ~Granted(u)
        BY <4>1, <2>3
      <4>3. flag'["readyFlag"][u] = flag["readyFlag"][u]
        BY <2>1, <2>4, <3>3 DEF TypeOK
      <4>4. \A v \in Threads : pc'[v] = "passEv" => v = t /\ succ'[t] = m
        BY <2>0, <2>3, <2>4 DEF TypeOK
      <4> QED
        BY <2>4, <3>3, <4>2, <4>3, <4>4 DEF Granted
    <3> QED
      BY <3>1, <3>2, <3>3
  <2> QED
    BY <2>6, <2>7, <2>8, <2>9, <2>10, <2>11, <2>12, <2>13, <2>14
<1> QED
  BY <1>a, <1>b

(* The signal of the event that the head of the queue sleeps on.           *)
LEMMA PassEventIInv == ASSUME IInv, NEW t \in Threads, PassEvent(t) PROVE IInv'
<1> USE DEF IInv, QueueIntact, PassSound, PassEvent, SetEvent, Return, Points, Waiting, Linking, AwaitReady, Holding, Releasing, Transferring, AwaitNext
<1>1. TypeOK'
  BY DEF TypeOK
<1>2. Members'
  BY DEF TypeOK, Members, Queued, MutualExclusion, Locals, Tailed
<1>3. Links'
  BY DEF TypeOK, Links, Linked, Members, Queued, Tailed, Locals, MutualExclusion
<1>4. Tailed'
  BY DEF TypeOK, Members, Queued, Tailed, Locals, Links, Linked, MutualExclusion
<1>5. Locals'
  BY DEF TypeOK, Members, Queued, Tailed, Locals, MutualExclusion, PassTarget
<1>6. MutualExclusion'
  BY DEF TypeOK, Members, Queued, Tailed, Locals, MutualExclusion, HandoffIntact, Granted, Unowned, ReadyFlags
<1>7. PassTarget'
  BY DEF TypeOK, Members, Queued, PassTarget, MutualExclusion, Links, Linked, Tailed, Locals
<1>8. SignalTarget'
  BY DEF TypeOK, Members, Queued, SignalTarget, MutualExclusion, PassTarget, ReadyFlags, Locals, HandoffIntact, Granted, Unowned
<1>9. ReadyFlags'
  BY DEF TypeOK, Members, Queued, SignalTarget, ReadyFlags, MutualExclusion, PassTarget
<1>10. HandoffIntact'
  BY DEF TypeOK, Members, Queued, HandoffIntact, Granted, Unowned, SignalTarget, ReadyFlags, MutualExclusion, PassTarget, Tailed, Locals
<1> QED
  BY <1>1, <1>2, <1>3, <1>4, <1>5, <1>6, <1>7, <1>8, <1>9, <1>10

(* The owner moves to the proxy node, which is not queued.                 *)
LEMMA TransferIInv == ASSUME IInv, NEW t \in Threads, Transfer(t) PROVE IInv'
<1> USE DEF IInv, QueueIntact, PassSound, Transfer, ClearNode, Recycle, Moved, Points, Waiting, Linking, AwaitReady, Holding, Releasing, Transferring, AwaitNext
<1>1. TypeOK'
  <2>1. next' \in [Nodes -> Nodes \cup {NULL}] /\ flag' \in [Flags -> [Nodes -> {"Zero", "Set", "Event"}]]
    BY DEF TypeOK
  <2>2. recycled' \in BOOLEAN /\ signaled' \in [Flags -> [Nodes -> BOOLEAN]]
    BY DEF TypeOK
  <2>3. lock' \in Nodes \cup {NULL} /\ pc' \in [Threads -> Points] /\ node' \in [Threads -> Nodes]
    BY DEF TypeOK
  <2>4. queue' \in Seq(Nodes)
    <3>1. Len(queue) > 0 /\ queue \in Seq(Nodes)
      BY Holder DEF TypeOK
    <3> QED
      BY <3>1
  <2> QED
    BY <2>1, <2>2, <2>3, <2>4 DEF TypeOK
<1>2. Members'
  BY DEF TypeOK, Members, Queued, MutualExclusion, Locals, Tailed
<1>3. Links'
  BY DEF TypeOK, Links, Linked, Members, Queued, Tailed, Locals, MutualExclusion
<1>4. Tailed'
  BY DEF TypeOK, Members, Queued, Tailed, Locals, Links, Linked, MutualExclusion
<1>5. Locals'
  BY SMTT(60) DEF TypeOK, Members, Queued, Tailed, Locals, MutualExclusion, PassTarget
<1>6. MutualExclusion'
  BY SMTT(60) DEF TypeOK, Members, Queued, Tailed, Locals, MutualExclusion, HandoffIntact, Granted, Unowned, ReadyFlags
<1>7. PassTarget'
  BY DEF TypeOK, Members, Queued, PassTarget, MutualExclusion, Links, Linked, Tailed, Locals
<1>8. SignalTarget'
  BY SMTT(60) DEF TypeOK, Members, Queued, SignalTarget, MutualExclusion, PassTarget, ReadyFlags, Locals, HandoffIntact, Granted, Unowned
<1>9. ReadyFlags'
  BY DEF TypeOK, Members, Queued, SignalTarget, ReadyFlags, MutualExclusion, PassTarget
<1>10. HandoffIntact'
  BY DEF TypeOK, Members, Queued, HandoffIntact, Granted, Unowned, SignalTarget, ReadyFlags, MutualExclusion, PassTarget, Tailed, Locals
<1> QED
  BY <1>1, <1>2, <1>3, <1>4, <1>5, <1>6, <1>7, <1>8, <1>9, <1>10

LEMMA TransferLinkIInv == ASSUME IInv, NEW t \in Threads, TransferLink(t) PROVE IInv'
<1> USE DEF IInv, QueueIntact, PassSound, TransferLink, Moved, Points, Waiting, Linking, AwaitReady, Holding, Releasing, Transferring, AwaitNext
<1>1. TypeOK'
  <2>1. next' \in [Nodes -> Nodes \cup {NULL}]
    BY DEF TypeOK
  <2>2. pc' \in [Threads -> Points] /\ node' \in [Threads -> Nodes]
    BY DEF TypeOK
  <2>3. queue' \in Seq(Nodes)
    <3>1. Len(queue) > 0 /\ queue \in Seq(Nodes)
      BY Holder DEF TypeOK
    <3> QED
      BY <3>1
  <2> QED
    BY <2>1, <2>2, <2>3 DEF TypeOK
<1>2. Members'
  BY DEF TypeOK, Members, Queued, MutualExclusion, Locals, Tailed
<1>3. Links'
  BY DEF TypeOK, Links, Linked, Members, Queued, Tailed, Locals, MutualExclusion
<1>4. Tailed'
  BY DEF TypeOK, Members, Queued, Tailed, Locals, Links, Linked, MutualExclusion
<1>5. Locals'
  BY DEF TypeOK, Members, Queued, Tailed, Locals, MutualExclusion, PassTarget
<1>6. MutualExclusion'
  <2>1. PICK u \in Threads : Moved(t, u)
    OBVIOUS
  <2>2. pc[t] \in Holding /\ Len(queue) > 0 /\ queue \in Seq(Nodes)
    BY Holder DEF TypeOK
  <2>3. \A v \in Threads : pc[v] \in Holding => v = t
    BY <2>2, Holder
  <2>4. \A v \in Threads : pc'[v] \in Holding => v = u
    BY <2>1, <2>3 DEF TypeOK
  <2>5. queue' # <<>> /\ queue'[1] = Proxy /\ node'[u] = Proxy
    BY <2>1, <2>2 DEF TypeOK
  <2> QED
    BY <2>4, <2>5 DEF MutualExclusion
<1>7. PassTarget'
  BY DEF TypeOK, Members, Queued, PassTarget, MutualExclusion, Links, Linked, Tailed, Locals
<1>8. SignalTarget'
  <2>1. \A u \in Threads : pc[u] # "passEv"
    BY Holder
  <2>2. \A u \in Threads : pc'[u] # "passEv"
    BY <2>1 DEF TypeOK
  <2> QED
    BY <2>2 DEF SignalTarget
<1>9. ReadyFlags'
  BY DEF TypeOK, Members, Queued, SignalTarget, ReadyFlags, MutualExclusion, PassTarget
<1>10. HandoffIntact'
  BY DEF TypeOK, Members, Queued, HandoffIntact, Granted, Unowned, SignalTarget, ReadyFlags, MutualExclusion, PassTarget, Tailed, Locals
<1> QED
  BY <1>1, <1>2, <1>3, <1>4, <1>5, <1>6, <1>7, <1>8, <1>9, <1>10

(* An unlocked lock satisfies the invariant.                               *)
LEMMA InitIInv == Init => IInv
<1> SUFFICES ASSUME Init PROVE IInv
  OBVIOUS
<1> USE DEF Init, Points, Waiting, Linking, AwaitReady, Holding, Releasing, Transferring, AwaitNext
<1>1. TypeOK
  <2>1. /\ flag \in [Flags -> [Nodes -> {"Zero", "Set", "Event"}]]
        /\ next \in [Nodes -> Nodes \cup {NULL}] /\ lock \in Nodes \cup {NULL}
    OBVIOUS
  <2>2. signaled \in [Flags -> [Nodes -> BOOLEAN]] /\ recycled \in BOOLEAN
    OBVIOUS
  <2>3. /\ pc \in [Threads -> Points] /\ node \in [Threads -> Nodes]
        /\ pred \in [Threads -> Nodes \cup {NULL}] /\ succ \in [Threads -> Nodes \cup {NULL}]
    OBVIOUS
  <2>4. queue \in Seq(Nodes)
    OBVIOUS
  <2> QED
    BY <2>1, <2>2, <2>3, <2>4 DEF TypeOK
<1>2. QueueIntact
  BY DEF QueueIntact, Members, Queued, Links, Tailed, Locals
<1>3. MutualExclusion /\ HandoffIntact
  BY DEF MutualExclusion, HandoffIntact
<1>4. PassSound
  BY DEF PassSound, PassTarget, SignalTarget, ReadyFlags
<1> QED
  BY <1>1, <1>2, <1>3, <1>4 DEF IInv

LEMMA NextIInv == IInv /\ [Next]_vars => IInv'
<1> SUFFICES ASSUME IInv, [Next]_vars PROVE IInv'
  OBVIOUS
<1>1. CASE Next
  <2>1. PICK t \in Threads : Call(t) \/ Step(t)
    BY <1>1 DEF Next
  <2>2. CASE Call(t)
    BY <2>2, AcquireIInv, TryAcquireIInv, TransferIInv DEF Call
  <2>3. CASE Step(t)
    BY <2>3, LinkIInv, NotifyIInv, NotifyEventIInv, WaitReadyIInv, ReleaseIInv, ReleaseCasIInv,
       WaitNextIInv, ReleaseRereadIInv, PassIInv, PassEventIInv, TransferLinkIInv DEF Step
  <2> QED
    BY <2>1, <2>2, <2>3
<1>2. CASE UNCHANGED vars
  <2>1. TypeOK' /\ Members' /\ Tailed' /\ Locals'
    BY <1>2 DEF vars, IInv, TypeOK, QueueIntact, Members, Queued, Tailed, Locals
  <2>2. Links'
    BY <1>2 DEF vars, IInv, QueueIntact, Links, Linked
  <2>3. MutualExclusion' /\ HandoffIntact'
    BY <1>2 DEF vars, IInv, MutualExclusion, HandoffIntact, Granted, Unowned
  <2>4. PassSound'
    BY <1>2 DEF vars, IInv, PassSound, PassTarget, SignalTarget, ReadyFlags
  <2> QED
    BY <2>1, <2>2, <2>3, <2>4 DEF IInv, QueueIntact
<1> QED
  BY <1>1, <1>2

(* The queue in memory is the order of the claims, one thread owns the     *)
(* lock, and no handoff is lost or early: the inductive invariant.         *)
THEOREM Invariance == Spec => []IInv
BY InitIInv, NextIInv, PTL DEF Spec

(***************************************************************************)
(* The lock implements the first-come first-served lock.                   *)
(***************************************************************************)
(* The owner of the abstract lock is the oldest claim while some thread    *)
(* holds the lock.                                                         *)
Abstract ==
    /\ Unowned => ownerBar = NULL /\ waitingBar = queue
    /\ ~Unowned => queue # <<>> /\ ownerBar = queue[1] /\ waitingBar = Tail(queue)

LEMMA AbstractHolds == IInv => Abstract
<1> SUFFICES ASSUME IInv PROVE Abstract
  OBVIOUS
<1>1. Unowned <=> Owners = {}
  BY DEF Unowned, Owners
<1>2. ASSUME ~Unowned PROVE queue # <<>> /\ ownerBar = queue[1]
  <2>1. PICK t \in Threads : pc[t] \in Holding
    BY <1>2 DEF Unowned
  <2>2. queue # <<>> /\ queue[1] = node[t] /\ \A u \in Threads : pc[u] \in Holding => u = t
    BY <2>1 DEF IInv, MutualExclusion
  <2>3. Owners = {queue[1]}
    BY <2>1, <2>2 DEF Owners
  <2> QED
    BY <2>2, <2>3 DEF ownerBar
<1> QED
  BY <1>1, <1>2 DEF Abstract, ownerBar, waitingBar

(* Steps that neither queue, pass nor move a claim.                        *)
LEMMA Stutters ==
    ASSUME Abstract, Abstract', queue' = queue, Unowned' <=> Unowned
    PROVE  UNCHANGED Fifo!vars
BY DEF Abstract, Fifo!vars

LEMMA Enters ==
    ASSUME IInv, Abstract, Abstract', NEW t \in Threads, Acquire(t) \/ (TryAcquire(t) /\ lock = NULL)
    PROVE  Fifo!Enter(t)
<1>1. /\ queue \in Seq(Nodes) /\ (lock = NULL <=> queue = <<>>)
      /\ \A i \in 1..Len(queue) : queue[i] # t
      /\ queue' = Append(queue, t)
      /\ pc' = [pc EXCEPT ![t] = IF lock = NULL THEN "crit" ELSE "link"] /\ pc[t] = "idle"
  <2>1. queue \in Seq(Nodes) /\ (lock = NULL <=> queue = <<>>)
    BY DEF IInv, TypeOK, QueueIntact, Tailed
  <2>2. pc[t] = "idle"
    BY DEF Acquire, TryAcquire
  <2>3. \A i \in 1..Len(queue) : queue[i] # t
    BY <2>2, Idle
  <2> QED
    BY <2>1, <2>2, <2>3 DEF Acquire, TryAcquire
<1>2. t # ownerBar /\ t \notin {waitingBar[i] : i \in DOMAIN waitingBar}
  <2>1. CASE Unowned
    <3>1. ownerBar = NULL /\ waitingBar = queue
      BY <2>1 DEF Abstract
    <3> QED
      BY <1>1, <3>1
  <2>2. CASE ~Unowned
    <3>1. queue # <<>> /\ ownerBar = queue[1] /\ waitingBar = Tail(queue)
      BY <2>2 DEF Abstract
    <3>2. ASSUME NEW i \in DOMAIN Tail(queue) PROVE Tail(queue)[i] # t
      <4>1. Len(Tail(queue)) = Len(queue) - 1 /\ i \in 1..(Len(queue) - 1) /\ Tail(queue)[i] = queue[i + 1]
        BY <1>1, <3>1
      <4> QED
        BY <1>1, <4>1
    <3>3. Len(queue) > 0
      BY <1>1, <3>1
    <3> QED
      BY <1>1, <3>1, <3>2, <3>3
  <2> QED
    BY <2>1, <2>2
<1>3. CASE lock = NULL
  <2>1. Unowned
    BY <1>1, <1>3 DEF IInv, MutualExclusion, Unowned
  <2>2. ~Unowned'
    BY <1>1, <1>3 DEF IInv, TypeOK, Unowned, Holding
  <2>3. ownerBar = NULL /\ waitingBar = <<>>
    BY <1>1, <1>3, <2>1 DEF Abstract
  <2>4. queue' = <<t>> /\ queue'[1] = t /\ Tail(queue') = <<>>
    BY <1>1, <1>3
  <2>5. ownerBar' = t /\ waitingBar' = <<>>
    BY <2>2, <2>4 DEF Abstract
  <2> QED
    BY <1>2, <2>3, <2>5 DEF Fifo!Enter, Fifo!Claimed
<1>4. CASE lock # NULL
  <2>1. Unowned' <=> Unowned
    BY <1>1, <1>4 DEF IInv, TypeOK, Unowned, Holding, Releasing, Transferring, AwaitNext
  <2>2. queue # <<>> /\ Len(queue) > 0 /\ queue'[1] = queue[1] /\ Tail(queue') = Append(Tail(queue), t)
    BY <1>1, <1>4
  <2>3. waitingBar' = Append(waitingBar, t) /\ ownerBar' = ownerBar
    BY <1>1, <2>1, <2>2 DEF Abstract
  <2>4. ~(ownerBar = NULL /\ waitingBar = <<>>)
    <3>1. Unowned => waitingBar # <<>>
      BY <2>2 DEF Abstract
    <3>2. ~Unowned => ownerBar # NULL
      BY <1>1, <2>2 DEF Abstract
    <3> QED
      BY <3>1, <3>2
  <2> QED
    BY <1>2, <2>3, <2>4 DEF Fifo!Enter, Fifo!Claimed
<1> QED
  BY <1>3, <1>4

LEMMA Grants ==
    ASSUME IInv, IInv', Abstract, Abstract', NEW t \in Threads, WaitReady(t)
    PROVE  Fifo!Grant \/ UNCHANGED Fifo!vars
<1> USE DEF WaitReady, FlagWaitCas, FlagWaitEvent
<1>1. queue' = queue /\ pc \in [Threads -> Points] /\ pc[t] \in Waiting
      /\ (pc' = [pc EXCEPT ![t] = "readyEv"] \/ pc' = [pc EXCEPT ![t] = "crit"])
  BY DEF IInv, TypeOK, Waiting, AwaitReady
<1> HIDE DEF WaitReady
<1>2. CASE pc' = [pc EXCEPT ![t] = "readyEv"]
  <2>1. Unowned' <=> Unowned
    BY <1>1, <1>2 DEF Unowned, Holding, Releasing, Transferring, AwaitNext, Waiting, Linking, AwaitReady
  <2> QED
    BY <1>1, <2>1, Stutters
<1>3. CASE pc' = [pc EXCEPT ![t] = "crit"]
  <2>1. pc'[t] \in Holding /\ ~Unowned'
    BY <1>1, <1>3 DEF Unowned, Holding
  <2>2. Unowned
    <3> SUFFICES ASSUME NEW u \in Threads, pc[u] \in Holding PROVE FALSE
      BY DEF Unowned
    <3>1. u # t
      BY <1>1 DEF Holding, Releasing, Transferring, AwaitNext, Waiting, Linking, AwaitReady
    <3>2. pc'[u] \in Holding
      BY <1>1, <1>3, <3>1
    <3> QED
      BY <2>1, <3>1, <3>2 DEF IInv, MutualExclusion
  <2>3. ownerBar = NULL /\ waitingBar = queue
    BY <2>2 DEF Abstract
  <2>4. queue # <<>> /\ ownerBar' = queue[1] /\ waitingBar' = Tail(queue)
    BY <1>1, <2>1 DEF Abstract
  <2>5. Head(queue) = queue[1]
    BY <2>4 DEF IInv, TypeOK
  <2> QED
    BY <2>3, <2>4, <2>5 DEF Fifo!Grant
<1> QED
  BY <1>1, <1>2, <1>3

(* The owner takes its claim out of the queue.                             *)
LEMMA Leaves ==
    ASSUME IInv, Abstract, Abstract', NEW t \in Threads, pc[t] \in Holding,
           queue' = Tail(queue), NEW p \in {"idle", "passEv"}, pc' = [pc EXCEPT ![t] = p]
    PROVE  Fifo!Leave
<1>1. ~Unowned
  BY DEF Unowned
<1>2. Unowned'
  BY Holder DEF IInv, TypeOK, Unowned, Holding, Releasing, Transferring, AwaitNext
<1>3. queue # <<>> /\ ownerBar = queue[1] /\ waitingBar = Tail(queue)
  BY <1>1 DEF Abstract
<1>4. ownerBar # NULL
  BY <1>3 DEF IInv, TypeOK
<1>5. ownerBar' = NULL /\ waitingBar' = waitingBar
  BY <1>2, <1>3 DEF Abstract
<1> QED
  BY <1>4, <1>5 DEF Fifo!Leave

LEMMA Releases ==
    ASSUME IInv, Abstract, Abstract', NEW t \in Threads, ReleaseCas(t) \/ Pass(t)
    PROVE  Fifo!Leave \/ UNCHANGED Fifo!vars
<1>1. pc \in [Threads -> Points] /\ pc[t] \in {"relCas", "pass"} /\ pc[t] \in Holding
  BY DEF IInv, TypeOK, ReleaseCas, Pass, Holding, Releasing
<1>2. \/ queue' = queue /\ (pc' = [pc EXCEPT ![t] = "nextCas"] \/ pc' = [pc EXCEPT ![t] = "fault"])
      \/ queue' = Tail(queue) /\ (pc' = [pc EXCEPT ![t] = "idle"] \/ pc' = [pc EXCEPT ![t] = "passEv"])
  BY DEF ReleaseCas, Pass, Return
<1>3. CASE queue' = queue /\ (pc' = [pc EXCEPT ![t] = "nextCas"] \/ pc' = [pc EXCEPT ![t] = "fault"])
  <2>1. Unowned' <=> Unowned
    BY <1>1, <1>3 DEF Unowned, Holding, Releasing, Transferring, AwaitNext
  <2> QED
    BY <1>3, <2>1, Stutters
<1>4. CASE queue' = Tail(queue) /\ (pc' = [pc EXCEPT ![t] = "idle"] \/ pc' = [pc EXCEPT ![t] = "passEv"])
  BY <1>1, <1>4, Leaves
<1> QED
  BY <1>2, <1>3, <1>4

(* The owner moves its claim to the proxy node.                            *)
LEMMA Moves ==
    ASSUME IInv, Abstract, Abstract', NEW t \in Threads, pc[t] \in Holding, node[t] = t,
           NEW u \in Threads, Moved(t, u)
    PROVE  Fifo!Move(Proxy)
<1>1. /\ queue \in Seq(Nodes) /\ queue # <<>> /\ queue[1] = t /\ ~Unowned /\ ~Unowned'
      /\ \A i \in 1..Len(queue) : queue[i] # Proxy
  <2>1. queue \in Seq(Nodes) /\ Len(queue) > 0 /\ queue[1] = t
    BY Holder DEF IInv, TypeOK
  <2>2. \A i \in 1..Len(queue) : queue[i] # Proxy
    BY <2>1 DEF IInv, QueueIntact, Members
  <2>3. ~Unowned
    BY DEF Unowned
  <2>4. pc'[u] = "crit"
    BY DEF Moved, IInv, TypeOK
  <2> QED
    BY <2>1, <2>2, <2>3, <2>4 DEF Unowned, Holding
<1>2. queue' = [queue EXCEPT ![1] = Proxy]
  BY DEF Moved
<1>3. queue'[1] = Proxy /\ Tail(queue') = Tail(queue)
  <2>1. queue' \in Seq(Nodes) /\ Len(queue') = Len(queue) /\ queue'[1] = Proxy
    BY <1>1, <1>2
  <2>2. Tail(queue') \in Seq(Nodes) /\ Tail(queue) \in Seq(Nodes) /\ Len(Tail(queue')) = Len(Tail(queue))
    BY <1>1, <2>1
  <2>3. ASSUME NEW i \in 1..Len(Tail(queue)) PROVE Tail(queue')[i] = Tail(queue)[i]
    BY <1>1, <1>2, <2>1
  <2> QED
    BY <2>1, <2>2, <2>3
<1>4. ownerBar = t /\ waitingBar = Tail(queue) /\ ownerBar' = Proxy /\ waitingBar' = Tail(queue)
  BY <1>1, <1>3 DEF Abstract
<1>5. Proxy \notin {Tail(queue)[i] : i \in DOMAIN Tail(queue)}
  <2> SUFFICES ASSUME NEW i \in DOMAIN Tail(queue) PROVE Tail(queue)[i] # Proxy
    OBVIOUS
  <2>1. i \in 1..(Len(queue) - 1) /\ Tail(queue)[i] = queue[i + 1]
    BY <1>1
  <2> QED
    BY <1>1, <2>1
<1> QED
  BY <1>4, <1>5 DEF Fifo!Move, Fifo!Claimed

LEMMA Transfers ==
    ASSUME IInv, Abstract, Abstract', NEW t \in Threads, Transfer(t) \/ TransferLink(t)
    PROVE  Fifo!Move(Proxy) \/ UNCHANGED Fifo!vars
<1>1. pc \in [Threads -> Points] /\ pc[t] \in {"crit", "spin"} /\ pc[t] \in Holding /\ node[t] = t
  BY DEF IInv, TypeOK, QueueIntact, Locals, Transfer, TransferLink, Holding, Transferring
<1>2. (\E u \in Threads : Moved(t, u)) \/ (queue' = queue /\ pc' = [pc EXCEPT ![t] = "spin"])
  BY DEF Transfer, TransferLink
<1>3. CASE queue' = queue /\ pc' = [pc EXCEPT ![t] = "spin"]
  <2>1. Unowned' <=> Unowned
    BY <1>1, <1>3 DEF Unowned, Holding, Releasing, Transferring, AwaitNext
  <2> QED
    BY <1>3, <2>1, Stutters
<1> QED
  BY <1>1, <1>2, <1>3, Moves

(* The other steps of a call leave the abstract lock as it is.             *)
LEMMA Others ==
    ASSUME IInv, Abstract, Abstract', NEW t \in Threads,
           \/ Link(t) \/ Notify(t) \/ NotifyEvent(t) \/ Release(t) \/ WaitNext(t)
           \/ ReleaseReread(t) \/ PassEvent(t) \/ (TryAcquire(t) /\ lock # NULL)
    PROVE  UNCHANGED Fifo!vars
<1>1. queue' = queue
  BY DEF Link, Notify, NotifyEvent, Release, WaitNext, FlagWaitCas, FlagWaitEvent, ReleaseReread, PassEvent, TryAcquire
<1>2. Unowned' <=> Unowned
  <2> USE DEF IInv, TypeOK, Unowned, Points, Waiting, Linking, AwaitReady, Holding, Releasing, Transferring, AwaitNext
  <2>1. CASE Link(t) \/ Notify(t) \/ NotifyEvent(t)
    BY <2>1 DEF Link, Notify, NotifyEvent
  <2>2. CASE Release(t) \/ ReleaseReread(t) \/ WaitNext(t)
    BY <2>2 DEF Release, ReleaseReread, WaitNext, FlagWaitCas, FlagWaitEvent
  <2>3. CASE PassEvent(t) \/ (TryAcquire(t) /\ lock # NULL)
    BY <2>3 DEF PassEvent, Return, TryAcquire
  <2> QED
    BY <2>1, <2>2, <2>3
<1> QED
  BY <1>1, <1>2, Stutters

LEMMA FifoInit == Init => Fifo!Init
BY DEF Init, Fifo!Init, ownerBar, waitingBar, Owners, Holding, Releasing, Transferring, AwaitNext

LEMMA FifoNext == IInv /\ IInv' /\ Abstract /\ Abstract' /\ [Next]_vars => [Fifo!Next]_(Fifo!vars)
<1> SUFFICES ASSUME IInv, IInv', Abstract, Abstract', [Next]_vars PROVE Fifo!Next \/ UNCHANGED Fifo!vars
  BY DEF Fifo!vars
<1>1. CASE UNCHANGED vars
  BY <1>1, Stutters DEF vars, Unowned
<1>2. CASE Next
  <2>1. PICK t \in Threads : Call(t) \/ Step(t)
    BY <1>2 DEF Next
  <2>2. CASE Acquire(t) \/ (TryAcquire(t) /\ lock = NULL)
    <3>1. t \in Nodes
      OBVIOUS
    <3> QED
      BY <2>2, <3>1, Enters DEF Fifo!Next
  <2>3. CASE WaitReady(t)
    BY <2>3, Grants DEF Fifo!Next
  <2>4. CASE ReleaseCas(t) \/ Pass(t)
    BY <2>4, Releases DEF Fifo!Next
  <2>5. CASE Transfer(t) \/ TransferLink(t)
    <3>1. Proxy \in Nodes
      OBVIOUS
    <3> QED
      BY <2>5, <3>1, Transfers DEF Fifo!Next
  <2>6. CASE \/ Link(t) \/ Notify(t) \/ NotifyEvent(t) \/ Release(t) \/ WaitNext(t)
             \/ ReleaseReread(t) \/ PassEvent(t) \/ (TryAcquire(t) /\ lock # NULL)
    BY <2>6, Others
  <2> QED
    BY <2>1, <2>2, <2>3, <2>4, <2>5, <2>6 DEF Call, Step
<1> QED
  BY <1>1, <1>2

(* Every step of ptw32_mcs_lock_acquire, _try_acquire, _release and        *)
(* ptw32_mcs_node_transfer is a step of the first-come first-served lock,  *)
(* or none: claims own the lock one at a time and in their order.          *)
THEOREM ServesInOrder == Spec => ImplementsFifo
BY Invariance, AbstractHolds, FifoInit, FifoNext, PTL DEF Spec, ImplementsFifo, Fifo!Spec
=============================================================================
