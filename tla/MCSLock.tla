------------------------------ MODULE MCSLock ------------------------------
(***************************************************************************)
(* The queue lock of pthreads-win32, ptw32_MCS_lock.c.  Every internal     *)
(* lock of the library (once, barriers, thread reuse, TSD keys, condition  *)
(* variable list, robust lists) is one of these.                           *)
(*                                                                         *)
(* The lock is a pointer to the last node of a queue of nodes that live in *)
(* the frames of the contending threads.  Thread t's frame node is named   *)
(* t; Proxy is a node in global memory, the barrier's b->proxynode, to     *)
(* which an owner may move its place (ptw32_mcs_node_transfer) so that     *)
(* another thread can release on its behalf.                               *)
(*                                                                         *)
(* One step is one interlocked operation, one shared read or write, or one *)
(* event call.  A "flag" is 0, -1 or an event handle: Zero, Set, Event.    *)
(* signaled[f][n] is the state of the event whose handle is in flag f of   *)
(* node n; the value of a closed handle may be given out again, so an      *)
(* event is identified by the flag that it is created for.  (SetEvent on a *)
(* closed handle that is not given out again does nothing; that is the     *)
(* same as SetEvent before the next event is created, which resets it.)    *)
(***************************************************************************)
EXTENDS Naturals, Sequences

CONSTANTS Threads,   \* the threads that use the lock
          Proxy,     \* the global node of ptw32_mcs_node_transfer
          NULL       \* the null pointer

ASSUME ProxyAssumption == Proxy \notin Threads
ASSUME NullAssumption == NULL \notin Threads \cup {Proxy}

Nodes == Threads \cup {Proxy}

Flags == {"nextFlag", "readyFlag"}

VARIABLES lock,      \* *lock: the last node of the queue, or NULL
          next,      \* node->next
          flag,      \* flag[f][n]: node n's nextFlag or readyFlag
          signaled,  \* signaled[f][n]: the event in that flag is signaled
          pc,        \* where each thread is
          node,      \* the node argument of the call that the thread is in
          pred,      \* the local pred of ptw32_mcs_lock_acquire
          succ,      \* the local next of ptw32_mcs_lock_release
          queue,     \* history: the queued nodes in the order of their exchange
          recycled   \* history: a node was used again too early (see Recycle)

vars == <<lock, next, flag, signaled, pc, node, pred, succ, queue, recycled>>

(***************************************************************************)
(* Program points.                                                         *)
(***************************************************************************)
Linking == {"link", "notify", "notifyEv"}

AwaitReady == {"readyCas", "readyEv"}

Waiting == Linking \cup AwaitReady

AwaitNext == {"nextCas", "nextEv"}

Releasing == {"relCas", "reread", "pass", "fault"} \cup AwaitNext

Transferring == {"spin"}

Holding == {"crit"} \cup Releasing \cup Transferring

Points == {"idle", "passEv"} \cup Waiting \cup Holding

Init == /\ lock = NULL
        /\ next = [n \in Nodes |-> NULL]
        /\ flag = [f \in Flags |-> [n \in Nodes |-> "Zero"]]
        /\ signaled = [f \in Flags |-> [n \in Nodes |-> FALSE]]
        /\ pc = [t \in Threads |-> "idle"]
        /\ node = [t \in Threads |-> t]
        /\ pred = [t \in Threads |-> NULL]
        /\ succ = [t \in Threads |-> NULL]
        /\ queue = <<>>
        /\ recycled = FALSE

Goto(t, p) == pc' = [pc EXCEPT ![t] = p]

(* The interlocked half of ptw32_mcs_flag_set on flag f of node n: -1 when *)
(* the flag is 0; the caller signals an event that it finds there.  (For   *)
(* -1 the code calls SetEvent with no handle of an event, to no effect.)   *)
FlagSet(f, n) ==
    flag' = IF flag[f][n] = "Zero" THEN [flag EXCEPT ![f][n] = "Set"] ELSE flag

(* SetEvent on what ptw32_mcs_flag_set found in the flag.                  *)
SetEvent(f, n) == signaled' = [signaled EXCEPT ![f][n] = TRUE]

(* ptw32_mcs_flag_wait in two steps.  The first is CreateEvent with the    *)
(* compare-and-exchange that publishes it; the plain read before it only   *)
(* saves the event when the flag is already set, and ends the same way.    *)
FlagWaitCas(t, f, n, wait, done) ==
    /\ IF flag[f][n] = "Zero"
       THEN /\ flag' = [flag EXCEPT ![f][n] = "Event"]
            /\ signaled' = [signaled EXCEPT ![f][n] = FALSE]
            /\ Goto(t, wait)
       ELSE /\ Goto(t, done)
            /\ UNCHANGED <<flag, signaled>>
    /\ UNCHANGED <<lock, next, node, pred, succ, queue, recycled>>

(* The second is the wait on the event, which resets it.                   *)
FlagWaitEvent(t, f, n, done) ==
    /\ signaled[f][n]
    /\ signaled' = [signaled EXCEPT ![f][n] = FALSE]   \* auto-reset
    /\ Goto(t, done)
    /\ UNCHANGED <<lock, next, flag, node, pred, succ, queue, recycled>>

(* Some thread has linked itself behind n, or is about to, and has not yet *)
(* finished ptw32_mcs_flag_set(&n->nextFlag).                              *)
LateNotifier(n) == \E u \in Threads : pc[u] \in Linking /\ pred[u] = n

(* Node n is used again; the code does not wait for a late notifier.       *)
Recycle(n) == recycled' = (recycled \/ LateNotifier(n))

(* node->nextFlag = 0; node->readyFlag = 0; node->next = 0                 *)
ClearNode(n) ==
    /\ next' = [next EXCEPT ![n] = NULL]
    /\ flag' = [f \in Flags |-> [flag[f] EXCEPT ![n] = "Zero"]]

(***************************************************************************)
(* ptw32_mcs_lock_acquire                                                  *)
(***************************************************************************)
Acquire(t) ==
    /\ pc[t] = "idle"
    /\ ClearNode(t)
    /\ Recycle(t)
    /\ lock' = t
    /\ pred' = [pred EXCEPT ![t] = lock]
    /\ node' = [node EXCEPT ![t] = t]
    /\ queue' = Append(queue, t)
    /\ Goto(t, IF lock = NULL THEN "crit" ELSE "link")
    /\ UNCHANGED <<signaled, succ>>

Link(t) ==
    /\ pc[t] = "link"
    /\ next' = [next EXCEPT ![pred[t]] = t]
    /\ Goto(t, "notify")
    /\ UNCHANGED <<lock, flag, signaled, node, pred, succ, queue, recycled>>

Notify(t) ==
    /\ pc[t] = "notify"
    /\ FlagSet("nextFlag", pred[t])
    /\ IF flag["nextFlag"][pred[t]] = "Event"
       THEN /\ Goto(t, "notifyEv")
            /\ UNCHANGED pred
       ELSE /\ Goto(t, "readyCas")
            /\ pred' = [pred EXCEPT ![t] = NULL]          \* not used again
    /\ UNCHANGED <<lock, next, signaled, node, succ, queue, recycled>>

NotifyEvent(t) ==
    /\ pc[t] = "notifyEv"
    /\ SetEvent("nextFlag", pred[t])
    /\ Goto(t, "readyCas")
    /\ pred' = [pred EXCEPT ![t] = NULL]
    /\ UNCHANGED <<lock, next, flag, node, succ, queue, recycled>>

WaitReady(t) ==
    \/ /\ pc[t] = "readyCas"
       /\ FlagWaitCas(t, "readyFlag", t, "readyEv", "crit")
    \/ /\ pc[t] = "readyEv"
       /\ FlagWaitEvent(t, "readyFlag", t, "crit")

(***************************************************************************)
(* ptw32_mcs_lock_try_acquire                                              *)
(***************************************************************************)

TryAcquire(t) ==
    /\ pc[t] = "idle"
    /\ ClearNode(t)
    /\ Recycle(t)
    /\ IF lock = NULL
       THEN /\ lock' = t
            /\ node' = [node EXCEPT ![t] = t]
            /\ queue' = Append(queue, t)
            /\ Goto(t, "crit")
       ELSE UNCHANGED <<lock, node, queue, pc>>          \* EBUSY
    /\ UNCHANGED <<signaled, pred, succ>>

(***************************************************************************)
(* ptw32_mcs_lock_release(n), n the frame node or Proxy                    *)
(***************************************************************************)
Return(t) ==
    /\ Goto(t, "idle")
    /\ node' = [node EXCEPT ![t] = t]
    /\ succ' = [succ EXCEPT ![t] = NULL]

Release(t) ==
    /\ pc[t] = "crit"
    /\ succ' = [succ EXCEPT ![t] = next[node[t]]]
    /\ Goto(t, IF next[node[t]] = NULL THEN "relCas" ELSE "pass")
    /\ UNCHANGED <<lock, next, flag, signaled, node, pred, queue, recycled>>

(* Wrong variant: a store instead of the compare-and-exchange.             *)
ReleaseCasMutant(t) ==
    /\ pc[t] = "relCas"
    /\ lock' = NULL
    /\ queue' = Tail(queue)
    /\ Return(t)
    /\ UNCHANGED <<next, flag, signaled, pred, recycled>>

ReleaseCas(t) ==
    /\ pc[t] = "relCas"
    /\ IF lock = node[t]
       THEN /\ lock' = NULL
            /\ queue' = Tail(queue)
            /\ Return(t)
       ELSE /\ Goto(t, "nextCas")
            /\ UNCHANGED <<lock, node, succ, queue>>
    /\ UNCHANGED <<next, flag, signaled, pred, recycled>>

WaitNext(t) ==
    \/ /\ pc[t] = "nextCas"
       /\ FlagWaitCas(t, "nextFlag", node[t], "nextEv", "reread")
    \/ /\ pc[t] = "nextEv"
       /\ FlagWaitEvent(t, "nextFlag", node[t], "reread")

ReleaseReread(t) ==
    /\ pc[t] = "reread"
    /\ succ' = [succ EXCEPT ![t] = next[node[t]]]
    /\ Goto(t, "pass")
    /\ UNCHANGED <<lock, next, flag, signaled, node, pred, queue, recycled>>

(* ptw32_mcs_flag_set(&next->readyFlag): an access violation if next is    *)
(* still null.                                                             *)
Pass(t) ==
    /\ pc[t] = "pass"
    /\ IF succ[t] = NULL
       THEN /\ Goto(t, "fault")
            /\ UNCHANGED <<flag, node, succ, queue>>
       ELSE /\ FlagSet("readyFlag", succ[t])
            /\ queue' = Tail(queue)
            /\ IF flag["readyFlag"][succ[t]] = "Event"
               THEN Goto(t, "passEv") /\ UNCHANGED <<node, succ>>
               ELSE Return(t)
    /\ UNCHANGED <<lock, next, signaled, pred, recycled>>

PassEvent(t) ==
    /\ pc[t] = "passEv"
    /\ SetEvent("readyFlag", succ[t])
    /\ Return(t)
    /\ UNCHANGED <<lock, next, flag, pred, queue, recycled>>

(***************************************************************************)
(* ptw32_mcs_node_transfer(&Proxy, &t), by the owner                       *)
(***************************************************************************)
(* The transfer is complete: thread u, t itself or one that is in no call, *)
(* will release through Proxy (the last thread out of the barrier).        *)
Moved(t, u) ==
    /\ u = t \/ pc[u] = "idle"
    /\ pc' = [pc EXCEPT ![t] = "idle", ![u] = "crit"]
    /\ node' = [node EXCEPT ![u] = Proxy]
    /\ queue' = [queue EXCEPT ![1] = Proxy]

(* Wrong variant: a store instead of the compare-and-exchange.             *)
TransferMutant(t) ==
    /\ pc[t] = "crit"
    /\ node[t] = t
    /\ ClearNode(Proxy)
    /\ Recycle(Proxy)
    /\ lock' = Proxy
    /\ \E u \in Threads : Moved(t, u)
    /\ UNCHANGED <<signaled, pred, succ>>

Transfer(t) ==
    /\ pc[t] = "crit"
    /\ node[t] = t
    /\ ClearNode(Proxy)
    /\ Recycle(Proxy)
    /\ \/ /\ lock = t
          /\ lock' = Proxy
          /\ \E u \in Threads : Moved(t, u)
       \/ /\ lock # t
          /\ Goto(t, "spin")
          /\ UNCHANGED <<lock, node, queue>>
    /\ UNCHANGED <<signaled, pred, succ>>

(* Wrong variant: the loop looks at the next field of the new node.        *)
TransferLinkMutant(t) ==
    /\ pc[t] = "spin"
    /\ next[Proxy] = NULL
    /\ UNCHANGED vars

TransferLink(t) ==
    /\ pc[t] = "spin"
    /\ next[t] # NULL                    \* while (old_node->next == 0) sched_yield
    /\ next' = [next EXCEPT ![Proxy] = next[t]]
    /\ \E u \in Threads : Moved(t, u)
    /\ UNCHANGED <<lock, flag, signaled, pred, succ, recycled>>

Call(t) == Acquire(t) \/ TryAcquire(t) \/ Transfer(t)

Step(t) == \/ Link(t) \/ Notify(t) \/ NotifyEvent(t) \/ WaitReady(t)
           \/ Release(t) \/ ReleaseCas(t) \/ WaitNext(t)
           \/ ReleaseReread(t) \/ Pass(t) \/ PassEvent(t) \/ TransferLink(t)

Next == \E t \in Threads : Call(t) \/ Step(t)

Spec == Init /\ [][Next]_vars

(* A thread inside a call keeps running, and an owner releases the lock.   *)
FairSpec == Spec /\ \A t \in Threads : WF_vars(Step(t))

(***************************************************************************)
(* Properties                                                              *)
(***************************************************************************)
(* Type invariant of the lock word, the nodes and the threads' locals.     *)
TypeOK ==
    /\ lock \in Nodes \cup {NULL}
    /\ next \in [Nodes -> Nodes \cup {NULL}]
    /\ flag \in [Flags -> [Nodes -> {"Zero", "Set", "Event"}]]
    /\ signaled \in [Flags -> [Nodes -> BOOLEAN]]
    /\ pc \in [Threads -> Points]
    /\ node \in [Threads -> Nodes]
    /\ pred \in [Threads -> Nodes \cup {NULL}]
    /\ succ \in [Threads -> Nodes \cup {NULL}]
    /\ queue \in Seq(Nodes)
    /\ recycled \in BOOLEAN

Unowned == \A t \in Threads : pc[t] \notin Holding

(* ptw32_mcs_lock_acquire and _try_acquire exclude: at no time do two      *)
(* threads own the lock, through their own node or through the barrier's   *)
(* proxy node, and the owner is the oldest claim.                          *)
MutualExclusion ==
    /\ \A t, u \in Threads : pc[t] \in Holding /\ pc[u] \in Holding => t = u
    /\ \A t \in Threads : pc[t] \in Holding => queue # <<>> /\ node[t] = queue[1]

(* Thread t's readyFlag says that the lock has been passed to it.          *)
Granted(t) ==
    \/ flag["readyFlag"][t] = "Set"
    \/ signaled["readyFlag"][t]
    \/ \E u \in Threads : pc[u] = "passEv" /\ succ[u] = t

(* No handoff is lost and none is early: when the lock has no owner, the   *)
(* oldest waiter's readyFlag (or its event) has been set, or a releaser is *)
(* about to call SetEvent; no other waiter has been told anything.         *)
HandoffIntact ==
    \A t \in Threads : pc[t] \in Waiting =>
        (Granted(t) <=> Unowned /\ queue # <<>> /\ queue[1] = t)

(* The queued threads are those that wait, or own through their own node;  *)
(* each is queued once, and Proxy only ever is the head.                   *)
Queued(t) == pc[t] \in Waiting \/ (pc[t] \in Holding /\ node[t] = t)

Members ==
    /\ \A t \in Threads : Queued(t) <=> \E i \in 1..Len(queue) : queue[i] = t
    /\ \A i, j \in 1..Len(queue) : queue[i] = queue[j] => i = j
    /\ \A i \in 1..Len(queue) : queue[i] = Proxy => i = 1

(* A node points to the one queued behind it, or that one has still to     *)
(* write pred->next and remembers the right predecessor.                   *)
Linked(i) ==
    LET n == queue[i]
        m == queue[i + 1]
    IN \/ next[n] = m /\ pc[m] # "link"
       \/ next[n] = NULL /\ pc[m] = "link" /\ pred[m] = n

Links == \A i \in 1..(Len(queue) - 1) : Linked(i)

Tailed == IF queue = <<>> THEN lock = NULL
          ELSE lock = queue[Len(queue)] /\ next[lock] = NULL

Locals ==
    /\ \A t \in Threads : pc[t] \in Waiting \cup {"spin"} => node[t] = t
    /\ \A t \in Threads : pc[t] = "link" => queue[1] # t
    /\ \A t \in Threads : pc[t] \in Linking => pred[t] # NULL
    /\ \A t \in Threads : node[t] \in {t, Proxy}

(* The queue that the nodes and the lock word encode is the order of the   *)
(* exchanges, even while claims link themselves and the owner moves to the *)
(* proxy node.                                                             *)
QueueIntact == Members /\ Links /\ Tailed /\ Locals

(* The successor that a releaser passes to is second in the queue and has  *)
(* linked itself.  One that is about to signal its successor's event is    *)
(* alone, and the successor, now the head, sleeps.                         *)
PassTarget ==
    \A t \in Threads : pc[t] = "pass" /\ succ[t] # NULL =>
        Len(queue) > 1 /\ succ[t] = queue[2] /\ pc[succ[t]] # "link"

SignalTarget ==
    /\ \A t, u \in Threads : pc[t] = "passEv" /\ pc[u] = "passEv" => t = u
    /\ \A t \in Threads : pc[t] = "passEv" =>
          /\ queue # <<>> /\ succ[t] = queue[1] /\ succ[t] \in Threads
          /\ pc[succ[t]] = "readyEv" /\ ~signaled["readyFlag"][succ[t]]

ReadyFlags ==
    \A t \in Threads :
        /\ (pc[t] = "readyEv" => flag["readyFlag"][t] = "Event")
        /\ (pc[t] \in Linking \cup {"readyCas"} => flag["readyFlag"][t] # "Event")
        /\ (signaled["readyFlag"][t] => pc[t] = "readyEv")

PassSound == PassTarget /\ SignalTarget /\ ReadyFlags

IInv == TypeOK /\ QueueIntact /\ MutualExclusion /\ PassSound /\ HandoffIntact

(* Every thread that has queued itself in ptw32_mcs_lock_acquire gets the  *)
(* lock, whatever the others do, as long as owners release (and no node is *)
(* used again too early).                                                  *)
EveryClaimServed ==
    []~recycled => \A t \in Threads : pc[t] \in Waiting ~> pc[t] = "crit"

(* The lock implements the first-come first-served lock.                   *)
Owners == {node[t] : t \in {u \in Threads : pc[u] \in Holding}}

ownerBar == IF Owners = {} THEN NULL ELSE CHOOSE n \in Owners : TRUE
waitingBar == IF Owners = {} THEN queue ELSE Tail(queue)

Fifo == INSTANCE FifoLock WITH Claims <- Nodes, NoOwner <- NULL,
                               owner <- ownerBar, waiting <- waitingBar

(* Every step of the lock is a step of FifoLock or leaves it unchanged.    *)
ImplementsFifo == Fifo!Spec
=============================================================================
