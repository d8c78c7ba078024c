------------------------------ MODULE FifoLock ------------------------------
(***************************************************************************)
(* What ptw32_mcs_lock_* promises its callers: one owner at a time, and    *)
(* the waiting claims are served in the order in which they were made.  An *)
(* owner may move its claim to another node (Move).                        *)
(***************************************************************************)
EXTENDS Naturals, Sequences

CONSTANTS Claims,   \* the nodes that may claim the lock
          NoOwner

VARIABLES owner,    \* the claim that owns the lock, or NoOwner
          waiting   \* the claims that wait, oldest first

vars == <<owner, waiting>>

Claimed == {owner} \cup {waiting[i] : i \in DOMAIN waiting}

Init == owner = NoOwner /\ waiting = <<>>

(* A new claim owns a free lock at once and queues otherwise.              *)
Enter(c) ==
    /\ c \notin Claimed
    /\ IF owner = NoOwner /\ waiting = <<>>
       THEN owner' = c /\ UNCHANGED waiting
       ELSE waiting' = Append(waiting, c) /\ UNCHANGED owner

Grant == /\ owner = NoOwner
         /\ waiting # <<>>
         /\ owner' = Head(waiting)
         /\ waiting' = Tail(waiting)

Leave == /\ owner # NoOwner
         /\ owner' = NoOwner
         /\ UNCHANGED waiting

Move(c) == /\ owner # NoOwner
           /\ c \notin Claimed
           /\ owner' = c
           /\ UNCHANGED waiting

Next == Grant \/ Leave \/ \E c \in Claims : Enter(c) \/ Move(c)

Spec == Init /\ [][Next]_vars
=============================================================================
