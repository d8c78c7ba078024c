---------------------------- MODULE BarrierSpec ----------------------------
(***************************************************************************)
(* What pthread_barrier_wait promises: threads are let go in groups of     *)
(* Height, nobody before the group is complete; the next group starts to   *)
(* gather when all have left; the last to leave, and nobody else, is told  *)
(* PTHREAD_BARRIER_SERIAL_THREAD.                                          *)
(***************************************************************************)
EXTENDS Naturals, FiniteSets

CONSTANTS Threads, Height

VARIABLES arrived,    \* the threads of the group that gathers
          released,   \* those of a complete group that have not left
          result      \* what each thread's last call returned

vars == <<arrived, released, result>>

Init == /\ arrived = {}
        /\ released = {}
        /\ result = [t \in Threads |-> "0"]

Arrive(t) ==
    /\ released = {}
    /\ t \notin arrived
    /\ IF Cardinality(arrived \cup {t}) = Height
       THEN released' = arrived \cup {t} /\ arrived' = {}
       ELSE arrived' = arrived \cup {t} /\ UNCHANGED released
    /\ UNCHANGED result

Leave(t) ==
    /\ t \in released
    /\ released' = released \ {t}
    /\ result' = [result EXCEPT ![t] = IF released = {t} THEN "SERIAL" ELSE "0"]
    /\ UNCHANGED arrived

Next == \E t \in Threads : Arrive(t) \/ Leave(t)

Spec == Init /\ [][Next]_vars
=============================================================================
