------------------------------ MODULE Control ------------------------------
(***************************************************************************)
(* The threads that call the library, each at a point of one of its        *)
(* functions.  What a point is called and what is done there is the        *)
(* business of the modules that extend this one.                           *)
(***************************************************************************)
CONSTANTS Threads,
          NULL        \* no thread

ASSUME NullAssumption == NULL \notin Threads

VARIABLE pc           \* the points where the threads are

Goto(t, point) == pc' = [pc EXCEPT ![t] = point]

Move(t, from, to) == pc[t] = from /\ Goto(t, to)
=============================================================================
