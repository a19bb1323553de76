------------------------------ MODULE Rendezvous ------------------------------
(***************************************************************************)
(* What a barrier promises to the threads that meet there: nobody goes on  *)
(* before as many have arrived as the barrier is made for, then all may;   *)
(* whoever arrives afterwards begins the next meeting.  The size changes   *)
(* only when no meeting has begun.                                         *)
(***************************************************************************)
EXTENDS Integers, FiniteSets

CONSTANT Threads  \* those that may come

VARIABLES
  size,   \* how many threads are to meet
  inside  \* those that have arrived and must still wait

Init == inside = {} /\ size = 0

Arrive(t) ==
  /\ t \in Threads \ inside /\ Cardinality(inside) < size
  /\ inside' = IF Cardinality(inside) + 1 = size THEN {} ELSE inside \union {t}
  /\ size' = size

Resize == inside = {} /\ inside' = {} /\ size' \in Nat

Next == Resize \/ \E t \in Threads : Arrive(t)

Spec == Init /\ [][Next]_<<size, inside>>
===============================================================================
