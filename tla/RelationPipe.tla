------------------------------ MODULE RelationPipe ------------------------------
(***************************************************************************)
(* What a pipe of levels promises for the relations that are put into it:  *)
(* they enter at level 0 in the order of the input, each passes every      *)
(* level once and after the one before, and no more of them are on their   *)
(* way than there are slots.                                               *)
(***************************************************************************)
EXTENDS Integers, FiniteSets

CONSTANT SizeBuf   \* the slots

VARIABLES
  last,    \* the last level
  passed   \* by level: the numbers of the relations that have passed it

Init == passed = [k \in 0 .. last |-> {}]

Put(num) ==
  /\ \A other \in passed[0] : other < num
  /\ Cardinality(passed[0] \ passed[last]) < SizeBuf
  /\ passed' = [passed EXCEPT ![0] = @ \union {num}]

Pass(k, num) ==
  /\ num \in passed[k - 1] \ passed[k]
  /\ passed' = [passed EXCEPT ![k] = @ \union {num}]

Next ==
  /\ last' = last
  /\ \/ \E num \in passed'[0] : Put(num)
     \/ \E k \in 1 .. last : \E num \in passed[k - 1] : Pass(k, num)

Spec == Init /\ [][Next]_<<last, passed>>
===============================================================================
