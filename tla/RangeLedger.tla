------------------------------ MODULE RangeLedger ------------------------------
(***************************************************************************)
(* What the distribution of workunits promises for each range of special-q *)
(* values, without workunits, clients, uploads or a database.  Ranges are  *)
(* taken up in order; a range in progress is tried a limited number of     *)
(* times, one try at a time; its relations are counted once; and it is     *)
(* given up only after enough tries, for a result that cannot be used, or  *)
(* because enough relations have been found.                               *)
(***************************************************************************)
EXTENDS Integers, FiniteSets

CONSTANTS
  Ranges,        \* a set of integers
  FewestTries,   \* a range is not given up with fewer tries
  MostTries,     \* a range is not tried more often
  Unusable       \* TRUE if a result may be unusable

VARIABLES
  state,   \* what has become of each range
  tries,   \* how often it was tried
  found,   \* how many results were counted
  closed,  \* TRUE once enough relations have been found
  interruptions \* how often the program was interrupted

ledger == <<state, tries, found, closed, interruptions>>

In(s) == {r \in Ranges : state[r] = s}
Move(R, s) == state' = [r \in Ranges |-> IF r \in R THEN s ELSE state[r]]

Init ==
  /\ state = [r \in Ranges |-> "todo"]
  /\ tries = [r \in Ranges |-> 0]
  /\ found = 0 /\ closed = FALSE /\ interruptions = 0

Submit(r) ==
  /\ ~closed /\ r \in In("todo") /\ \A q \in In("todo") : r <= q
  /\ Move({r}, "pending")
  /\ tries' = [tries EXCEPT ![r] = 1]
  /\ UNCHANGED <<found, closed, interruptions>>

Retry(r) ==
  /\ ~closed /\ r \in In("pending") /\ tries[r] < MostTries
  /\ tries' = [tries EXCEPT ![r] = @ + 1]
  /\ UNCHANGED <<state, found, closed, interruptions>>

Accept(r) ==
  /\ ~closed /\ r \in In("pending")
  /\ Move({r}, "done") /\ found' = found + 1
  /\ UNCHANGED <<tries, closed, interruptions>>

GiveUp(r) ==
  /\ ~closed /\ r \in In("pending")
  /\ Unusable \/ tries[r] >= FewestTries
  /\ Move({r}, "abandoned")
  /\ UNCHANGED <<tries, found, closed, interruptions>>

Close ==
  /\ ~closed /\ closed' = TRUE
  /\ \E R \in SUBSET In("pending") : Move(R, "abandoned")
  /\ UNCHANGED <<tries, found, interruptions>>

(* An interruption may lose a range between two of its tries; after it,    *)
(* work is taken up again.                                                 *)
Interrupt ==
  /\ interruptions' = interruptions + 1
  /\ \/ \E r \in In("pending") : Move({r}, "abandoned") /\ UNCHANGED closed
     \/ closed' = FALSE /\ UNCHANGED state
  /\ UNCHANGED <<tries, found>>

(* An interruption may make one result count once more.                    *)
CountAgain ==
  /\ ~closed /\ In("done") # {}
  /\ found - Cardinality(In("done")) < interruptions
  /\ found' = found + 1
  /\ UNCHANGED <<state, tries, closed, interruptions>>

Next ==
  \/ \E r \in Ranges : Submit(r) \/ Retry(r) \/ Accept(r) \/ GiveUp(r)
  \/ Close \/ Interrupt \/ CountAgain

Spec == Init /\ [][Next]_ledger
===============================================================================
