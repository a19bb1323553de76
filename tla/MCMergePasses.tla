---------------------------- MODULE MCMergePasses ----------------------------
(* Instances of MergePasses for TLC. *)
EXTENDS MergePasses
CONSTANTS t1, t2

\* Three columns of weight two in a circle: each merge needs a row of the
\* others.
Circle == <<{1, 2}, {2, 3}, {1, 3}>>
\* Two merges without a common row, whose rows share column 3.
Shared == <<{1, 3}, {1}, {2, 3}, {2, 3, 4}>>
\* Column 3 has weight three, and its best tree may be a chain; columns 1 and 2
\* are too heavy at any time.
Chain == <<{1, 3}, {3}, {2, 3}, {1, 2}, {1, 2}, {1, 2}, {1, 2}>>
\* Two columns of weight three in the same rows.
Triple == <<{1, 2}, {1, 2}, {1, 2}>>
\* Three columns of weight three.
Dense == <<{1, 2, 3}, {1, 2}, {1, 3}, {2, 3}>>
\* Equal rows: their sum is empty, and two columns go at once.
Twins == <<{1, 2}, {1, 2}, {3, 4}, {3, 4}>>
\* Column 5 is too heavy to be merged or to have its weight kept.
Heavy == <<{1, 5}, {1, 5}, {2, 5}, {2, 5}, {5}>>
\* Of each row one column is left, the same for all: four rows with it have a
\* cost below 0.
Alone == <<{1}, {1}, {1}, {1}>>
SmallMatrices == {Circle, Shared, Chain, Triple, Dense, Twins, Heavy, Alone}

\* Column 3 has the largest weight that is kept.
Brink == {<<{1, 3}, {1, 3}, {2, 3}, {2}>>}

\* Files that can be read from anywhere: the threads read about half of each.
Seekable == {Circle, Triple, Twins}
ReadersOf ==
  [m \in SmallMatrices \union Brink |->
     [i \in DOMAIN m |-> IF m \in Seekable /\ 2 * i > Len(m) THEN t2 ELSE t1]]
===============================================================================
