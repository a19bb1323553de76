--------------------------- MODULE MCPolyselectTeam ---------------------------
(* Instances of PolyselectTeam for TLC. *)
EXTENDS PolyselectTeam

\* An ad with a collision, which is then listed: it does what an ad without
\* collision does first.
Collision == {<<"proots", "DCS", "CCS">>}

\* Both.
Either == Collision \union {<<"proots", "DCS">>}
===============================================================================
