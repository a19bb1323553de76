--------------------------- MODULE MCParallelClient ---------------------------
(* Small instances of ParallelClient for TLC. *)
EXTENDS ParallelClient, TLC

Symmetry == Permutations(Clients)
===============================================================================
