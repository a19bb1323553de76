-------------------------- MODULE MCClientServerTask --------------------------
(* Small instances of ClientServerTask for TLC. *)
EXTENDS ClientServerTask, TLC

AnyOutcome   == {"ok", "error", "corrupt", "nofile"}
OkOrError    == {"ok", "error"}
OnlyOk       == {"ok"}

Symmetry == Permutations(Clients)
===============================================================================
