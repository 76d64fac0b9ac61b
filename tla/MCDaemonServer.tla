-------------------------- MODULE MCDaemonServer ---------------------------
(* Constant values for model-checking DaemonServer. *)
EXTENDS DaemonServer, TLC

CONSTANTS d1, d2, c1, c2, k1, k2

ServerSymmetry == Permutations(Daemon) \cup Permutations(Client \ Starter)
=============================================================================
