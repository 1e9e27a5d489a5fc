-------------------------- MODULE MCConnectionManager --------------------------
(* Small instances of ConnectionManager for TLC. *)
EXTENDS ConnectionManager, TLC

(* Sessions run the same code; the health task differs from them in shutdown.    *)
SessionSymmetry == Permutations(Sessions)
================================================================================
