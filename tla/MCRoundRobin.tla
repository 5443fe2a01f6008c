---------------------------- MODULE MCRoundRobin ----------------------------
(* Small instances of RoundRobin for TLC. *)
EXTENDS RoundRobin, TLC

ProcSymmetry == Permutations(Procs)
=============================================================================
