----------------------------- MODULE MCProcLife -----------------------------
(* Small instances of ProcLife for TLC. *)
EXTENDS ProcLife, TLC

UserSymmetry == Permutations(Procs \ {InitProc})
=============================================================================
