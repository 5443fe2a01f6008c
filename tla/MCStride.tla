------------------------------ MODULE MCStride ------------------------------
(* Small instances of Stride for TLC. *)
EXTENDS Stride, TLC

ProcSymmetry == Permutations(Procs)
=============================================================================
