---------------------------- MODULE MCBasicMlfq ----------------------------
(* Small instances of BasicMlfq for TLC. *)
EXTENDS BasicMlfq, TLC

\* Slices of 1, 1, 2 and 2 ticks: none, half and all of a slice used.
ShortSlices == [l \in Level |-> IF l < 2 THEN 1 ELSE 2]

ProcSymmetry == Permutations(Procs)
=============================================================================
