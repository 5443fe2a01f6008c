---------------------------- MODULE MCSmartMlfq ----------------------------
(* Small instances of SmartMlfq for TLC. *)
EXTENDS SmartMlfq, TLC

\* Slices of 1, 1, 2 and 2 ticks: none, half and all of a slice used.
ShortSlices == [l \in Level |-> IF l < 2 THEN 1 ELSE 2]

\* The slices of mlfq_sched.c.
RealSlices == [l \in Level |-> 2 ^ (l + 1)]

ProcSymmetry == Permutations(Procs)
=============================================================================
