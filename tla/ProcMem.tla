------------------------------ MODULE ProcMem ------------------------------
(***************************************************************************)
(* What the memory of processes promises to the programs: each process has *)
(* pages of its own, with contents nobody else changes.  A child starts    *)
(* with a copy of its parent's pages, a loaded program with the pages of   *)
(* its image, and exit gives the pages up.  Frames, page tables, page      *)
(* faults and the order in which pages are allocated do not appear.        *)
(***************************************************************************)
EXTENDS Naturals

CONSTANTS Procs,
          Value,     \* what a page may hold
          Initial    \* the memories that the images describe

VARIABLE mem         \* mem[p][v]: contents of page v of process p

Nothing == [v \in {} |-> 0]

Init == mem = [p \in Procs |-> Nothing]

\* What a step may make of the memory of one process.
Forked(old, new) == old = Nothing /\ \E parent \in Procs : new = mem[parent]
Loaded(old, new) == new \in Initial
Exited(old, new) == new = Nothing
Written(old, new) ==
  \E v \in DOMAIN old, value \in Value : new = [old EXCEPT ![v] = value]

Step(old, new) ==
  Forked(old, new) \/ Loaded(old, new) \/ Exited(old, new) \/ Written(old, new)

\* A step changes the memory of one process only.
Next == \E p \in Procs : /\ \A q \in Procs \ {p} : mem'[q] = mem[q]
                         /\ Step(mem[p], mem'[p])

Spec == Init /\ [][Next]_mem
=============================================================================
