------------------------------ MODULE PagePool ------------------------------
(***************************************************************************)
(* What alloc_pages and free_pages of kern/mm/pmm.c promise, whatever the  *)
(* manager behind them does: a block of n pages is the lowest run of n     *)
(* free pages, a page is given to one caller at a time, and it is free     *)
(* again as soon as its block is given back.                               *)
(***************************************************************************)
EXTENDS Integers, FiniteSets

CONSTANTS Usable,    \* the pages of physical memory that may be given out
          MaxReq     \* the largest request

VARIABLES free,      \* the free pages
          held       \* the blocks in use, <<first page, number of pages>>

pool == <<free, held>>

Run(base, n) == base .. base + n - 1

\* Where a block of n pages can lie.
Fitting(n) == {p \in free : Run(p, n) \subseteq free}

Init == free = Usable /\ held = {}

Alloc(n) ==
  \E p \in Fitting(n) :
    /\ \A q \in Fitting(n) : p <= q
    /\ free' = free \ Run(p, n)
    /\ held' = held \union {<<p, n>>}

Free(block) ==
  /\ free' = free \union Run(block[1], block[2])
  /\ held' = held \ {block}

Next == (\E n \in 1 .. MaxReq : Alloc(n)) \/ (\E block \in held : Free(block))

Spec == Init /\ [][Next]_pool
=============================================================================
