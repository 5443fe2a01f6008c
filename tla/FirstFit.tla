------------------------------ MODULE FirstFit ------------------------------
(***************************************************************************)
(* The first-fit page allocator of kern/mm/default_pmm.c.                  *)
(*                                                                         *)
(* The free list holds the page descriptors one by one.  Only the first    *)
(* page of a free block says how long the block is (property); splitting   *)
(* and merging rewrite these sizes, and everything else is derived from    *)
(* the neighbourhood of pages in the list.                                 *)
(*                                                                         *)
(* alloc_pages and free_pages run with interrupts disabled: one step each. *)
(* The reference counts of pages belong to their users.                    *)
(***************************************************************************)
EXTENDS Integers, Sequences, SequencesExt, FiniteSetsExt

CONSTANTS npage,      \* pages of physical memory
          Regions,    \* usable memory, as page_init finds it: a sequence of
                      \* <<first page, number of pages>>
          MaxReq      \* the largest request: a bound for TLC

Page == 0 .. npage - 1
Run(base, n) == base .. base + n - 1
RegionPages(r) == Run(r[1], r[2])

\* The firmware lists the regions by address, and between two regions there
\* is memory of another type.
ASSUME MemoryAssumption ==
  /\ npage \in Nat \ {0}
  /\ MaxReq \in Nat \ {0}
  /\ Regions \in Seq(Page \X (Nat \ {0}))
  /\ \A i \in 1 .. Len(Regions) : RegionPages(Regions[i]) \subseteq Page
  /\ \A i, j \in 1 .. Len(Regions) :
       i < j => Regions[i][1] + Regions[i][2] < Regions[j][1]

Usable == UNION {RegionPages(Regions[i]) : i \in 1 .. Len(Regions)}

VARIABLES free_list,   \* the pages in the free list, in its order
          nr_free,     \* its length, as the allocator counts it
          property,    \* size of the free block that starts with the page
          reserved,    \* pages with PG_reserved
          held         \* blocks the callers have, <<first page, pages>>

vars == <<free_list, nr_free, property, reserved, held>>

TypeOK == /\ free_list \in Seq(Page)
          /\ nr_free \in 0 .. npage
          /\ property \in [Page -> 0 .. npage]
          /\ reserved \subseteq Page
          /\ held \subseteq Page \X (1 .. npage)

\* The pages of a block, in order.
Pages(base, n) == [i \in 1 .. n |-> base + i - 1]

\* init_memmap of each region, one after the other.
Init ==
  /\ free_list = FlattenSeq([i \in 1 .. Len(Regions) |->
                               Pages(Regions[i][1], Regions[i][2])])
  /\ nr_free = Len(free_list)
  /\ property = [p \in Page |->
                   IF \E i \in 1 .. Len(Regions) : Regions[i][1] = p
                   THEN (CHOOSE r \in ToSet(Regions) : r[1] = p)[2] ELSE 0]
  /\ reserved = Page \ Usable
  /\ held = {}

----------------------------------------------------------------------------
\* The entry starts a block that is large enough.
LargeEnough(i, n) == property[free_list[i]] >= n

\* The sizes after the first n pages of the block at i are taken: the rest
\* of the block begins with the entry that follows them.
Split(i, n) ==
  LET p == free_list[i]
  IN  IF property[p] > n
      THEN [property EXCEPT ![free_list[i + n]] = property[p] - n]
      ELSE property

\* The n entries from the one at i.
Taken(i, n) == {free_list[j] : j \in i .. i + n - 1}

\* default_alloc_pages; where it returns NULL nothing changes.
Alloc(n) ==
  /\ n <= nr_free
  /\ \E i \in 1 .. Len(free_list) :
       /\ LargeEnough(i, n)
       /\ \A j \in 1 .. i - 1 : ~ LargeEnough(j, n)
       /\ reserved' = reserved \union Taken(i, n)
       /\ free_list' = SubSeq(free_list, 1, i - 1)
                       \o SubSeq(free_list, i + n, Len(free_list))
       /\ property' = Split(i, n)
       /\ held' = held \union {<<free_list[i], n>>}
  /\ nr_free' = nr_free - n

----------------------------------------------------------------------------
\* The place of the first page above base, or after the last one.
Place(base) ==
  Min({i \in 1 .. Len(free_list) : free_list[i] > base} \union {Len(free_list) + 1})

\* The block that follows in memory becomes part of the one at base.
MergeNext(sizes, base, n, at) ==
  IF at <= Len(free_list) /\ free_list[at] = base + n
  THEN [sizes EXCEPT ![base] = n + sizes[base + n], ![base + n] = 0]
  ELSE sizes

\* Faulty variant: a size is found for a block that is not a neighbour.
MergePrevAny(sizes, base, at) ==
  LET heads == {j \in 1 .. at - 1 : sizes[free_list[j]] # 0}
      head == free_list[Max(heads)]
  IN  IF heads # {}
      THEN [sizes EXCEPT ![head] = @ + sizes[base], ![base] = 0]
      ELSE sizes

\* Faulty variant: the size is added to the entry before base, be it the head
\* of its block or not.
MergePrevNoWalk(sizes, base, at) ==
  IF at > 1 /\ free_list[at - 1] = base - 1
  THEN [sizes EXCEPT ![base - 1] = @ + sizes[base], ![base] = 0]
  ELSE sizes

\* When the page before base is free, its block, found by walking back to an
\* entry with a size, takes the one at base.
MergePrev(sizes, base, at) ==
  LET heads == {j \in 1 .. at - 1 : sizes[free_list[j]] # 0}
      head == free_list[Max(heads)]
  IN  IF at > 1 /\ free_list[at - 1] = base - 1 /\ heads # {}
      THEN [sizes EXCEPT ![head] = @ + sizes[base], ![base] = 0]
      ELSE sizes

\* default_free_pages.  Only the first page of the block is reset: the others
\* keep PG_reserved in the free list.
Free(base, n) ==
  LET at == Place(base)
      sizes == MergeNext([property EXCEPT ![base] = n], base, n, at)
  IN  /\ base \in reserved        \* assert(PageReserved(base))
      /\ free_list' = SubSeq(free_list, 1, at - 1) \o Pages(base, n)
                      \o SubSeq(free_list, at, Len(free_list))
      /\ property' = MergePrev(sizes, base, at)
      /\ reserved' = reserved \ {base}
      /\ nr_free' = nr_free + n
      /\ held' = held \ {<<base, n>>}

Next == \/ \E n \in 1 .. MaxReq : Alloc(n)
        \/ \E block \in held : Free(block[1], block[2])

Spec == Init /\ [][Next]_vars

----------------------------------------------------------------------------
EveryPageOnce ==
  /\ \A i, j \in 1 .. Len(free_list) : free_list[i] = free_list[j] => i = j
  /\ \A b, c \in held : Run(b[1], b[2]) \intersect Run(c[1], c[2]) # {} => b = c
  /\ ToSet(free_list) \union UNION {Run(b[1], b[2]) : b \in held} = Usable
  /\ \A b \in held : Run(b[1], b[2]) \intersect ToSet(free_list) = {}

NrFreeCounts == nr_free = Len(free_list)

RefusedOnlyIfNone ==
  \A n \in 1 .. MaxReq :
    (\E p \in Page : Run(p, n) \subseteq ToSet(free_list)) =>
      /\ n <= nr_free
      /\ \E i \in 1 .. Len(free_list) : LargeEnough(i, n)

SizesAreRuns ==
  /\ \A i \in 1 .. Len(free_list) - 1 : free_list[i] < free_list[i + 1]
  /\ \A p \in ToSet(free_list) :
       LET n == property[p]
       IN  IF p - 1 \in ToSet(free_list)
           THEN n = 0
           ELSE /\ n > 0
                /\ Run(p, n) \subseteq ToSet(free_list)
                /\ p + n \notin ToSet(free_list)
  /\ \A b \in held : \A p \in Run(b[1] + 1, b[2] - 1) : property[p] = 0

HeldIsReserved == \A b \in held : Run(b[1], b[2]) \subseteq reserved

\* However often blocks are split and merged, no page is lost or in two
\* places: each usable page is one entry of the list or in one held block, and
\* nr_free counts the entries.  The list is sorted by address; a size stands
\* on the first page of a longest run of free pages and nowhere else, and none
\* survives in the later pages of a block in use, which come back to the list
\* as they are.  The assertion of default_free_pages never fails for a block
\* in use, and a request is refused only when no run of free pages is as long.
FreeListIsSound ==
  /\ TypeOK /\ EveryPageOnce /\ NrFreeCounts /\ SizesAreRuns /\ HeldIsReserved
  /\ RefusedOnlyIfNone

Pool == INSTANCE PagePool WITH free <- ToSet(free_list)

\* Every step is one of the pool's: a request gets the lowest run of free
\* pages of its size.
ImplementsPool == Pool!Spec
=============================================================================
