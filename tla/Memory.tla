------------------------------- MODULE Memory -------------------------------
(***************************************************************************)
(* Page frames, page tables, areas and the FIFO swap manager, as the       *)
(* functions of kern/mm/pmm.c, vmm.c, swap.c, swap_fifo.c and swapfs.c     *)
(* change them.  The state of all of them is one record m; a function of   *)
(* the code is an operator from the record before to the record after it,  *)
(* and a caller applies one after the other.                               *)
(*                                                                         *)
(* Addresses are page numbers, and a page holds one value.  Alloc gives    *)
(* the lowest run of free frames, as PagePool says.  kmalloc, which the    *)
(* module KernelHeap is about, is taken to succeed; its frames are not     *)
(* among those here.  A panic leaves its reason in m.panic: what the rest  *)
(* of the function would do does not matter then.                          *)
(***************************************************************************)
EXTENDS Integers, Sequences, SequencesExt, FiniteSetsExt

CONSTANTS Mm,          \* the mm_structs
          npage,       \* frames of physical memory that are free at the start
          PTSIZE,      \* pages that one page table maps
          USERBASE,    \* the user pages are USERBASE .. USERTOP - 1
          USERTOP,
          Value,       \* contents of a page; 0 is a page of zeroes
          NULL

ASSUME MemoryAssumption ==
  /\ npage \in Nat /\ PTSIZE \in Nat \ {0}
  /\ USERBASE \in Nat /\ USERTOP \in Nat /\ USERBASE < USERTOP
  /\ Value \subseteq Nat /\ 0 \in Value

Frame == 1 .. npage
VPage == 0 .. USERTOP - 1
PDX(v) == v \div PTSIZE

\* What a frame holds that nobody has written since it was allocated.
Junk == -1

\* Page table entries: zero, a present page, and a swap entry.
Absent == [is |-> "absent"]
Present(f, writable) == [is |-> "present", page |-> f, write |-> writable]
SwapEntry(v) == [is |-> "swapped", slot |-> v]

\* vm_start, vm_end and vm_flags of an area; flags is a set of "read",
\* "write", "exec" and "stack".
Area(start, end, flags) == [start |-> start, end |-> end, flags |-> flags]

NoTables == [d \in 0 .. PDX(USERTOP) |-> NULL]
NoEntries == [v \in VPage |-> Absent]

\* All frames free, no address space: the memory behind pmm_init.
FreshMemory ==
  [free  |-> Frame,                       \* pages in the free list
   ref   |-> [f \in Frame |-> 0],         \* page->ref
   data  |-> [f \in Frame |-> Junk],      \* contents of data pages
   vaddr |-> [f \in Frame |-> NULL],      \* page->pra_vaddr
   pra   |-> <<>>,                        \* pra_list_head, from head->next on
   disk  |-> [v \in VPage |-> Junk],      \* the swap device, by slot
   check |-> NULL,                        \* check_mm_struct
   dir   |-> [x \in Mm |-> NULL],         \* frame of mm->pgdir
   pt    |-> [x \in Mm |-> NoTables],     \* frames of the page tables
   pte   |-> [x \in Mm |-> NoEntries],    \* what the page tables hold
   vma   |-> [x \in Mm |-> <<>>],         \* mm->mmap_list
   cache |-> [x \in Mm |-> NULL],         \* mm->mmap_cache
   cr3   |-> NULL,                        \* the mm whose pgdir is in CR3
   panic |-> "no"]

Panic(m, why) == IF m.panic = "no" THEN [m EXCEPT !.panic = why] ELSE m
Check(m, holds, why) == IF holds THEN m ELSE Panic(m, why)

----------------------------------------------------------------------------
(* Swapping out.  m.check is check_mm_struct once swap_init_ok is 1: it is *)
(* NULL but for the time of check_swap.                                    *)

\* Faulty variant: the page goes to the end from which the victim is taken.
MapSwappableNext(m, x, v, f) == [m EXCEPT !.pra = Append(@, f)]

\* _fifo_map_swappable: list_add puts the page behind the head.
MapSwappable(m, x, v, f) == [m EXCEPT !.pra = <<f>> \o @]

\* The victim f goes to the slot of page v.
Evict(m, x, f, v) ==
  [Check(m, m.pte[x][v].is = "present", "assert") EXCEPT
     !.pra = Front(@), !.disk[v] = m.data[f], !.pte[x][v] = SwapEntry(v),
     !.free = @ \union {f}, !.ref[f] = 0, !.data[f] = Junk]

\* One round of swap_out.  _fifo_swap_out_victim takes the page before the
\* head, the last of the list; with check_mm_struct = NULL it reads through a
\* null pointer, which ends in the panic of trap_dispatch: no page can be had.
SwapOut(m, x) ==
  IF x = NULL THEN Panic(m, "out of memory")
  ELSE IF m.pra = <<>> THEN Panic(m, "assert")
  ELSE Evict(m, x, Last(m.pra), m.vaddr[Last(m.pra)])

\* Where n free frames are, if anywhere.
Fitting(m, n) == {f \in m.free : f .. f + n - 1 \subseteq m.free}

\* alloc_pages: a single page is taken from a process when none is free.
MakeRoom(m, n) ==
  IF n = 1 /\ m.free = {} THEN SwapOut(m, m.check) ELSE m

TakeFirst(m, n) ==
  LET fit == Fitting(m, n)
      f == Min(fit)
  IN  IF fit = {} THEN [mem |-> m, page |-> NULL]
      ELSE [mem |-> [m EXCEPT !.free = @ \ (f .. f + n - 1)], page |-> f]

Alloc(m, n) == TakeFirst(MakeRoom(m, n), n)

\* free_pages; default_free_pages resets the counter of the first page.
FreePages(m, f, n) ==
  [m EXCEPT !.free = @ \union (f .. f + n - 1), !.ref[f] = 0,
            !.data = [g \in Frame |-> IF g \in f .. f + n - 1 THEN Junk ELSE @[g]]]

----------------------------------------------------------------------------
(* Page tables                                                             *)

\* The page a, if there is one, becomes the page table for v.
WithTable(a, x, v) ==
  IF a.page = NULL THEN a.mem
  ELSE [a.mem EXCEPT !.ref[a.page] = 1, !.pt[x][PDX(v)] = a.page,
          !.pte[x] = [w \in VPage |-> IF PDX(w) = PDX(v) THEN Absent ELSE @[w]]]

\* get_pte with create = 1: a missing page table is allocated and cleared.
GetPte(m, x, v) ==
  IF m.pt[x][PDX(v)] # NULL THEN m ELSE WithTable(Alloc(m, 1), x, v)

\* The entry that get_pte without create finds; none without a page table.
Pte(m, x, v) == IF m.pt[x][PDX(v)] = NULL THEN Absent ELSE m.pte[x][v]

\* page_remove_pte: the last reference frees the page.
PageRemovePte(m, x, v) ==
  IF Pte(m, x, v).is # "present" THEN m
  ELSE LET f == Pte(m, x, v).page
           u == [m EXCEPT !.pte[x][v] = Absent, !.ref[f] = @ - 1]
       IN  IF u.ref[f] = 0 THEN FreePages(u, f, 1) ELSE u

\* What page v had before gives way to frame f, unless it is f.
Replace(m, x, f, v) ==
  LET old == Pte(m, x, v)
  IN  IF old.is = "present" /\ old.page = f THEN m
      ELSE PageRemovePte([m EXCEPT !.ref[f] = @ + 1], x, v)

\* page_insert
PageInsert(m, x, f, v, writable) ==
  [Replace(GetPte(m, x, v), x, f, v) EXCEPT !.pte[x][v] = Present(f, writable)]

\* Only while check_mm_struct is set is a new page made swappable.
NewSwappable(m, v, f) ==
  IF m.check = NULL THEN m
  ELSE Check([MapSwappable(m, m.check, v, f) EXCEPT !.vaddr[f] = v],
             m.ref[f] = 1, "assert")

\* The page a, if there is one, is mapped, with the value its owner writes.
MapNew(a, x, v, writable, value) ==
  IF a.page = NULL THEN a.mem
  ELSE NewSwappable([PageInsert(a.mem, x, a.page, v, writable)
                       EXCEPT !.data[a.page] = value], v, a.page)

\* pgdir_alloc_page, and in the frame it returns the value its caller writes.
PgdirAllocPage(m, x, v, writable, value) ==
  MapNew(Alloc(m, 1), x, v, writable, value)

\* unmap_range: u[v] is the memory when the pages below v are done.
UnmapRange(m, x, start, end) ==
  LET u[v \in start .. end] == IF v = start THEN m ELSE PageRemovePte(u[v - 1], x, v - 1)
  IN  u[end]

\* exit_range: the page tables for these pages, one after the other.
FreeTable(m, x, d) ==
  IF m.pt[x][d] = NULL THEN m
  ELSE FreePages([m EXCEPT !.pt[x][d] = NULL], m.pt[x][d], 1)

ExitRange(m, x, start, end) ==
  LET u[d \in PDX(start) .. PDX(end - 1) + 1] ==
        IF d = PDX(start) THEN m ELSE FreeTable(u[d - 1], x, d - 1)
  IN  u[PDX(end - 1) + 1]

\* Faulty variant: the parent's page is mapped, not a copy of it.
CopyPageShares(m, to, from, v) ==
  LET e == Pte(m, from, v)
  IN  IF e.is # "present" THEN m ELSE PageInsert(m, to, e.page, v, e.write)

\* One round of copy_range.  A page that is swapped out is passed over.
CopyPage(m, to, from, v) ==
  LET e == Pte(m, from, v)
      CopyTo(a) ==
        IF a.page = NULL THEN Panic(a.mem, "assert")
        ELSE PageInsert([a.mem EXCEPT !.data[a.page] = m.data[e.page]],
                        to, a.page, v, e.write)
  IN  IF e.is # "present" THEN m ELSE CopyTo(Alloc(GetPte(m, to, v), 1))

CopyRange(m, to, from, start, end) ==
  LET u[v \in start .. end] ==
        IF v = start THEN m ELSE CopyPage(u[v - 1], to, from, v - 1)
  IN  u[end]

\* setup_pgdir: boot_pgdir has no user entries.  put_pgdir.
SetupPgdir(m, x) ==
  LET a == Alloc(m, 1)
  IN  IF a.page = NULL THEN a.mem
      ELSE [a.mem EXCEPT !.dir[x] = a.page, !.pt[x] = NoTables]

PutPgdir(m, x) == FreePages(m, m.dir[x], 1)

----------------------------------------------------------------------------
(* Areas                                                                   *)

\* mm_create; _fifo_init_mm empties the one list of swappable pages.
MmCreate(m, x) == [m EXCEPT !.vma[x] = <<>>, !.cache[x] = NULL, !.pra = <<>>]

\* mm_destroy
MmDestroy(m, x) == [m EXCEPT !.vma[x] = <<>>, !.cache[x] = NULL, !.dir[x] = NULL]

InArea(a, v) == a.start <= v /\ v < a.end

\* The area find_vma returns: the cached one if it contains v, else the first
\* of the list that does.
FindVma(m, x, v) ==
  LET hits == {i \in DOMAIN m.vma[x] : InArea(m.vma[x][i], v)}
  IN  IF m.cache[x] # NULL /\ InArea(m.cache[x], v) THEN m.cache[x]
      ELSE IF hits = {} THEN NULL ELSE m.vma[x][Min(hits)]

\* What it finds becomes the cached area.
Looked(m, x, v) ==
  LET a == FindVma(m, x, v) IN IF a = NULL THEN m ELSE [m EXCEPT !.cache[x] = a]

\* Where the loop of insert_vma_struct stops.
PlaceOf(areas, a) ==
  Min({i \in 1 .. Len(areas) : areas[i].start > a.start} \union {Len(areas) + 1})

\* insert_vma_struct with the assertions of check_vma_overlap.
InsertVma(m, x, a) ==
  LET areas == m.vma[x]
      at == PlaceOf(areas, a)
      fits == /\ a.start < a.end
              /\ at > 1 => areas[at - 1].end <= a.start
              /\ at <= Len(areas) => a.end <= areas[at].start
  IN  Check([m EXCEPT !.vma[x] = InsertAt(areas, at, a)], fits, "assert")

UserAccess(start, end) == USERBASE <= start /\ start < end /\ end <= USERTOP

\* Faulty variant: an area at the start of the range is not looked for.
MayMapAnywhere(m, x, start, end) == UserAccess(start, end)

\* mm_map succeeds; it looks for an area at the start of the range only.
MayMap(m, x, start, end) == UserAccess(start, end) /\ FindVma(m, x, start) = NULL

\* exit_mmap: first all pages of all areas, then their page tables.
UnmapAreas(m, x, areas) ==
  LET u[i \in 0 .. Len(areas)] ==
        IF i = 0 THEN m ELSE UnmapRange(u[i - 1], x, areas[i].start, areas[i].end)
  IN  u[Len(areas)]

ExitAreas(m, x, areas) ==
  LET u[i \in 0 .. Len(areas)] ==
        IF i = 0 THEN m ELSE ExitRange(u[i - 1], x, areas[i].start, areas[i].end)
  IN  u[Len(areas)]

ExitMmap(m, x) == ExitAreas(UnmapAreas(m, x, m.vma[x]), x, m.vma[x])

\* dup_mmap, from the last area to the first: u[i] when those behind the i-th
\* are done.
DupMmap(m, to, from) ==
  LET areas == m.vma[from]
      u[i \in 0 .. Len(areas)] ==
        IF i = Len(areas) THEN m
        ELSE CopyRange(InsertVma(u[i + 1], to, areas[i + 1]), to, from,
                       areas[i + 1].start, areas[i + 1].end)
  IN  u[0]

\* user_mem_check of one page.
UserMemCheck(m, x, v, write) ==
  LET a == FindVma(m, x, v)
  IN  /\ UserAccess(v, v + 1)
      /\ a # NULL
      /\ (IF write THEN "write" ELSE "read") \in a.flags
      /\ ~ (write /\ "stack" \in a.flags /\ v < a.start + 1)

----------------------------------------------------------------------------
(* Page faults                                                             *)

\* swap_in of page v: its slot is named by the entry.
SwapIn(m, x, v) ==
  LET Filled(a) ==
        IF a.page = NULL THEN a
        ELSE [a EXCEPT !.mem.data[a.page] = a.mem.disk[a.mem.pte[x][v].slot]]
  IN  Filled(Alloc(m, 1))

\* The switch over the error code in do_pgfault.
FaultAllowed(a, write, present) ==
  IF write THEN "write" \in a.flags
  ELSE ~ present /\ a.flags \intersect {"read", "exec"} # {}

\* A page that is swapped in is mapped and made swappable; its pra_vaddr is the
\* one of the frame's last owner.
MapOld(a, x, v, writable) ==
  IF a.page = NULL THEN a.mem
  ELSE MapSwappable(PageInsert(a.mem, x, a.page, v, writable), x, v, a.page)

\* What do_pgfault does once it has the entry of page v.
BringIn(m, x, v, writable) ==
  CASE Pte(m, x, v).is = "absent"  -> PgdirAllocPage(m, x, v, writable, Junk)
    [] Pte(m, x, v).is = "present" -> Panic(m, "assert")
    [] Pte(m, x, v).is = "swapped" -> MapOld(SwapIn(m, x, v), x, v, writable)

\* do_pgfault
DoPgfault(m, x, v, write) ==
  LET a == FindVma(m, x, v)
      found == Looked(m, x, v)
  IN  IF a = NULL \/ ~ FaultAllowed(a, write, Pte(m, x, v).is = "present")
      THEN [mem |-> found, ok |-> FALSE]
      ELSE [mem |-> BringIn(GetPte(found, x, v), x, v, "write" \in a.flags), ok |-> TRUE]

\* The processor refuses an access to a page that is not there, or a write to
\* one that is write-protected.
Faults(m, x, v, write) ==
  LET e == Pte(m, x, v) IN e.is # "present" \/ (write /\ ~ e.write)

\* An access to page v, with the page fault it may cause.  trap_dispatch panics
\* when the fault is not handled, and says why.
Access(m, x, v, write, value, why) ==
  LET Handled(r) == Check(r.mem, r.ok, why)
      Stored(u) == IF u.panic # "no" \/ ~ write THEN u
                   ELSE [u EXCEPT !.data[Pte(u, x, v).page] = value]
  IN  Stored(IF Faults(m, x, v, write) THEN Handled(DoPgfault(m, x, v, write)) ELSE m)
=============================================================================
