---------------------------- MODULE AddressSpace ----------------------------
(***************************************************************************)
(* The memory of processes: what do_fork, do_execve, do_exit and do_wait   *)
(* of kern/process/proc.c, the page faults of kern/trap/trap.c and the     *)
(* switch to another process do with frames, page tables and areas.        *)
(*                                                                         *)
(* A system call or a page fault runs in the kernel, where only schedule() *)
(* gives up the processor: one step each.  Every process of user programs  *)
(* has an mm_struct of its own (only kernel threads are cloned with        *)
(* CLONE_VM, and they have none), which is named by the process.  init and *)
(* idle are NULL.  Sleeping and killing are in ProcLife.                   *)
(***************************************************************************)
EXTENDS Memory

CONSTANTS Procs,       \* slots for processes
          Images,      \* programs that are linked to the kernel
          STACKPAGES,  \* pages of a user stack
          EAGER,       \* pages of it that load_icode allocates
          KSTACKPAGE,
          Touch        \* pages that programs use: a bound for TLC

\* A program header.
Segment == [va : Nat, filesz : Nat, memsz : Nat,
            flags : SUBSET {"read", "write", "exec"}]

\* The areas a process can have.
AreaType == [start : VPage, end : 0 .. USERTOP,
             flags : SUBSET {"read", "write", "exec", "stack"}]

\* The linker lays the segments of a program out by address, all of them from
\* below the stack on: mm_map, which looks for an area at the start of a range
\* only, relies on it.
ASSUME AddressSpaceAssumption ==
  /\ Procs = Mm /\ IsFiniteSet(Procs)
  /\ NULL \notin Mm \union Int \union AreaType
  /\ KSTACKPAGE \in 1 .. npage
  /\ STACKPAGES \in Nat \ {0} /\ EAGER \in 0 .. STACKPAGES
  /\ Touch \subseteq VPage
  /\ \A image \in Images :
       /\ image.magic \in BOOLEAN
       /\ image.segs \in Seq(Segment)
       /\ \A i, j \in 1 .. Len(image.segs) :
            i < j => image.segs[i].va <= image.segs[j].va
       /\ \A i \in 1 .. Len(image.segs) : image.segs[i].va <= USERTOP - STACKPAGES

VARIABLES st,          \* st[p] \in {"none", "run", "zombie"}
          parent,
          kstack,      \* first frame of the kernel stack
          cr3,         \* proc->cr3: the mm whose page directory it is, or NULL
          current,     \* NULL while init or idle runs
          m

vars == <<st, parent, kstack, cr3, current, m>>

\* init_main has created the thread of user_main, which has no memory yet.
Init ==
  \E p \in Procs :
    LET stack == Alloc(FreshMemory, KSTACKPAGE)
    IN  /\ st = [q \in Procs |-> IF q = p THEN "run" ELSE "none"]
        /\ parent = [q \in Procs |-> NULL]
        /\ kstack = [q \in Procs |-> IF q = p THEN stack.page ELSE NULL]
        /\ cr3 = [q \in Procs |-> NULL]
        /\ current = NULL
        /\ m = stack.mem

HasMm(p) == m.dir[p] # NULL

\* Memory is u after the step; a panic stops everything as it stood.
Becomes(u) ==
  m' = IF u.panic = "no" THEN u ELSE [m EXCEPT !.panic = u.panic]

----------------------------------------------------------------------------
\* copy_mm without CLONE_VM.  Its error paths are not taken: a page that
\* cannot be had is a panic.
CopyMm(u, child, p) == DupMmap(SetupPgdir(MmCreate(u, child), child), child, p)

\* do_fork.  Without memory for the kernel stack it fails, and nothing else
\* has been allocated.
Fork(child) ==
  LET stack == Alloc(m, KSTACKPAGE)
  IN  /\ current # NULL /\ HasMm(current)
      /\ st[child] = "none"
      /\ stack.page # NULL
      /\ st' = [st EXCEPT ![child] = "run"]
      /\ parent' = [parent EXCEPT ![child] = current]
      /\ kstack' = [kstack EXCEPT ![child] = stack.page]
      /\ cr3' = [cr3 EXCEPT ![child] = child]
      /\ Becomes(CopyMm(stack.mem, child, current))
      /\ UNCHANGED current

\* exit_mmap, put_pgdir and mm_destroy.
DropMm(u, x) == MmDestroy(PutPgdir(ExitMmap(u, x), x), x)

\* proc_run of schedule(): the page directory of the next process.
Switched(u, next) == [u EXCEPT !.cr3 = IF next = NULL THEN NULL ELSE cr3[next]]

\* The end of do_exit: the process is a zombie, its children are init's, and
\* schedule() finds another process.
Leave(u) ==
  /\ st' = [st EXCEPT ![current] = "zombie"]
  /\ parent' = [p \in Procs |-> IF parent[p] = current THEN NULL ELSE parent[p]]
  /\ \E next \in {NULL} \union {p \in Procs \ {current} : st[p] = "run"} :
       /\ current' = next
       /\ Becomes(Switched(u, next))
  /\ UNCHANGED <<kstack, cr3>>

\* do_exit, of the process itself or on its way back from a trap.
Exit ==
  /\ current # NULL
  /\ Leave(IF HasMm(current) THEN DropMm(m, current) ELSE m)

----------------------------------------------------------------------------
(* Programs.  A segment of an image has a first page va, filesz pages from  *)
(* the file and memsz pages in memory.                                      *)

\* What the file has in the pages of a segment.
FileValue == 1

\* Page i of a segment as load_icode leaves it.
SegmentValue(seg, i) == IF i <= seg.filesz THEN FileValue ELSE 0

\* mm_map of pages start to end - 1, and the allocation of some of them, each
\* given with what is written to it.
MapPages(u, x, start, end, flags, pages) ==
  LET w[i \in 0 .. Len(pages)] ==
        IF i = 0 THEN InsertVma(u, x, Area(start, end, flags))
        ELSE PgdirAllocPage(w[i - 1], x, pages[i][1], "write" \in flags, pages[i][2])
  IN  w[Len(pages)]

\* One program header.  A segment without a file part is passed over.
LoadSegment(r, x, seg) ==
  LET end == seg.va + seg.memsz
      pages == [i \in 1 .. seg.memsz |-> <<seg.va + i - 1, SegmentValue(seg, i)>>]
  IN  IF ~ r.ok THEN r
      ELSE IF seg.filesz > seg.memsz THEN [mem |-> r.mem, ok |-> FALSE]
      ELSE IF seg.filesz = 0 THEN r
      ELSE IF ~ MayMap(r.mem, x, seg.va, end) THEN [mem |-> r.mem, ok |-> FALSE]
      ELSE [r EXCEPT !.mem = MapPages(@, x, seg.va, end, seg.flags, pages)]

\* The stack, of which the last pages are allocated, with whatever they held.
LoadStack(r, x) ==
  LET start == USERTOP - STACKPAGES
      pages == [i \in 1 .. EAGER |-> <<USERTOP - i, Junk>>]
  IN  IF ~ r.ok THEN r
      ELSE IF ~ MayMap(r.mem, x, start, USERTOP) THEN [mem |-> r.mem, ok |-> FALSE]
      ELSE [r EXCEPT !.mem = MapPages(@, x, start, USERTOP, {"read", "write", "stack"},
                                      pages)]

\* Faulty variant: the pages loaded before the error are not given back.
LoadFailedKeepsPages(u, x) == MmDestroy(PutPgdir(u, x), x)

\* bad_cleanup_mmap and bad_elf_cleanup_pgdir
LoadFailed(u, x) == DropMm(u, x)

\* The program headers, one after the other.
LoadSegments(r, x, segs) ==
  LET a[i \in 0 .. Len(segs)] == IF i = 0 THEN r ELSE LoadSegment(a[i - 1], x, segs[i])
  IN  a[Len(segs)]

LoadIcode(u, x, image) ==
  LET fresh == [mem |-> SetupPgdir(MmCreate(u, x), x), ok |-> image.magic]
      r == LoadStack(LoadSegments(fresh, x, image.segs), x)
  IN  IF r.ok THEN [r EXCEPT !.mem.cr3 = x] ELSE [r EXCEPT !.mem = LoadFailed(@, x)]

\* do_execve of a kernel thread or of a process, whose name argument is in
\* page v.  When the image cannot be loaded the old memory is gone as well,
\* and the process exits.
Exec(image, v) ==
  LET u == IF ~ HasMm(current) THEN m
           ELSE DropMm(Access(Looked(m, current, v), current, v, FALSE, 0, "kernel fault"),
                       current)
      r == LoadIcode(u, current, image)
  IN  /\ current # NULL
      /\ HasMm(current) <=> v # NULL
      /\ HasMm(current) => UserMemCheck(m, current, v, FALSE)
      /\ IF r.ok THEN /\ Becomes(r.mem)
                      /\ cr3' = [cr3 EXCEPT ![current] = current]
                      /\ UNCHANGED <<st, parent, kstack, current>>
                 ELSE Leave(r.mem)

----------------------------------------------------------------------------
\* A name or an exit code that is not in the process's memory: the system call
\* returns -E_INVAL, and only the cached area may have changed.
Refuse(v, write) ==
  /\ current # NULL /\ HasMm(current)
  /\ ~ UserMemCheck(m, current, v, write)
  /\ Becomes(IF UserAccess(v, v + 1) THEN Looked(m, current, v) ELSE m)
  /\ UNCHANGED <<st, parent, kstack, cr3, current>>

PutKstack(u, c) == FreePages(u, kstack[c], KSTACKPAGE)

\* do_wait finds the zombie c.  Its exit code goes to page v, if it is wanted,
\* by a store in the kernel, which may fault.
Wait(c, v) ==
  /\ st[c] = "zombie" /\ parent[c] = current
  /\ current = NULL => v = NULL
  /\ current # NULL => HasMm(current)
  /\ v # NULL => UserMemCheck(m, current, v, TRUE)
  /\ Becomes(PutKstack(IF v = NULL THEN m
                       ELSE Access(Looked(m, current, v), current, v, TRUE, 0,
                                   "kernel fault"), c))
  /\ st' = [st EXCEPT ![c] = "none"]
  /\ kstack' = [kstack EXCEPT ![c] = NULL]
  /\ cr3' = [cr3 EXCEPT ![c] = NULL]
  /\ parent' = [parent EXCEPT ![c] = NULL]
  /\ UNCHANGED current

\* The program reads or writes page v.
Use(v, write, value) ==
  /\ current # NULL /\ HasMm(current)
  /\ Becomes(Access(m, current, v, write, value, "user fault"))
  /\ UNCHANGED <<st, parent, kstack, cr3, current>>

Switch(next) ==
  /\ next # current
  /\ next # NULL => st[next] = "run"
  /\ current' = next
  /\ Becomes(Switched(m, next))
  /\ UNCHANGED <<st, parent, kstack, cr3>>

Next ==
  /\ m.panic = "no"
  /\ \/ \E c \in Procs : Fork(c)
     \/ \E image \in Images, v \in Touch \union {NULL} : Exec(image, v)
     \/ Exit
     \/ \E c \in Procs, v \in Touch \union {NULL} : Wait(c, v)
     \/ \E v \in Touch, write \in BOOLEAN : Refuse(v, write)
     \/ \E v \in Touch, value \in Value : Use(v, TRUE, value)
     \/ \E v \in Touch : Use(v, FALSE, 0)
     \/ \E next \in Procs \union {NULL} : Switch(next)

Spec == Init /\ [][Next]_vars

----------------------------------------------------------------------------
Live == {p \in Procs : st[p] # "none"}
Users == {p \in Procs : HasMm(p)}

\* Frames by what they are used for.
Stacks == UNION {kstack[p] .. kstack[p] + KSTACKPAGE - 1 : p \in Live}
Directories == {m.dir[p] : p \in Users}
Tables == {x \in Users \X DOMAIN NoTables : m.pt[x[1]][x[2]] # NULL}
Mapped == {x \in Users \X VPage : Pte(m, x[1], x[2]).is = "present"}
PageOf(x) == m.pte[x[1]][x[2]].page

\* Every frame is free or in use for one thing, whatever has failed before: it
\* is part of a kernel stack, a page directory, a page table, or a page that as
\* many entries map as its reference count says.  When the last process is gone
\* all frames are free again, which init_main asserts.
FramesAccounted ==
  m.panic = "no" =>
    LET mapped == Mapped
        PageUses(f) == {x \in mapped : PageOf(x) = f}
        pages == {PageOf(x) : x \in mapped}
    IN
    /\ m.free \union Stacks \union Directories \union pages
         \union {m.pt[x[1]][x[2]] : x \in Tables} = Frame
    /\ Cardinality(m.free) + KSTACKPAGE * Cardinality(Live) + Cardinality(Users)
         + Cardinality(Tables) + Cardinality(pages) = npage
    /\ \A f \in pages : m.ref[f] = Cardinality(PageUses(f))

AreasSorted(areas) ==
  /\ \A i \in 1 .. Len(areas) : UserAccess(areas[i].start, areas[i].end)
  /\ \A i, j \in 1 .. Len(areas) : i < j => areas[i].end <= areas[j].start

\* The areas of a process are sorted and apart, the cached one is one of them,
\* every page in its page table lies in an area and is writable as the area is.
\* CR3 holds the page directory of the current process, and never one that has
\* been given back.  The kernel stops only when memory is used up or a program
\* leaves its areas: no assertion fails, and no access of the kernel on behalf
\* of a program that user_mem_check has allowed faults for good.
AreasSound ==
  /\ m.panic \in {"no", "out of memory", "user fault"}
  /\ m.panic = "no" =>
       /\ \A p \in Users :
            /\ AreasSorted(m.vma[p])
            /\ m.cache[p] # NULL => m.cache[p] \in ToSet(m.vma[p])
            /\ st[p] = "run" /\ cr3[p] = p
       /\ \A x \in Mapped : \E a \in ToSet(m.vma[x[1]]) :
            InArea(a, x[2]) /\ (m.pte[x[1]][x[2]].write <=> "write" \in a.flags)
       /\ m.cr3 # NULL => m.cr3 \in Users
       /\ current # NULL /\ HasMm(current) => m.cr3 = current

\* The pages of the areas with their contents; a page nobody has touched may
\* hold anything.
Memory(p) ==
  [v \in {w \in VPage : \E a \in ToSet(m.vma[p]) : InArea(a, w)} |->
     IF Pte(m, p, v).is = "present" THEN m.data[m.pte[p][v].page] ELSE Junk]

\* What an image describes: its segments with a part in the file, and a stack.
Described(image) ==
  LET segs == {seg \in ToSet(image.segs) : seg.filesz > 0}
      stack == USERTOP - STACKPAGES .. USERTOP - 1
      SegPages(seg) == seg.va .. seg.va + seg.memsz - 1
  IN  [v \in stack \union UNION {SegPages(seg) : seg \in segs} |->
         IF v \in stack THEN Junk
         ELSE LET seg == CHOOSE seg \in segs : v \in SegPages(seg)
              IN  IF v < seg.va + seg.filesz THEN FileValue ELSE 0]

Descriptions == {Described(image) : image \in Images}

Promised == INSTANCE ProcMem WITH
  mem <- [p \in Procs |-> Memory(p)],
  Value <- Value \union {Junk}, Initial <- Descriptions

\* Through forks, page faults, failed and successful loads, each step changes
\* the contents of at most one process's pages, and as it should.
ImplementsMemory == Promised!Spec
=============================================================================
