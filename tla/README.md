# TLA+ models of the Smart MLFQ uCore kernel

The repository is a teaching kernel (uCore, x86, one CPU) extended with a
multi-level feedback queue scheduler that predicts how CPU-bound a process is.
This directory holds TLA+ models of its schedulers, its process management, its
memory from page frames to the loading of programs, its console and what it
needs for debugging, the TLC configurations that check them, and proofs checked
by TLAPS. Paths below are relative to `src/Smart MLFG/kern/` unless they start
with `libs/`, `user/` or `README.md`.

    tlc -config SmartMlfq_safety.cfg MCSmartMlfq     # one run
    tlapm SmartMlfq_proofs.tla                       # one module of proofs

`PROJECT.json` lists the runs, the source lines of every definition, for every
property a faulty variant of the code that breaks it, the hazards of the code,
and the theorems.

## 1. The system

| component | code | state | operations | modelled in |
|---|---|---|---|---|
| scheduler framework | `schedule/sched.c` | the `sched_class` in use, `rq`; `state` and `need_resched` of a process | `sched_init`, `wakeup_proc`, `schedule`, tick | `SchedCore`, and each class |
| smart MLFQ class | `schedule/mlfq_sched.c` | four queues, `global_timer`, `proc_num`; level, slice, count, score | enqueue, dequeue, pick_next, proc_tick, boost | `SmartMlfq` |
| basic MLFQ class | `schedule/basic_mlfq_sched.c` | the same without a score | the same | `BasicMlfq` |
| round-robin class | `schedule/rr_sched.c` | one queue, `time_slice` | the same interface | `RoundRobin` |
| stride class | `schedule/default_sched.c`, `libs/skew_heap.h` | a skew heap; stride, priority, `time_slice` | the same interface, `lab6_set_priority` | `StrideOrder`, `Stride` |
| timers | `schedule/sched.c` | `timer_list`, `expires` | `add_timer`, `del_timer`, `run_timer_list` | `Timers`, `TimerList` |
| process life cycle | `process/proc.c`, end of `trap/trap.c` | process table, family links, `wait_state`, `flags`, `nr_process` | fork, wait, exit, kill, `init_main` | `ProcLife` |
| pid allocation | `process/proc.c` | `last_pid`, `next_safe`, `proc_list` | `get_pid` | `GetPid` |
| physical pages | `mm/default_pmm.c`, `mm/pmm.c` | free list, block sizes, `PG_reserved` | alloc, free | `PagePool`, `FirstFit` |
| small objects | `mm/kmalloc.c` | circular free list, list of big blocks | kmalloc, kfree | `KernelHeap` |
| address spaces | `mm/vmm.c`, `trap/trap.c` | sorted list of areas, one cached area | `mm_map`, `find_vma`, `dup_mmap`, `exit_mmap`, `do_pgfault` | `Memory`, `AddressSpace` |
| page tables | `mm/pmm.c` | page tables, reference counts | `get_pte`, `page_insert`, `page_remove`, `copy_range`, `exit_range` | `Memory` |
| swapping | `mm/swap.c`, `mm/swap_fifo.c`, `fs/swapfs.c` | FIFO of swappable pages, swap entries | swap_out, swap_in | `Memory`, `BootChecks` |
| program loading | `process/proc.c` | an address space while it is made | `do_execve`, `load_icode` | `AddressSpace` |
| checks at boot | `mm/pmm.c`, `mm/vmm.c`, `mm/swap.c` | | `check_pgdir`, `check_vma_struct`, `check_pgfault`, `check_swap` | `BootChecks` |
| console input | `driver/console.c` | modifiers, ring of 512 characters | `kbd_proc_data`, `cons_intr`, `cons_getc` | `InputQueue`, `ConsoleInput` |
| screen, readline, monitor | `driver/console.c`, `libs/readline.c`, `debug/kmonitor.c` | screen and cursor, the line being typed | `cga_putc`, `readline`, `kmonitor` | `Monitor` |
| backtrace | `debug/kdebug.c` | | `stab_binsearch`, `debuginfo_eip`, `print_stackframe` | `StackTrace` |
| red-black tree | `libs/rb_tree.c` | a tree | insert, delete, search, successor, predecessor | `OrderedList`, `RbTree` |
| the rest | boot loader, traps in assembly, drivers, printing, user programs | | | no, see 8 |

**How they interact.** `proc.c` calls `wakeup_proc` and `schedule`; these call
the functions of the one `sched_class` that `sched.c:23` selects (the commit
selects basic MLFQ; smart MLFQ is the class the repository is about). The timer
interrupt calls `run_timer_list`, which calls the class's `proc_tick` on the
running process. A system call or interrupt from user mode ends in `trap()`,
which checks first `PF_EXITING`, then `need_resched`. `do_fork` takes a pid from
`get_pid` and memory from `kmalloc` and `alloc_pages`, and copies the areas and
pages of its parent; `do_execve` drops them and loads an image; `do_exit` and
`do_wait` give them back. A page fault brings in a page of an area that is not
there. `alloc_pages` asks the swap manager for a page when none is free.

**What is hard here.** The kernel is not preemptive, but interrupts are enabled
in system calls: a tick or an expiring timer comes between the change of a
process's state and its call of `schedule()`. Processes sleep inside `do_wait`
while others exit, fork, kill and adopt. Levels, slices and queues must agree
through boosts that move processes while they wait. `schedule()` changes a
heap's key while its node is still in the heap. Several quantities wrap around,
saturate or are cached from call to call. Memory is counted in four ways at once
(free list, reference counts, page tables, areas), and programs fail to load
half way. Bytes from the keyboard come in the middle of anything. Nothing is persistent, so there is no
crash recovery; there is one CPU, so there is no true parallelism.

**What makes each component correct.**

- *Framework*: the CPU goes to a runnable process whenever there is one; a
  wakeup that races with `schedule()` neither loses a process nor queues it
  twice; a set `need_resched` means the process that runs.
- *MLFQ classes*: queues agree with process states, levels and slices; scores
  stay fractions; levels are lost and won only for the behaviour the design
  names; order is kept; nobody starves.
- *Round robin*: first come, first served; no process gets an empty slice.
- *Stride*: the strides stay comparable; the least is picked; the heap loses
  nobody even when they are not comparable.
- *Timers*: each fires at its tick, in order, whatever is added and deleted.
- *Life cycle*: the family tree stays whole; no wakeup is lost; not everybody
  sleeps; a killed process ends; init ends alone.
- *Pids*: distinct, reused as late as possible; `get_pid` ends.
- *Pages*: none lost or given out twice; free neighbours are one block; a
  request is refused only when no run is long enough.
- *Small objects*: the same of units and of the ring, and of the pages behind it.
- *Address spaces*: areas apart and sorted, the cache never of another time, page
  tables as the areas say; no frame lost in any failure; to the program, memory
  of its own that fork copies and exec replaces.
- *Swapping*: a page holds what was written to it, wherever it has been.
- *Console*: characters in order, modifiers as the keys are held; the line on the
  screen is the line that is read.
- *Backtrace*: file, function and line of each call.
- *Red-black tree*: a sorted list in which equals keep their order; balanced.

## 2. Modules and how they correspond to the code

Six abstract specifications say what a component promises; the detailed ones
are shown to implement them (`INSTANCE ... WITH`, the abstract `Spec` as a
property).

    SchedCore  <--  SmartMlfq, BasicMlfq, RoundRobin, Stride (EXTENDS StrideOrder)
    SchedCore!NoStarvation  -->  assumed as the fairness of ProcLife
    Timers     <--  TimerList
    PagePool   <--  FirstFit, whose answers Memory relies on
    ProcMem    <--  AddressSpace (EXTENDS Memory)
    InputQueue <--  ConsoleInput, whose characters Monitor reads
    OrderedList <-- RbTree
    Memory     <--  BootChecks (EXTENDS)
    GetPid, KernelHeap, StackTrace
    MCKernelParts (EXTENDS FirstFit, GetPid): also TimerList, KernelHeap, BootChecks,
                   ConsoleInput, Monitor, RbTree and StackTrace in one run

Every faulty variant of an operator that `PROJECT.json` names stands right
before the operator, marked as such; no specification uses one. `MC...` modules
only give values to constants and define symmetry.

### SchedCore (abstract)

`state` is `proc->state` ("UNINIT" is also a `proc_struct` not in use),
`current` the owner of the CPU. `Fork`, `Wakeup`, `Sleep`, `Exit` and `Reap` are
what `do_fork`, `wakeup_proc`, `do_wait` and `do_exit` do to the state;
`Schedule` picks any runnable process, or `Idle` when there is none.

### SmartMlfq

`sched.c` driving `mlfq_sched_class`. The record `mlfq` holds `mlfq_inst`,
`rq->proc_num` and the MLFQ fields of each `proc_struct`; a list is a sequence.
The functions of the class are operators from record to record, under their
own names: `Enqueue`, `PredictAndLevelUpdate` (`NextScore`, `NextLevel`),
`Dequeue`, `PriorityBoost`, `BoostIfDue` and `FirstProc` (the halves of
`mlfq_pick_next`), `ProcTick`.

Actions: `Fork`, `Wakeup`, `Reap`, `Sleep`, `Exit`, `Yield`, `Tick`, `Schedule`.
`Sleep` and `Exit` are the part of `do_wait` and `do_exit` before their call of
`schedule()`; the variable `leaving` marks the window up to it, in which ticks
come and a timer may wake the very process that is leaving (`sched.c:95`).
`Schedule` is the whole of `schedule()`: enqueue the current process if it goes
on, pick (with the boost), dequeue, clear `need_resched`, run. A process in
kernel code may call it at any time, idleproc only with `need_resched` set.

Abstractions: `global_timer`, the slice and `sched_count` saturate where
comparisons stop telling values apart; the statistics `runs` and `last_burst`,
which nothing reads, and the trace output are left out. A freed slot gets at
`Reap` the fields its next `alloc_proc` sets. `Wakeup` may happen to any
sleeper at any time: who wakes whom is the matter of `ProcLife`.

### BasicMlfq, RoundRobin, Stride

The same actions with another class. `BasicMlfq` keeps the fields of a process
in one record (`procs[p].level`, `.ticks`, `.count`). `RoundRobin` keeps
`run_list` and the `time_slice` that a process carries through sleeps and
yields. `Stride` keeps the skew heap as a tree `<<process, left, right>>`;
`Heaps[S]` are the trees in which each process of `S` stands once. `Merge` is the
recursion of `skew_heap_merge`, written as a recursive function so that it can be
proved about. Parent pointers are left out: `skew_heap_remove` uses them only for an
entry below the root, and only the root is ever removed. In `Stride!Schedule` the
stride of the root moves before the root is removed, as `stride_pick_next` does.
`StrideOrder` has the arithmetic of strides: words of
`2 * (BIG_STRIDE + 1)` values, compared by the sign of their difference.

### TimerList, Timers

`timer_list` is the delta list: each timer keeps the ticks it expires after the
one before it. `Add`, `Del` and `Tick` are `add_timer`, `del_timer` and
`run_timer_list`; they run with interrupts disabled, one step each. `fired`
records which timers the last step woke, in order. In `Timers` there is a queue
of timers for each number of ticks left. The mapping adds up the entries. Nothing
in the repository arms a timer; the interface is what is specified.

### ProcLife

One action is what a process does up to its next `schedule()`, that call
included; nothing else that runs meanwhile (interrupt handlers) touches this
state. `pc[p]` says where a process goes on: user mode, the end of `trap()`, in
`do_wait` or in `do_exit` behind their `schedule()`, or in `init_main`.
`Fork`, `Exit`, `Wait`, `Kill` are the system calls, `Trap` a tick or a call
without effect here (yield, a fork that failed), `WaitResumes` the way back
into the loop of `do_wait`, `ReturnKilled`, `ReturnToUser` and `ReturnResched`
the end of `trap()`. The family links are `parent`, `cptr`, `optr`, `yptr`,
changed pointer by pointer (`SetLinks`, `RemoveLinks`, `AdoptByInit`); the loops
over children (`Kids`, `OrphansToInit`) are recursive functions of the number of
rounds, of which as many as there are processes are enough. Whether
`need_resched` is set is a choice, as a tick may set it at any time. A
`proc_struct` and its pid are one element of `Procs`; `GetPid` has the pids.

### GetPid

`last_pid` and `next_safe` are the static variables; `pos` is the node the loop
is at. `Quick` is a call that does not look at the list; `StartScan`,
`Collision`, `Pass` and `EndScan` are the steps of one that does (`Collision`
with the `goto repeat`). `RemovePid` is `remove_links` between calls.

### FirstFit, PagePool

`free_list` is the list of page descriptors, `property` the size that only the
head of a free block has. `Alloc` and `Free` are `default_alloc_pages` and
`default_free_pages`, with the split and the two merges as the code makes them:
it finds the head of the block before by walking back to an entry with a size.
In `PagePool` a request gets the lowest run of free pages that is long enough.

### Memory, AddressSpace, ProcMem

`Memory` has no actions: it holds the functions of `pmm.c`, `vmm.c`, `swap.c` and
`swap_fifo.c` as operators on one record `m`, in which `free`, `ref`, `data`,
`pt`, `pte`, `vma`, `cache`, `pra`, `disk` and `check` are the free list, the
counters, the contents of frames, page tables and their entries, the lists of
areas and their caches, the FIFO list, the swap device and `check_mm_struct`. A
caller applies one operator after the other, so a call that fails half way
leaves what its code leaves. A failed assertion or a panic is recorded in
`panic`, and nothing happens after it. Addresses are page numbers, and a page
holds one value.

`AddressSpace` has the system calls as actions: `Fork` (`do_fork` with `copy_mm`;
guarded by memory for the stack, the only thing that can be refused without a
panic), `Exec` (`do_execve` and `load_icode` with every error exit; the name
argument is checked in user memory), `Exit`, `Wait` (with the exit code written
to user memory), `Refuse` (a bad pointer), `Use` (an access of the program, with
the page fault it causes) and `Switch` (CR3). A system call is one step, as the
kernel is not preemptive and none of these sleeps but `do_wait`, which is in
`ProcLife`. Images are aligned to pages: the loops of `load_icode` that fill parts
of pages become one value per page.

In `ProcMem` a process has a function from pages to contents. A step changes that
of one process: to a copy of another's, to what an image describes, to nothing,
or in one page. The mapping takes the pages of the areas; one that is not mapped
yet may hold anything.

### BootChecks

`check_pgdir`, `check_vma_struct`, `check_pgfault` and `check_swap` are run against
`Memory` as the kernel runs them, with their assertions: what they expect is an
independent statement of what `Memory` has to do. `Prepare`, `NextAccess` and
`Restore` are `check_swap` access by access. `AnySpec` goes on, where
`check_content_set` has ended, with writes to the same pages in any order.

### KernelHeap

`heap` holds the ring of free blocks (`slobfree`, `next`, `units`), the sizes of the
blocks in use, the list of big blocks and the free pages. `Kmalloc` and `Kfree`
are the calls, `SlobAlloc` and `SlobFree` the functions under them, with the walk
from `slobfree` and both joins. Units of `SLOB_UNIT` stand for bytes.

### ConsoleInput, InputQueue, Monitor

The devices are external: a key that goes down or up sends one or two bytes, and
`cons_getc` (called by the interrupts and by `readline`) may come between them.
`kbd_proc_data` has the E0 flag, the release bit, shift and lock keys and the key
maps, of which letters, Enter, Backspace and Delete are kept. In `InputQueue`
characters wait in one queue that is lost as a whole when it reaches the size of
the ring. `Monitor` has the screen as `cga_putc` writes it, with its scrolling,
the line of `readline`, and `kmonitor` up to the words it would run.

### StackTrace

A program is a sequence of instructions, each of which may begin a file, a
function, a line, or code from a header; `Stabs` is the table the compiler writes
for it (external; every function has variables, whose stabs are behind those of its
lines). `stab_binsearch` is the loop as it is, on type and value;
`debuginfo_eip` narrows its ranges from one search to the next; `PrintStackframe` is
`print_stackframe` over the frames of the calls in progress.

### RbTree, OrderedList

The nodes `nil` and `root` and the fields of all others are the record `t`;
`rb_insert`, `rb_delete` and the rotations change it pointer by pointer, with the
assertions of the code. `OrderedList` is a sorted sequence.

### MCKernelParts

These parts share no state, in the model as in the kernel, and each is small:
they are checked in one run, in which a behaviour picks one part and only that
part moves. Its properties are theirs, by their names. `FirstFit` and `GetPid`, about
which there are theorems, are extended, so that their assumptions and properties
are checked as they are stated there; the others are instances.

## 3. The runs

| run | question | instance |
|---|---|---|
| `SmartMlfq_safety` | Do queues, levels, slices and states agree after any order of forks, sleeps, wakeups, exits, yields, ticks, boosts? Do scores stay in range and follow behaviour? Is the order kept? Does the class implement `SchedCore`? | 3 processes, slices 1,1,2,2, boost after 2 ticks, scale 2, symmetry; 582,555 states |
| `SmartMlfq_live` | Does every ready process get the CPU? | 2 processes, the same constants, no symmetry; 45,258 states |
| `BasicMlfq` | The same of the committed class; here also liveness with three processes | 3 processes; 358,005 states |
| `RoundRobin` | Is it first in, first out, with slices carried along, and starves nobody? | 4 processes, slice 2; 86,688 states |
| `Stride` | Does the heap keep every process when strides are out of order? Is the least picked while they are in order, over the wrap? | 3 processes, slice 1, words of 3 bits, priority 2; 832,608 states |
| `ProcLife_safety` | Family, wakeups, deadlock, count, end of init, in every order of fork, wait, exit, kill | init and 5 processes, limit 6, symmetry; 108,833 states |
| `ProcLife_live` | Does `do_wait` return when there is a dead child? | init and 3 processes; 28,294 states |
| `ProcLife_kill` | Does a killed process end, as `proc.c:56` says? **Not always** (finding 1) | init and 2 processes |
| `AddressSpace` | Are frames, tables, areas and counters in step through forks, good and bad images, page faults and exits, also when memory runs out? Does each process see its own memory only? | 2 processes, 19 frames, 5 user pages under 2 page tables, 4 images, symmetry; 51,371 states |
| `KernelParts` | Nine parts of the kernel, one at a time; see below | 142,800 states |
| `StackTrace_lines` | Is the line of every call right, as `kdebug.c:223` says? **No** (finding 3) | every program of 3 instructions, 1 call |
| `BootChecks_any` | Does a page that was swapped out and in keep its contents, as `vmm.c:467` and `swap.c:103` say? **No** (finding 2) | the 4 frames and 5 pages of `check_swap` |

`KernelParts` is made of

| part | question | instance |
|---|---|---|
| pids | Are pids distinct and cyclic, and does the scan end? | pids 1..7, up to 6 processes; 20,102 of the states |
| timers | Does each timer fire at its tick and in its turn? | 4 timers of up to 4 ticks |
| frames | Do splits and merges keep the free list sound, and refuse only what cannot be had? | 10 page descriptors, regions of 5 and 2 pages with a hole, requests up to 3 |
| heap | Is every unit in one place and free neighbours joined? | 3 pages of 5 units, requests of 1, 2, 4 units and of two pages |
| checks | Do the assertions of the checks at boot hold? | 7 frames, the accesses of the code |
| input | Do characters come out in order, with the right modifiers? | right Ctrl and A, one serial character, a ring of 3 |
| screen | Does the screen show the line? | 3 rows and columns, lines of up to 4, any start of the cursor |
| tree | Is it a sorted list, and balanced? | 8 nodes, two pairs of equals |
| trace | Does the backtrace name the files and functions of the calls? | every program of 4 instructions, 2 calls |

### What the properties say

- `QueuesAgree`: a process is in a queue exactly when it is runnable and not
  running, once, at the level it holds, with that level's whole slice; and
  `proc_num` counts them. It breaks when, for example, `wakeup_proc` drops its
  test for the running process. `PoolAgrees` and `QueueAgrees` are its
  counterparts for the heap and for round robin.
- `ScoreInRange`: a score is a fraction of `SCORE_SCALE`; it stays one because
  no slice is longer than its level grants. A boost that forgets the slice
  breaks it two steps later.
- `ReschedIsRight`: no order of ticks and system calls lets a process run on
  with its slice used up unnoticed, and the mark never sticks to another one.
- `NoOvertaking` (smart class) and `Fifo` (round robin): waiting processes keep
  their order, also through a boost that merges four queues, and newcomers go
  behind.
- `LevelChangesAreEarned`: a level is lost one at a time and for a full slice;
  won by giving the CPU up, by a boost, or by being a new process.
- `ScoreFollowsBurst`: a full slice never lowers a score and never leaves it
  below the I/O threshold, an untouched one never raises it, and nothing charges
  a process while it sleeps, a tick before its call of `schedule()` included.
- `ImplementsCore`: `schedule()` runs a runnable process whenever there is one.
- `NoStarvation`: who is ready runs. For the MLFQ classes the boost is what
  makes it true: without it the run finds a process starved.
- `StridesStayInStep`, `PicksMinimum`: turns keep the strides on one half of
  the circle of words, and while they are there the process dispatched has the
  least. Both are conditional, and have to be: a new process starts at stride 0
  wherever the others are.
- `ImplementsTimers`: a timer fires after the ticks it was armed for, in its turn
  among those due together, whatever is added and deleted in between.
- `FamilyIsWhole`: the tree is what the links say, in both directions, every live
  process has a live parent, `nr_process` counts them, and the assertions of
  `init_main` hold at the end. `NoLostWakeup`: a sleeper has a live child it waits
  for and is marked to be woken by it, and somebody can always run.
  `WaitReturns`: `do_wait` ends when there is a dead child.
- `PidsDistinct`, `TakesTheNextFree`, `GetPidReturns`: the
  remembered interval is free between calls, the pid given is the next free one
  in cyclic order, and the restarts of the scan end.
- `FreeListIsSound`, `ImplementsPool`: every usable page is
  in one place, sizes stand on the heads of longest runs and nowhere else, no
  request is refused that could be served, and the first fit is the lowest run.
- `HeapIsSound`: the ring is one ring in the order of addresses, no two free blocks
  touch, blocks in use have room for what was asked and overlap nothing, and
  every page is free, in the heap or in a big block.
- `FramesAccounted`: each frame is free or has one use, and as many entries map a
  page as its counter says, after any sequence of failed and successful calls;
  so `init_main` finds all frames free again. It breaks when the error path of
  `load_icode` forgets what it has loaded, or `page_insert` counts a page twice.
- `AreasSound`: areas are apart, the cached one is current, page tables agree with
  areas, CR3 is never a directory that was freed, and the kernel stops only for
  want of memory or for a fault of the program, never for an assertion.
- `ImplementsMemory`: processes do not see each other's memory; see `ProcMem`.
- `SwapKeepsContents`, `CheckPasses`: see finding 2 and `BootChecks`.
- `ImplementsQueue`: no character is lost, doubled or overtaken while the ring is
  not full, and a full ring loses all of it. `NoStuckModifier`: when no byte is
  on its way, the modifiers are those of the keys held down.
- `ScreenShowsLine`: the characters before the cursor are the line typed, over line
  ends, scrolling and backspaces.
- `BacktraceNamesCalls`: for each call the file, the function and its offset are
  right, and the search for the line ends at the stab of the line.
  `BacktraceGivesLines`: the line reported is right; see finding 3.
- `TreeIsSound`, `ImplementsList`: red-black rules after any inserts and deletes,
  `check_tree` and the assertions of the code included; order and search are
  those of a list.

### Bounds, and why they are enough

- **Processes.** Three are one that runs and two that can overtake each other;
  round robin has four, as its states are few. `ProcLife` needs init, a parent,
  its children and grandchildren, and siblings on both sides of one that is
  removed: init and five.
- **Slices 1, 1, 2, 2** (the code: 2, 4, 8, 16) make none, half and all of a
  slice used, and let levels differ in length. **`BOOST_TICKS` 2**: levels 2 and
  3 are still reached, as a boost moves only the processes in queues: one that
  sleeps through it keeps its level and goes on down from there. **`SCORE_SCALE` 2, threshold 1** keep the EWMA
  to three values. What does not depend on sizes is proved for all constants
  (section 5).
- **Words of 3 bits** (`BIG_STRIDE` 3) wrap around within a few turns; the
  priorities met are 0 (never set, so a pass of `BIG_STRIDE`) and 2 (a pass of
  1).
- **`MAX_PID` 8, `MAX_PROCS` 7** (the code: 8192 and 4096) leave one pid more
  than processes, so that scans collide again and again and wrap.
- **Ten page descriptors** in `FirstFit`: regions of five and two pages with
  holes behind both, so that runs at the edge of memory, on both sides of a hole, and blocks of 1, 2 and 3
  in a run of 5 are split and merged in all orders. The regions are an
  assumption about the firmware's map (`MemoryAssumption`).
- **4 timers of up to 4 ticks**: one before, one at the same tick, one behind
  the one added or deleted.
- **Two processes, 19 frames** in `AddressSpace`: two are enough for one to see
  the other's memory, for a parent that exits first, and for a slot used again. A
  process needs up to 10 frames (2 of stack, a directory, two tables, five
  pages), so that two do not quite fit and memory runs out at the last pages of
  the second. Two tables share an area, so that `exit_range` meets a table twice.
- **3 pages of 5 units** in `KernelHeap`: two pages side by side can join over their
  border, and a free block can lie before, between and behind those in use.
- **A ring of 3** (the code: 512) runs over in a few keys. **A 3 by 3 screen** (25 by
  80) scrolls within one line of input. **8 nodes** reach all cases of both
  fix-ups. **Programs of 4 instructions** give tables of up to some 20 stabs; the
  binary search depends on no more than the types and the order of values.
- `FillAreas` inserts 3 of 9 areas backwards (the code: 10 of 100).
- Symmetry of processes is used in the four runs without liveness properties
  only, and init is never permuted.

`CHECK_DEADLOCK FALSE` stands in `ProcLife`'s three runs, where the system stops
when `init_main` returns (a panic in `proc.c`; `halted` is the model of this, and
that it does not stop before is part of `NoLostWakeup`); in `AddressSpace`, which
stops in a panic and when the last process is gone; and in `KernelParts`, where
the checks at boot come to their end.

## 4. Fairness

- *Schedulers*: weak fairness of `Tick` (the timer interrupts for ever, also in
  kernel code, where interrupts are enabled) and of `Schedule` when it must be
  called: a process that is leaving is a few instructions before the call, and
  one with `need_resched` calls it at the end of `trap()` at the latest. A
  process need not do anything else: one that never sleeps, or yields or forks
  for ever, is among the behaviours.
- *ProcLife*: weak fairness of what the kernel does without being asked (idle
  loop, init, the loop of `do_wait`, the exit of a killed process, ticks), and
  for each process strong fairness of being picked when a process is
  rescheduled at the end of `trap()`. The last is `SchedCore!NoStarvation`, which
  the runs of the MLFQ and round-robin classes check; the ticks make every
  program come to the end of `trap()` again and again. Nothing makes a program
  exit, wait or kill. The stride class is not shown to be starvation-free: new
  processes of stride 0 can come before an old one for ever.
- *GetPid*: a call does not stop halfway.
- The other modules have safety properties only: their steps are whole calls.

## 5. What is proved

All proofs hold for every value of the constants that the module's assumption
allows; TLC evaluates these assumptions in the runs.

**`SmartMlfq_proofs`**, under `MlfqAssumption`: idleproc is no member of
`Procs`, slices, boost period and scale are positive, and the threshold is
between 0 and the scale; `Procs` may be infinite. `QueuesAgree` is not
inductive: `Dequeue` takes the first process of the queue of the level that
process holds, `Schedule` relies on a running process being runnable unless it is leaving, and
a score is in range only while no slice is longer than its level
grants. The inductive invariant is

    IInv == TypeOK /\ Holds(mlfq, ReadySet) /\ CurrentIsRunnable
            /\ ReschedOnlyCurrent /\ OverrunIsNoticed

where `Holds(m, S)` says of a record `m` of the class that its queues hold
exactly the processes of `S`, with all that `QueuesAgree` and `ScoreInRange`
claim. It is stated for any record and set because `schedule()` goes through
intermediate ones: each function of the class gets a lemma that says which set
it leaves (`EnqueueHolds` adds a process, `BoostHolds` keeps the set,
`TakeHolds` removes the one picked, `TickHolds`, `AllocHolds`), and each action
composes them.

- `Invariance`, and from it `TypeCorrect`, `QueuesAlwaysAgree`,
  `ScoresStayInRange`, `ReschedStaysRight`.
- `Refinement`: every step is a step of `SchedCore` or leaves its variables
  unchanged.
- `ScoresFollowBursts`: `ScoreFollowsBurst` holds if
  `10 * IO_BOUND_THRESHOLD <= 4 * SCORE_SCALE + 6`. The constants of the code
  (300 and 1000) satisfy it; this is how far the threshold may be raised
  before a process that uses its slices up is taken for I/O-bound. That a sleeper
  is not charged is `SleeperUntouched`: a boost does not move it because it is in
  no queue.
- `LevelsAreEarned`: needs one more invariant, that a process which was never
  dispatched is at the top (`NewAtTop`); else the first enqueue of a new process
  could be a rise nobody earned.
- `NobodyOvertakes`: what a process has in front of it is the order by level and
  place (`LineOrder`). Each function gets a lemma about that order
  (`EnqueueOrder`, `BoostOrder`, `TakeOrder`), and a boost keeps it because the
  queues are appended to the top one from the second level down, each from its
  head.

**`BasicMlfq_proofs`**, the same along the same lines for the class that is
committed: `QueuesAlwaysAgree`, `LevelsAreEarned`, `Refinement`, from an invariant
without scores.

**`RoundRobin_proofs`**, under `RRAssumption`: `QueueAlwaysAgrees`,
`FirstComeFirstServed`, `Refinement`. The invariant adds to `QueueAgrees` that the
process on the CPU is runnable unless it is leaving: otherwise a wakeup could
put the running process into the queue.

**`ProcLife_proofs`**, under `LifeAssumption`: `Procs` is a finite set with
`InitProc` in it and without `Idle` and `NULL`. The kernel's table is finite
(`proc_list` lives in memory, pids are below `MAX_PID`), and the assumption is
needed: the loops over children end because there are only so many.
`FamilyStaysWhole` states `FamilyIsWhole`, `NobodySleepsThrough` states
`NoLostWakeup`. Neither is inductive. The invariant is

    IInv == TypeOK /\ Listed /\ Related /\ Ranked /\ SleepersWait /\ InitLives
            /\ CurrentRuns /\ NrProcessCounts /\ InitLeavesLast

- `Listed`: there is a function `L` from processes to lists without repetition
  such that `cptr`, `optr`, `yptr` and `parent` are exactly the links of these
  lists. `FamilyIsWhole` speaks of what a walk along the pointers finds, and a
  walk says nothing of a pointer it does not pass. `SetLinksLinks`,
  `RemoveLinksLinks` and `AdoptOne` (one round of the loop of `do_exit`) give the
  lists after the pointers were changed; in the middle of that loop the pointers
  form lists with one exception, the head of what is left, and `AdoptAll` carries
  this through its rounds.
- `Related`: every process in the table but init has a parent in the table that
  has not exited.
- `Ranked`: ranks can be given so that a child's is above its parent's, that is,
  nobody descends from itself. This follows from no other part, and `NoLostWakeup`
  rests on it: a sleeper of the highest rank would wait for a child that does not
  sleep and is not dead, so somebody can run. It is also why init is alone when it
  has no child (another process of the least rank would be a child of init).
- `SleepersWait`: who sleeps does so in `do_wait`, marked, with a child it waits
  for; `wait_state` is set for nobody else.

The invariant was checked by TLC with five processes before it was proved.

The last part of the module is about `GetPid`, which it extends as well, under
`PidAssumption` (the `static_assert` of `get_pid`):
`PidTypeCorrect`, `PidsUnique`, `IntervalFree`, `NextFree`. The invariant must
speak about the middle of the scan: `Scanned` (the nodes passed are not
`last_pid`, and none of them lies between it and `next_safe`) and `Rejected`
(every pid between the last one given and the candidate is in use). That the
scan ends is a liveness property and stays with TLC.

**`Stride_proofs`**, under `StrideAssumption` (`Procs` is finite, without `Idle`) and
`WidthAssumption` (`BIG_STRIDE` positive), so also for words of 32 bits:
`PoolAlwaysAgrees`, `LeastIsPicked`, `StaysInStep`, `Refinement`. Three theorems are of
the arithmetic alone: `TurnIsAtMostHalf`, `HalfCircleIsOrdered` (on a half circle the
comparison is a strict total order with a first element), `TurnKeepsHalfCircle`
(a turn of a process none of the others is behind keeps them there). The invariant is

    IInv == TypeOK /\ Holds(pool, lab6_stride, Waiting) /\ CurrentRuns

where `Holds(h, s, R)` says that `h` is in `Heaps[R]` and in order (`InOrder`): of a
process and one right under it, the comparison does not put the lower one first.
`PicksMinimum` needs the order, and the order has to be stated so that it survives
strides that have none: comparisons of words go round in circles, so nothing may be
said of processes two levels apart. Such a heap can always be kept (`MergeJoins`),
and only when the strides lie on a half circle does it follow, from the bottom up,
that the one at the top is the first (`TopIsFirst`). `InOrder` speaks of a set of heaps
closed under taking what is right below, so it is left alone by whatever happens to
a stride outside the heap (`OrderSame`); this is what lets `stride_pick_next` move the
stride of the root while it is still there.

**`FirstFit_proofs`**, under `MemoryAssumption`: the regions of usable memory are
listed by address and there is other memory between two of them. `init_memmap`
relies on this: it appends each region to the list and merges nothing.
`FreeListStaysSound` states `FreeListIsSound`, `Refinement` states
`ImplementsPool`. The invariant is

    IInv == TypeOK /\ EveryPageOnce /\ NrFreeCounts /\ Sorted(free_list)
            /\ Sized(property, IsFree) /\ ... /\ HeldIsReserved

`Sized` says that the sizes tell the longest runs of free pages: the first page of
a run has its length, and every other free page has 0. The part left out here is
that the later pages of a block in use have 0 too, since they come back to the
list as they are. That no request is refused that a run could serve is not part
of the induction: it follows from the others (`FitsInARun`).

- `RunInList`: pages that follow each other in memory do so in a sorted list. It
  is why taking the next `n` entries of the list takes the next `n` pages.
- `SizedAfterTake`, `SizedAfterJoin`: what a split, and what joining a block
  with the run behind and the run before it, leave of the sizes.
- `WalkBack`: the walk of `default_free_pages` from the place of the block back to
  an entry with a size ends at the start of the run before it, and at no other
  block's. `Neighbours`: the entries beside that place are the pages beside the
  block whenever those are free.

**`AddressSpace_proofs`**, under `MemoryAssumption` (there are user pages, and a page
table has entries) and `AddressSpaceAssumption`: processes are named by their
`mm_struct` and finitely many; a kernel stack fits into memory; the program
headers of an image are sorted by address and start below the stack, as the linker
lays programs out. They need not be right in other respects: a segment may be
longer in the file than in memory, or reach into the next one or into the stack.
Without the order an assertion fails (see 6, `mm_map`). `AreasAlwaysSound` states
`AreasSound`, `FramesAlwaysAccounted` states `FramesAccounted`, `Refinement` states
`ImplementsMemory`. The invariant is

    Inv == m \in Memories /\ (m.panic = "no" => Sound)

where `Sound` says of the processes what CR3, `cr3` and `dir` have to do with each
other and that kernel stacks lie apart, and of the memory `Good(m, Stacks)`.
`Good(u, R)` is what every function of `Memory` keeps: it says of a memory `u`, while
the frames `R` are somebody else's,

- `Accounted`: a frame is free, or in `R`, or has exactly one owner, which is a
  process (its page directory), a place in a directory or a place in a page table.
  `FramesAccounted` counts frames, and a count is of no use to an induction: a
  frame that is lost and one that is used twice make up for each other. The set
  `R` makes the middle of a call speakable: `alloc_pages` moves a frame to `R`,
  `page_insert` moves it on to an owner (`OwnFrame`), `page_remove_pte` and
  `free_pages` take it back (`LoseFrame`, `GiveFrames`);
- `Referenced`: a free frame has no reference and a mapped page has one;
- `SpaceSound`: the areas are sorted and apart, the cached one is among them, pages
  and page tables lie in areas. The last is why `exit_mmap`, which walks over the
  areas, gives everything back (`AreasUnmapped`, `AreasExited`).

When a page cannot be had, a call goes on with a memory that is used up (`Oom`), and
all that is said of it is that this stays so. Every operator has a lemma with these two
outcomes, which also says whose contents differ (`Kept`, `Others`, `Stores`), up to
`DropMm`, `CopyMm`, `LoadIcode` and `Access`; every action composes them
(`EveryStep`), and changes the memory of one process at most (`OneAtATime`). For
`Refinement` it remains to read the pages of the areas as memory (`Seen`):
`ImageSeen` says that a loaded image is there as `Described`. `FramesAlwaysAccounted`
counts what `Accounted` says, by one-to-one maps from owners to frames.

**`SequenceFacts`** holds what these proofs share: what appending, taking the first
and concatenation do to a list without repetition and to the order in it.

Induction over data is done without the library's induction theorems: `LeastOf` (a
set of natural numbers has a least element, from the library's theorem about `<`) gives
the least counterexample, to which the step is applied. A recursive function
is a `CHOOSE`; it equals its definition once some function does, and that there is one
for every number of rounds is proved the same way (`LoopRuns`; `FlattenRuns`
for the community modules' `FlattenSeq`, which `FirstFit` begins with; `HeapsExist` and
`MergeExists` by the number of processes in a heap; `UpTo` and `DownTo` for the loops
of `AddressSpace` over pages, page tables, areas and program headers).

**Only model-checked**: all liveness (it rests on fairness), and the parts of
`KernelParts` other than `FirstFit` and `GetPid`, of which `RbTree` and the search
of `StackTrace` are recursive operators and so out of the prover's reach. The
proofs about `Memory` are for memory as it is after boot, when `check_mm_struct`
is NULL and nothing is swapped out; swapping is checked by `BootChecks` only.

## 6. Findings

1. **A killed process can sleep for ever** (`ProcLife_kill`). `trap()` looks at
   `PF_EXITING` before it calls `schedule()` and not after (`trap.c:290`), and
   `do_wait` does not look before it sleeps. A process killed while it waits in
   the run queue goes back to user mode and can go to sleep in `do_wait`; a
   second kill finds the flag set and wakes nobody (`proc.c:782`). It ends only
   when its child does.
2. **A page that was swapped in is swapped out to the wrong place**
   (`BootChecks_any`). `do_pgfault` makes it swappable but does not set its
   `pra_vaddr` (`vmm.c:528`), which still names the page the frame held before.
   When it is evicted, `swap_out` writes it to that page's slot, replaces that
   page's entry and frees a frame that is still mapped. `check_swap` does not see
   this, because its accesses end before such a frame is evicted again: run with
   them, `CheckPasses` holds.
3. **The backtrace gives line 0** (`StackTrace_lines`). `debuginfo_eip` reads the line
   from `stabs[rline]` (`kdebug.c:227`), the right end of the range; the comment of
   `stab_binsearch` says that the left end points to the stab that was looked for.
   Where a stab of another type follows the line's, as behind the last line of a
   function with variables, its `n_desc` is printed for a line number, although the
   comment at `kdebug.c:222` says the right one is set.

Observed while modelling, without a run of their own:

- `default_pmm.c:134` resets `PG_reserved` of the first page of a freed block
  only; the comments at `default_pmm.c:54` and `memlayout.h:140` say that a free
  page has it clear. `FirstFit` models what the code does; its other properties
  hold.
- `rr_sched.c:39` says the slice is reset; the code at `:40` resets it only when
  it is used up or too long, so a process that sleeps early continues with the
  rest. `RoundRobin` models this.
- `proc.c:128` starts a new process at stride 0, so that strides can lie more
  than `BIG_STRIDE` apart and the "minimum value of stride" of the comment at
  `default_sched.c:96` need not exist. Hence
  the conditions in `StridesStayInStep` and `PicksMinimum`.
- `mlfq_sched.c:146` inserts at the tail; the comment above says head.
- `README.md:184` says a process with `cpu_score` above 700 is taken for CPU-bound
  and demoted. 700 occurs nowhere, and `mlfq_sched.c:97` moves every process
  that yields up, whatever its score, by one level if not to the top.
- `pmm.c:171` swaps out of `check_mm_struct`, which is NULL after boot: the first
  page that cannot be had is a read through a null pointer and ends in a panic.
  `AddressSpace` calls this "out of memory". Swapping thus works in `check_swap`
  only, and finding 2 cannot hurt a process as the kernel is committed.
- `trap.c:210` prints "killed by kernel." for a bad access of a program, and panics.
- `check_swap` replaces the free list by the stored one (`swap.c:272`) although it
  has freed its frames to the other: they are lost to the allocator.
- Every `mm_create` empties the one FIFO list (`swap_fifo.c:37`), and slots are
  named by the virtual address alone (`swap.c:105`): two address spaces that swap
  would share slots.
- `copy_range` passes over pages that are swapped out: a child would miss them.
- `mm_map` looks for an area at the start of a range only (`vmm.c:172`): a range
  that reaches into a later area fails the assertion at `vmm.c:108` instead of
  returning an error.
- `load_icode` passes over segments without a part in the file, so that a program
  with nothing but zeroed data in a segment has none of it.
- `__kmalloc` lets sizes through on which the assertion of `slob_alloc` fails
  (`kmalloc.c:229` against `:100`), and `find_order` loses what it shifts out; no
  caller asks for such sizes, and `KernelHeap` leaves them out (`Refused`).
  `ksize` unlocks another lock than it took; nobody calls it.
- `slob_alloc` never returns a page, yet `init_main` asserts that the number of free
  pages is what it was: true only because the heap has grown before.
- A full ring of the console looks empty (`console.c:226`).
- `kmonitor.c` terminates a line with too many words behind the end of `argv`.
- The loop of `check_boot_pgdir` counts bytes up to `npage`, a number of pages
  (`pmm.c:694`), and so looks at a few pages only.
- `run_timer_list` wakes a process without a look at its state (`sched.c:193`); a
  timer that outlived its process would fail the assertion of `wakeup_proc`.
- `printfmt.c` pads numbers on the left with `-` when it is given the flag `-`.

## 7. Plan

What is left, in this order.

1. Proofs: `TimerList` (the refinement of `Timers`), `ConsoleInput` (the refinement
   of `InputQueue`).
2. `AddressSpace` with images that are not aligned to pages, where two segments
   share a page.
3. The checks of the first-fit manager (`basic_check`, `default_check`) against
   `FirstFit`, as `BootChecks` does it for the others.
4. Errors of the disk in `swap_in` and `swap_out`.

## 8. What is not modelled, and why

The boot loader, assembly, the interrupt controller, the clock and the disk are
port input and output; what comes from the keyboard and the serial port is
external to `ConsoleInput`. Strings and printing format text for people and have
no state. User programs are the environment: the models let them make any system
calls in any order. `rb_tree_destroy`, `ksize`, `copy_from_user`,
`copy_to_user` and alignments of `kmalloc` have no callers. The mapping of the
kernel's own memory is made once and never changed. The commands of the monitor
print; `print_kerninfo` prints addresses of the linker.

The error paths of `copy_mm` and `setup_pgdir` are not taken in `AddressSpace`,
because a page that cannot be had is a panic (see 6); that leaves the kernel
stack, which needs two pages and is refused without one. `kmalloc` is taken to
succeed there. The overflow of `sched_count` after 2^31 dispatches and of other
statistics is left out.
