----------------------------- MODULE BootChecks -----------------------------
(***************************************************************************)
(* What the kernel checks about its memory while it boots, before there    *)
(* are processes: check_pgdir of kern/mm/pmm.c, check_vma_struct and       *)
(* check_pgfault of vmm.c and check_swap of swap.c.  All of them work on   *)
(* one mm_struct and on boot_pgdir.                                        *)
(*                                                                         *)
(* check_swap is the only time the swap manager works: pages are written   *)
(* while only four frames are free, in the order of check_content_set and  *)
(* _fifo_check_swap.  Spec runs all checks; AnySpec writes the same pages  *)
(* in any other order behind check_content_set.                            *)
(***************************************************************************)
EXTENDS Memory

CONSTANTS mm,                          \* the mm_struct of the checks
          CHECK_VALID_PHY_PAGE_NUM,    \* frames it may use
          CHECK_VALID_VIR_PAGE_NUM     \* pages it uses, from page 1 on

\* What is assumed of the constants.
CheckAssumption == mm \in Mm

VARIABLES m, pgfault_num,
          step,        \* 0: before check_swap; n: before its n-th access;
                       \* below 0: the checks before that one
          check_rp,    \* the frames that check_swap took
          stored       \* free_list_store

vars == <<m, pgfault_num, step, check_rp, stored>>

Checked == 1 .. CHECK_VALID_VIR_PAGE_NUM

\* The accesses, by page, and after each the number of page faults that an
\* assertion asks for.
Accesses == <<1, 1, 2, 2, 3, 3, 4, 4,  3, 1, 4, 2, 5, 2, 1, 2, 3, 4>>
ExpectedFaults == <<1, 1, 2, 2, 3, 3, 4, 4,  4, 4, 4, 4, 5, 5, 6, 7, 8, 9>>
ContentSet == 8    \* the first of them are check_content_set

\* The areas of check_vma_struct.  The code inserts the first 10 of 100 of them
\* from the last to the first, here it is 3 of 9.
step1 == 3
step2 == 9
Vma(i) == Area(5 * i, 5 * i + 2, {})

\* The addresses it looks up, one after the other.
LookedUp == [n \in 1 .. 5 * step2 |-> n + 4] \o <<4, 3, 2, 1, 0>>

Start == -3 - Len(LookedUp)

Init ==
  /\ m = FreshMemory
  /\ pgfault_num = 0
  /\ step = Start
  /\ check_rp = <<>>
  /\ stored = {}

\* The check before check_swap that leads from n to the next one.
Checks(n, u) ==
  /\ step = n /\ step' = n + 1
  /\ m' = u
  /\ UNCHANGED <<pgfault_num, check_rp, stored>>

\* The page table of the check is freed, and its entry in boot_pgdir cleared.
TableFreed(u) == [FreePages(u, u.pt[mm][0], 1) EXCEPT !.pt[mm] = NoTables]

\* check_pgdir: two pages are mapped, one takes the place of the other, and
\* after each change the counters of both are compared.
CheckPgdir ==
  LET p1 == Alloc(m, 1)
      one == PageInsert(p1.mem, mm, p1.page, 0, FALSE)
      p2 == Alloc(one, 1)
      two == PageInsert(p2.mem, mm, p2.page, 1, TRUE)
      same == PageInsert(two, mm, p1.page, 1, FALSE)
      less == PageRemovePte(same, mm, 0)
      none == PageRemovePte(less, mm, 1)
      Refs(u) == <<u.ref[p1.page], u.ref[p2.page]>>
      holds == /\ Pte(m, mm, 0) = Absent
               /\ Pte(one, mm, 0).page = p1.page /\ Refs(one) = <<1, 0>>
               /\ Pte(two, mm, 1).write /\ Refs(two) = <<1, 1>>
               /\ Pte(same, mm, 1) = Present(p1.page, FALSE) /\ Refs(same) = <<2, 0>>
               /\ Refs(less) = <<1, 0>> /\ Refs(none) = <<0, 0>>
               /\ none.ref[none.pt[mm][0]] = 1
  IN  Checks(Start, Check(TableFreed(none), holds, "assert"))

\* check_vma_struct up to its first loop of find_vma: the list of areas is sorted.
FillAreas ==
  LET order == [i \in 1 .. step2 |-> IF i <= step1 THEN step1 + 1 - i ELSE i]
      filled == FoldLeft(LAMBDA u, i : InsertVma(u, mm, Vma(i)), MmCreate(m, mm), order)
  IN  Checks(Start + 1,
             Check(filled, filled.vma[mm] = [i \in 1 .. step2 |-> Vma(i)], "assert"))

\* One call of find_vma in check_vma_struct, with the cached area of the last;
\* after all of them the mm_struct is destroyed.
LookUp(n) ==
  LET v == LookedUp[n]
      expected == IF v >= 5 /\ v % 5 < 2 THEN Vma(v \div 5) ELSE NULL
      u == Check(Looked(m, mm, v), FindVma(m, mm, v) = expected, "assert")
  IN  Checks(Start + 1 + n, IF n = Len(LookedUp) THEN MmDestroy(u, mm) ELSE u)

\* check_pgfault: a page is written and read, which takes one page fault, and
\* all frames are given back.  swap_init_ok is 0 still: nothing is swappable.
CheckPgfault ==
  LET area == Area(0, PTSIZE, {"write"})
      made == InsertVma(MmCreate(m, mm), mm, area)
      written == Access(made, mm, 0, TRUE, 1, "kernel fault")
      read == Access(written, mm, 0, FALSE, 0, "kernel fault")
      freed == TableFreed(PageRemovePte(read, mm, 0))
      holds == /\ m.pt[mm][0] = NULL
               /\ FindVma(made, mm, 0) = area
               /\ read.data[Pte(read, mm, 0).page] = 1
               /\ Cardinality(freed.free) = Cardinality(m.free)
  IN  Checks(-1, MmDestroy(Check(freed, holds, "assert"), mm))

\* Up to the call of check_content_set: one area, its page table, and a free
\* list of as many frames as the check may use.
Prepare ==
  LET u == GetPte(InsertVma([MmCreate(m, mm) EXCEPT !.check = mm], mm,
                            Area(1, 1 + CHECK_VALID_VIR_PAGE_NUM, {"read", "write"})),
                  mm, 1)
      taken == FoldLeft(LAMBDA a, i : Append(a, Min(u.free \ ToSet(a))), <<>>,
                        [i \in 1 .. CHECK_VALID_PHY_PAGE_NUM |-> i])
  IN  /\ step = 0
      /\ step' = 1
      /\ check_rp' = taken
      /\ stored' = u.free \ ToSet(taken)
      /\ m' = [u EXCEPT !.free = ToSet(taken)]
      /\ pgfault_num' = 0

\* Page v is written; what is written differs from page to page.
Write(v) ==
  /\ m' = Access(m, mm, v, TRUE, v, "kernel fault")
  /\ pgfault_num' = pgfault_num + (IF Faults(m, mm, v, TRUE) THEN 1 ELSE 0)
  /\ UNCHANGED <<check_rp, stored>>

NextAccess ==
  /\ step \in DOMAIN Accesses
  /\ Write(Accesses[step])
  /\ step' = step + 1

\* The frames and the page table are given back, to a free list that the stored
\* one then replaces.
Restore ==
  /\ step = Len(Accesses) + 1
  /\ step' = step + 1
  /\ m' = [MmDestroy(FoldLeft(LAMBDA u, f : FreePages(u, f, 1), m,
                              check_rp \o <<m.pt[mm][0]>>), mm)
             EXCEPT !.pt[mm] = NoTables, !.check = NULL, !.free = stored]
  /\ UNCHANGED <<pgfault_num, check_rp, stored>>

Before == \/ CheckPgdir
          \/ FillAreas
          \/ \E n \in DOMAIN LookedUp : LookUp(n)
          \/ CheckPgfault
          \/ Prepare

Next == m.panic = "no" /\ (Before \/ NextAccess \/ Restore)

Spec == Init /\ [][Next]_vars

\* As a program in place of the check would use its pages.
WriteAny == step > ContentSet /\ (\E v \in Checked : Write(v)) /\ UNCHANGED step

AnyNext ==
  m.panic = "no" /\ (Before \/ (step <= ContentSet /\ NextAccess) \/ WriteAny)

AnySpec == Init /\ [][AnyNext]_vars

----------------------------------------------------------------------------
\* A page holds what was written to it, in its frame or in its slot of the swap
\* device, and no assertion of the swap manager fails, whatever was evicted in
\* between (vmm.c:467, swap.c:103).
SwapKeepsContents ==
  /\ m.panic = "no"
  /\ \A v \in Checked :
       CASE Pte(m, mm, v).is = "present" -> m.data[m.pte[mm][v].page] = v
         [] Pte(m, mm, v).is = "swapped" -> m.disk[m.pte[mm][v].slot] = v
         [] OTHER -> TRUE

\* The checks pass.  No assertion of theirs fails on the way, and in check_swap
\* each access finds the number of faults that is asserted, the four frames hold
\* the first four pages when check_content_set has run, and the page that is
\* evicted is the one that came first.
CheckPasses ==
  /\ step <= Len(Accesses) + 1 => m.panic = "no"
  /\ step - 1 \in DOMAIN ExpectedFaults => pgfault_num = ExpectedFaults[step - 1]
  /\ step = ContentSet + 1 =>
       /\ m.free = {}
       /\ \A i \in 1 .. CHECK_VALID_PHY_PAGE_NUM : Pte(m, mm, i) = Present(check_rp[i], TRUE)
  /\ step \in 2 .. Len(Accesses) + 1 => SwapKeepsContents
=============================================================================
