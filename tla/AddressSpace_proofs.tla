------------------------- MODULE AddressSpace_proofs -------------------------
(***************************************************************************)
(* Proofs about AddressSpace, for every number of processes, frames and    *)
(* pages and all images.                                                   *)
(*                                                                         *)
(* Argument: Good(u, R) says that the memory u is in order while the       *)
(* frames R are somebody else's: every frame is free, in R, or owned by    *)
(* exactly one page directory, page table or page (Accounted), a page that *)
(* is mapped has one reference (Referenced), and what each address space   *)
(* maps lies in its areas (SpaceSound).  There is a lemma per function of  *)
(* the code: from memory that is Good it makes memory that is Good again,  *)
(* the frames it takes or gives back moving between R and the owners, or   *)
(* memory that is used up (Oom), and it says which contents change.  Sound *)
(* adds the processes, R being their kernel stacks; it is kept by every    *)
(* step, which changes the memory of one process at most (OneAtATime).     *)
(***************************************************************************)
EXTENDS AddressSpace, SequenceFacts, FiniteSetTheorems, SequenceTheorems, TLAPS

\* Induction, for a set of numbers.
LEMMA AllNat ==
  ASSUME NEW N \in SUBSET Nat, 0 \in N, \A n \in N : n + 1 \in N
  PROVE  N = Nat
<1> SUFFICES ASSUME Nat \ N # {}
             PROVE  FALSE
  OBVIOUS
<1>1. PICK n \in Nat \ N : \A k \in Nat \ N : n <= k
  BY LeastOf
<1>2. n # 0 /\ n - 1 \in Nat /\ n - 1 \in N
  BY <1>1
<1>3. (n - 1) + 1 = n
  OBVIOUS
<1> QED
  BY <1>2, <1>3

\* Induction from lo to hi, and from hi down to lo.
LEMMA UpTo ==
  ASSUME NEW lo \in Int, NEW hi \in Int, NEW P, lo \in P,
         \A i \in lo + 1 .. hi : i - 1 \in P => i \in P
  PROVE  \A i \in lo .. hi : i \in P
<1> DEFINE N == {n \in Nat : lo + n <= hi => lo + n \in P}
<1>1. 0 \in N
  OBVIOUS
<1>2. ASSUME NEW n \in N PROVE n + 1 \in N
  <2>1. ASSUME lo + (n + 1) <= hi PROVE lo + (n + 1) \in P
    <3>1. lo + n \in P /\ lo + (n + 1) \in lo + 1 .. hi /\ (lo + (n + 1)) - 1 = lo + n
      BY <2>1
    <3> QED
      BY <3>1
  <2> QED
    BY <2>1
<1>3. N = Nat
  <2> HIDE DEF N
  <2> QED
    BY <1>1, <1>2, AllNat DEF N
<1>4. ASSUME NEW i \in lo .. hi PROVE i \in P
  <2>1. i - lo \in Nat /\ lo + (i - lo) = i
    OBVIOUS
  <2>2. i - lo \in N
    BY <1>3, <2>1
  <2> QED
    BY <2>1, <2>2
<1> QED
  BY <1>4

\* The same, downwards: what holds of hi and goes down holds down to lo.
LEMMA DownTo ==
  ASSUME NEW lo \in Int, NEW hi \in Int, NEW P, hi \in P,
         \A i \in lo + 1 .. hi : i \in P => i - 1 \in P
  PROVE  \A i \in lo .. hi : i \in P
<1> DEFINE N == {n \in Nat : hi - n >= lo => hi - n \in P}
<1>1. 0 \in N
  OBVIOUS
<1>2. ASSUME NEW n \in N PROVE n + 1 \in N
  <2>1. ASSUME hi - (n + 1) >= lo PROVE hi - (n + 1) \in P
    <3>1. hi - n \in P /\ hi - n \in lo + 1 .. hi /\ (hi - n) - 1 = hi - (n + 1)
      BY <2>1
    <3> QED
      BY <3>1
  <2> QED
    BY <2>1
<1>3. N = Nat
  <2> HIDE DEF N
  <2> QED
    BY <1>1, <1>2, AllNat DEF N
<1>4. ASSUME NEW i \in lo .. hi PROVE i \in P
  <2>1. hi - i \in Nat /\ hi - (hi - i) = i
    OBVIOUS
  <2>2. hi - i \in N
    BY <1>3, <2>1
  <2> QED
    BY <2>1, <2>2
<1> QED
  BY <1>4

\* What holds of 0 and goes up to hi holds of hi.
LEMMA UpFrom0 ==
  ASSUME NEW hi \in Nat, NEW P, 0 \in P, \A i \in 1 .. hi : i - 1 \in P => i \in P
  PROVE  hi \in P
<1> DEFINE lo == 0
<1>1. lo \in Int /\ lo <= hi /\ lo \in P /\ \A i \in lo + 1 .. hi : i - 1 \in P => i \in P
  OBVIOUS
<1> HIDE DEF lo
<1>2. \A i \in lo .. hi : i \in P
  BY <1>1, UpTo
<1> QED
  BY <1>1, <1>2

\* What holds of hi and goes down holds of 0.
LEMMA DownTo0 ==
  ASSUME NEW hi \in Nat, NEW P, hi \in P, \A i \in 1 .. hi : i \in P => i - 1 \in P
  PROVE  0 \in P
<1> DEFINE lo == 0
<1>1. lo \in Int /\ lo <= hi /\ \A i \in lo + 1 .. hi : i \in P => i - 1 \in P
  OBVIOUS
<1> HIDE DEF lo
<1>2. \A i \in lo .. hi : i \in P
  BY <1>1, DownTo
<1>3. lo \in P
  BY <1>1, <1>2
<1> QED
  BY <1>3 DEF lo

----------------------------------------------------------------------------
(* Page directory indices.                                                 *)

\* Higher pages have page tables that are no lower.
LEMMA PdxUp ==
  ASSUME NEW v \in Nat, NEW w \in Nat, v <= w
  PROVE  PDX(v) \in Nat /\ PDX(w) \in Nat /\ PDX(v) <= PDX(w)
<1>1. PTSIZE \in Nat \ {0}
  BY MemoryAssumption
<1>2. PDX(v) \in Nat /\ PDX(w) \in Nat
  BY <1>1 DEF PDX
<1>3. /\ v = PTSIZE * PDX(v) + (v % PTSIZE) /\ v % PTSIZE \in 0 .. PTSIZE - 1
      /\ w = PTSIZE * PDX(w) + (w % PTSIZE) /\ w % PTSIZE \in 0 .. PTSIZE - 1
  BY <1>1 DEF PDX
<1>4. ASSUME PDX(v) >= PDX(w) + 1 PROVE FALSE
  <2>1. PTSIZE * PDX(v) >= PTSIZE * (PDX(w) + 1)
    BY <1>1, <1>2, <1>4
  <2>2. PTSIZE * (PDX(w) + 1) = PTSIZE * PDX(w) + PTSIZE
    BY <1>1, <1>2
  <2>3. PTSIZE * PDX(v) \in Nat /\ PTSIZE * PDX(w) \in Nat /\ PTSIZE * (PDX(w) + 1) \in Nat
    BY <1>1, <1>2
  <2> QED
    BY <1>1, <1>3, <2>1, <2>2, <2>3
<1> QED
  BY <1>2, <1>4

\* unmap_range takes page after page out of its table.
LEMMA UnmapRangeIs ==
  ASSUME NEW u, NEW x, NEW lo \in Int, NEW hi \in Int, lo <= hi
  PROVE  \E w : /\ UnmapRange(u, x, lo, hi) = w[hi]
               /\ w[lo] = u
               /\ \A i \in lo + 1 .. hi : w[i] = PageRemovePte(w[i - 1], x, i - 1)
<1> DEFINE Step(w, i) == PageRemovePte(w[i - 1], x, i - 1)
           F(w, b) == [i \in lo .. b |-> IF i = lo THEN u ELSE Step(w, i)]
           N == {n \in Nat : \E w : w = F(w, lo + n)}
<1>1. ASSUME NEW n \in Nat, NEW w, n # 0 => w = F(w, lo + (n - 1))
      PROVE  \E g : g = F(g, lo + n)
  <2> DEFINE g == F(w, lo + n)
  <2>1. ASSUME NEW i \in lo .. lo + n, i # lo PROVE g[i - 1] = w[i - 1]
    <3>1. w[i - 1] = F(w, lo + (n - 1))[i - 1]
      BY <1>1, <2>1
    <3> QED
      BY <2>1, <3>1
  <2>2. \A i \in lo .. lo + n : g[i] = IF i = lo THEN u ELSE Step(w, i)
    OBVIOUS
  <2>3. g = [i \in lo .. lo + n |-> g[i]]
    OBVIOUS
  <2> HIDE DEF g
  <2>4. \A i \in lo .. lo + n : i # lo => Step(g, i) = Step(w, i)
    BY <2>1
  <2>5. \A i \in lo .. lo + n : g[i] = IF i = lo THEN u ELSE Step(g, i)
    <3> HIDE DEF Step
    <3> QED
      BY <2>2, <2>4
  <2> QED
    BY <2>3, <2>5
<1>2. N = Nat
  <2>1. 0 \in N /\ N \subseteq Nat
    BY <1>1
  <2>2. ASSUME NEW n \in N PROVE n + 1 \in N
    <3>1. n \in Nat /\ (n + 1) - 1 = n /\ n + 1 # 0
      OBVIOUS
    <3>2. PICK w : w = F(w, lo + n)
      OBVIOUS
    <3> HIDE DEF F
    <3> QED
      BY <1>1, <3>1, <3>2
  <2> HIDE DEF N
  <2> QED
    BY <2>1, <2>2, AllNat
<1>3. \E w : w = F(w, hi)
  <2>1. hi - lo \in Nat /\ lo + (hi - lo) = hi
    OBVIOUS
  <2>2. hi - lo \in N
    BY <1>2, <2>1
  <2> HIDE DEF F
  <2> QED
    BY <2>1, <2>2
<1> DEFINE c == CHOOSE w : w = F(w, hi)
<1>4. c = F(c, hi)
  <2> HIDE DEF F
  <2> QED
    BY <1>3
<1>5. UnmapRange(u, x, lo, hi) = c[hi]
  BY DEF UnmapRange
<1>6. \A i \in lo .. hi : c[i] = IF i = lo THEN u ELSE Step(c, i)
  <2> HIDE DEF c
  <2> QED
    BY <1>4
<1> HIDE DEF c
<1> QED
  BY <1>5, <1>6

\* copy_range copies page after page.
LEMMA CopyRangeIs ==
  ASSUME NEW u, NEW to, NEW from, NEW lo \in Int, NEW hi \in Int, lo <= hi
  PROVE  \E w : /\ CopyRange(u, to, from, lo, hi) = w[hi]
               /\ w[lo] = u
               /\ \A i \in lo + 1 .. hi : w[i] = CopyPage(w[i - 1], to, from, i - 1)
<1> DEFINE Step(w, i) == CopyPage(w[i - 1], to, from, i - 1)
           F(w, b) == [i \in lo .. b |-> IF i = lo THEN u ELSE Step(w, i)]
           N == {n \in Nat : \E w : w = F(w, lo + n)}
<1>1. ASSUME NEW n \in Nat, NEW w, n # 0 => w = F(w, lo + (n - 1))
      PROVE  \E g : g = F(g, lo + n)
  <2> DEFINE g == F(w, lo + n)
  <2>1. ASSUME NEW i \in lo .. lo + n, i # lo PROVE g[i - 1] = w[i - 1]
    <3>1. w[i - 1] = F(w, lo + (n - 1))[i - 1]
      BY <1>1, <2>1
    <3> QED
      BY <2>1, <3>1
  <2>2. \A i \in lo .. lo + n : g[i] = IF i = lo THEN u ELSE Step(w, i)
    OBVIOUS
  <2>3. g = [i \in lo .. lo + n |-> g[i]]
    OBVIOUS
  <2> HIDE DEF g
  <2>4. \A i \in lo .. lo + n : i # lo => Step(g, i) = Step(w, i)
    BY <2>1
  <2>5. \A i \in lo .. lo + n : g[i] = IF i = lo THEN u ELSE Step(g, i)
    <3> HIDE DEF Step
    <3> QED
      BY <2>2, <2>4
  <2> QED
    BY <2>3, <2>5
<1>2. N = Nat
  <2>1. 0 \in N /\ N \subseteq Nat
    BY <1>1
  <2>2. ASSUME NEW n \in N PROVE n + 1 \in N
    <3>1. n \in Nat /\ (n + 1) - 1 = n /\ n + 1 # 0
      OBVIOUS
    <3>2. PICK w : w = F(w, lo + n)
      OBVIOUS
    <3> HIDE DEF F
    <3> QED
      BY <1>1, <3>1, <3>2
  <2> HIDE DEF N
  <2> QED
    BY <2>1, <2>2, AllNat
<1>3. \E w : w = F(w, hi)
  <2>1. hi - lo \in Nat /\ lo + (hi - lo) = hi
    OBVIOUS
  <2>2. hi - lo \in N
    BY <1>2, <2>1
  <2> HIDE DEF F
  <2> QED
    BY <2>1, <2>2
<1> DEFINE c == CHOOSE w : w = F(w, hi)
<1>4. c = F(c, hi)
  <2> HIDE DEF F
  <2> QED
    BY <1>3
<1>5. CopyRange(u, to, from, lo, hi) = c[hi]
  BY DEF CopyRange
<1>6. \A i \in lo .. hi : c[i] = IF i = lo THEN u ELSE Step(c, i)
  <2> HIDE DEF c
  <2> QED
    BY <1>4
<1> HIDE DEF c
<1> QED
  BY <1>5, <1>6

\* exit_range frees table after table.
LEMMA ExitRangeIs ==
  ASSUME NEW u, NEW x, NEW start, NEW end, 
         PDX(start) \in Int, PDX(end - 1) \in Int, PDX(start) <= PDX(end - 1) + 1
  PROVE  \E w : /\ ExitRange(u, x, start, end) = w[PDX(end - 1) + 1]
               /\ w[PDX(start)] = u
               /\ \A i \in PDX(start) + 1 .. PDX(end - 1) + 1 :
                    w[i] = FreeTable(w[i - 1], x, i - 1)
<1> DEFINE lo == PDX(start)
           hi == PDX(end - 1) + 1
           Step(w, i) == FreeTable(w[i - 1], x, i - 1)
           F(w, b) == [i \in lo .. b |-> IF i = lo THEN u ELSE Step(w, i)]
           N == {n \in Nat : \E w : w = F(w, lo + n)}
<1>0. lo \in Int /\ hi \in Int /\ lo <= hi
  OBVIOUS
<1>1. ASSUME NEW n \in Nat, NEW w, n # 0 => w = F(w, lo + (n - 1))
      PROVE  \E g : g = F(g, lo + n)
  <2> HIDE DEF lo
  <2> DEFINE g == F(w, lo + n)
  <2>1. ASSUME NEW i \in lo .. lo + n, i # lo PROVE g[i - 1] = w[i - 1]
    <3>1. w[i - 1] = F(w, lo + (n - 1))[i - 1]
      BY <1>0, <1>1, <2>1
    <3> QED
      BY <1>0, <2>1, <3>1
  <2>2. \A i \in lo .. lo + n : g[i] = IF i = lo THEN u ELSE Step(w, i)
    OBVIOUS
  <2>3. g = [i \in lo .. lo + n |-> g[i]]
    OBVIOUS
  <2> HIDE DEF g
  <2>4. \A i \in lo .. lo + n : i # lo => Step(g, i) = Step(w, i)
    BY <2>1
  <2>5. \A i \in lo .. lo + n : g[i] = IF i = lo THEN u ELSE Step(g, i)
    <3> HIDE DEF Step
    <3> QED
      BY <2>2, <2>4
  <2> QED
    BY <2>3, <2>5
<1>2. N = Nat
  <2>1. 0 \in N /\ N \subseteq Nat
    BY <1>1
  <2>2. ASSUME NEW n \in N PROVE n + 1 \in N
    <3>1. n \in Nat /\ (n + 1) - 1 = n /\ n + 1 # 0
      OBVIOUS
    <3>2. PICK w : w = F(w, lo + n)
      OBVIOUS
    <3> HIDE DEF F, lo
    <3> QED
      BY <1>1, <3>1, <3>2
  <2> HIDE DEF N
  <2> QED
    BY <2>1, <2>2, AllNat
<1>3. \E w : w = F(w, hi)
  <2> HIDE DEF lo, hi
  <2>1. hi - lo \in Nat /\ lo + (hi - lo) = hi
    BY <1>0
  <2>2. hi - lo \in N
    BY <1>2, <2>1
  <2> HIDE DEF F
  <2> QED
    BY <2>1, <2>2
<1> DEFINE c == CHOOSE w : w = F(w, hi)
<1>4. c = F(c, hi)
  <2> HIDE DEF F
  <2> QED
    BY <1>3
<1>5. ExitRange(u, x, start, end) = c[hi]
  BY DEF ExitRange
<1>6. \A i \in lo .. hi : c[i] = IF i = lo THEN u ELSE Step(c, i)
  <2> HIDE DEF c
  <2> QED
    BY <1>4
<1> HIDE DEF c
<1> QED
  BY <1>5, <1>6

\* exit_mmap unmaps area after area ...
LEMMA UnmapAreasIs ==
  ASSUME NEW u, NEW x, NEW areas, Len(areas) \in Nat
  PROVE  \E w : /\ UnmapAreas(u, x, areas) = w[Len(areas)]
               /\ w[0] = u
               /\ \A i \in 1 .. Len(areas) :
                    w[i] = UnmapRange(w[i - 1], x, areas[i].start, areas[i].end)
<1> DEFINE hi == Len(areas)
           Step(w, i) == UnmapRange(w[i - 1], x, areas[i].start, areas[i].end)
           F(w, b) == [i \in 0 .. b |-> IF i = 0 THEN u ELSE Step(w, i)]
           N == {n \in Nat : \E w : w = F(w, n)}
<1>0. hi \in Nat
  OBVIOUS
<1> HIDE DEF hi
<1> USE <1>0
<1>1. ASSUME NEW n \in Nat, NEW w, n # 0 => w = F(w, n - 1)
      PROVE  \E g : g = F(g, n)
  <2> DEFINE g == F(w, n)
  <2>1. ASSUME NEW i \in 0 .. n, i # 0 PROVE g[i - 1] = w[i - 1]
    <3>1. w[i - 1] = F(w, n - 1)[i - 1]
      BY <1>1, <2>1
    <3> QED
      BY <2>1, <3>1
  <2>2. \A i \in 0 .. n : g[i] = IF i = 0 THEN u ELSE Step(w, i)
    OBVIOUS
  <2>3. g = [i \in 0 .. n |-> g[i]]
    OBVIOUS
  <2> HIDE DEF g
  <2>4. \A i \in 0 .. n : i # 0 => Step(g, i) = Step(w, i)
    BY <2>1
  <2>5. \A i \in 0 .. n : g[i] = IF i = 0 THEN u ELSE Step(g, i)
    <3> HIDE DEF Step
    <3> QED
      BY <2>2, <2>4
  <2> QED
    BY <2>3, <2>5
<1>2. N = Nat
  <2>1. 0 \in N /\ N \subseteq Nat
    BY <1>1
  <2>2. ASSUME NEW n \in N PROVE n + 1 \in N
    <3>1. n \in Nat /\ (n + 1) - 1 = n /\ n + 1 # 0
      OBVIOUS
    <3>2. PICK w : w = F(w, n)
      OBVIOUS
    <3> HIDE DEF F
    <3> QED
      BY <1>1, <3>1, <3>2
  <2> HIDE DEF N
  <2> QED
    BY <2>1, <2>2, AllNat
<1>3. \E w : w = F(w, hi)
  <2>1. hi \in N
    BY <1>2
  <2> HIDE DEF F
  <2> QED
    BY <2>1
<1> DEFINE c == CHOOSE w : w = F(w, hi)
<1>4. c = F(c, hi)
  <2> HIDE DEF F
  <2> QED
    BY <1>3
<1>5. UnmapAreas(u, x, areas) = c[hi]
  BY DEF UnmapAreas, hi
<1>6. \A i \in 0 .. hi : c[i] = IF i = 0 THEN u ELSE Step(c, i)
  <2> HIDE DEF c
  <2> QED
    BY <1>4
<1> HIDE DEF c
<1> QED
  BY <1>0, <1>5, <1>6 DEF hi

\* ... and gives their page tables back.
LEMMA ExitAreasIs ==
  ASSUME NEW u, NEW x, NEW areas, Len(areas) \in Nat
  PROVE  \E w : /\ ExitAreas(u, x, areas) = w[Len(areas)]
               /\ w[0] = u
               /\ \A i \in 1 .. Len(areas) :
                    w[i] = ExitRange(w[i - 1], x, areas[i].start, areas[i].end)
<1> DEFINE hi == Len(areas)
           Step(w, i) == ExitRange(w[i - 1], x, areas[i].start, areas[i].end)
           F(w, b) == [i \in 0 .. b |-> IF i = 0 THEN u ELSE Step(w, i)]
           N == {n \in Nat : \E w : w = F(w, n)}
<1>0. hi \in Nat
  OBVIOUS
<1> HIDE DEF hi
<1> USE <1>0
<1>1. ASSUME NEW n \in Nat, NEW w, n # 0 => w = F(w, n - 1)
      PROVE  \E g : g = F(g, n)
  <2> DEFINE g == F(w, n)
  <2>1. ASSUME NEW i \in 0 .. n, i # 0 PROVE g[i - 1] = w[i - 1]
    <3>1. w[i - 1] = F(w, n - 1)[i - 1]
      BY <1>1, <2>1
    <3> QED
      BY <2>1, <3>1
  <2>2. \A i \in 0 .. n : g[i] = IF i = 0 THEN u ELSE Step(w, i)
    OBVIOUS
  <2>3. g = [i \in 0 .. n |-> g[i]]
    OBVIOUS
  <2> HIDE DEF g
  <2>4. \A i \in 0 .. n : i # 0 => Step(g, i) = Step(w, i)
    BY <2>1
  <2>5. \A i \in 0 .. n : g[i] = IF i = 0 THEN u ELSE Step(g, i)
    <3> HIDE DEF Step
    <3> QED
      BY <2>2, <2>4
  <2> QED
    BY <2>3, <2>5
<1>2. N = Nat
  <2>1. 0 \in N /\ N \subseteq Nat
    BY <1>1
  <2>2. ASSUME NEW n \in N PROVE n + 1 \in N
    <3>1. n \in Nat /\ (n + 1) - 1 = n /\ n + 1 # 0
      OBVIOUS
    <3>2. PICK w : w = F(w, n)
      OBVIOUS
    <3> HIDE DEF F
    <3> QED
      BY <1>1, <3>1, <3>2
  <2> HIDE DEF N
  <2> QED
    BY <2>1, <2>2, AllNat
<1>3. \E w : w = F(w, hi)
  <2>1. hi \in N
    BY <1>2
  <2> HIDE DEF F
  <2> QED
    BY <2>1
<1> DEFINE c == CHOOSE w : w = F(w, hi)
<1>4. c = F(c, hi)
  <2> HIDE DEF F
  <2> QED
    BY <1>3
<1>5. ExitAreas(u, x, areas) = c[hi]
  BY DEF ExitAreas, hi
<1>6. \A i \in 0 .. hi : c[i] = IF i = 0 THEN u ELSE Step(c, i)
  <2> HIDE DEF c
  <2> QED
    BY <1>4
<1> HIDE DEF c
<1> QED
  BY <1>0, <1>5, <1>6 DEF hi

\* dup_mmap copies area after area, the last one first.
LEMMA DupMmapIs ==
  ASSUME NEW u, NEW to, NEW from, Len(u.vma[from]) \in Nat
  PROVE  \E w : /\ DupMmap(u, to, from) = w[0]
               /\ w[Len(u.vma[from])] = u
               /\ \A i \in 1 .. Len(u.vma[from]) :
                    w[i - 1] = CopyRange(InsertVma(w[i], to, u.vma[from][i]), to, from,
                                         u.vma[from][i].start, u.vma[from][i].end)
<1> DEFINE hi == Len(u.vma[from])
           area(i) == u.vma[from][i + 1]
           Step(w, i) == CopyRange(InsertVma(w[i + 1], to, area(i)), to, from,
                                   area(i).start, area(i).end)
           F(w, b) == [i \in b .. hi |-> IF i = hi THEN u ELSE Step(w, i)]
           N == {n \in Nat : n <= hi => \E w : w = F(w, hi - n)}
<1>0. hi \in Nat
  OBVIOUS
<1> HIDE DEF hi
<1> USE <1>0
<1>1. ASSUME NEW n \in Nat, n <= hi, NEW w, n # 0 => w = F(w, hi - (n - 1))
      PROVE  \E g : g = F(g, hi - n)
  <2> DEFINE g == F(w, hi - n)
  <2>1. ASSUME NEW i \in hi - n .. hi, i # hi PROVE g[i + 1] = w[i + 1]
    <3>0. n # 0 /\ i + 1 \in hi - (n - 1) .. hi /\ i + 1 \in hi - n .. hi
      BY <1>1, <2>1
    <3>1. w[i + 1] = F(w, hi - (n - 1))[i + 1]
      <4> HIDE DEF F
      <4> QED
        BY <1>1, <3>0
    <3> QED
      BY <3>0, <3>1
  <2>2. \A i \in hi - n .. hi : g[i] = IF i = hi THEN u ELSE Step(w, i)
    OBVIOUS
  <2>3. g = [i \in hi - n .. hi |-> g[i]]
    OBVIOUS
  <2> HIDE DEF g
  <2>4. \A i \in hi - n .. hi : i # hi => Step(g, i) = Step(w, i)
    BY <2>1
  <2>5. \A i \in hi - n .. hi : g[i] = IF i = hi THEN u ELSE Step(g, i)
    <3> HIDE DEF Step
    <3> QED
      BY <2>2, <2>4
  <2> QED
    BY <2>3, <2>5
<1>2. N = Nat
  <2>1. 0 \in N /\ N \subseteq Nat
    BY <1>1
  <2>2. ASSUME NEW n \in N PROVE n + 1 \in N
    <3>1. n \in Nat /\ (n + 1) - 1 = n /\ n + 1 # 0 /\ n + 1 \in Nat
      OBVIOUS
    <3>2. CASE n + 1 <= hi
      <4>1. PICK w : w = F(w, hi - n)
        <5> HIDE DEF F
        <5> QED
          BY <3>1, <3>2
      <4> HIDE DEF F
      <4> QED
        BY <1>1, <3>1, <3>2, <4>1
    <3> QED
      BY <3>1, <3>2
  <2> HIDE DEF N
  <2> QED
    BY <2>1, <2>2, AllNat
<1>3. \E w : w = F(w, 0)
  <2>1. hi \in N
    <3> HIDE DEF N
    <3> QED
      BY <1>2
  <2>2. hi <= hi /\ hi - hi = 0
    OBVIOUS
  <2> HIDE DEF F
  <2> QED
    BY <2>1, <2>2
<1> DEFINE c == CHOOSE w : w = F(w, 0)
<1>4. c = F(c, 0)
  <2> HIDE DEF F
  <2> QED
    BY <1>3
<1>5. DupMmap(u, to, from) = c[0]
  BY DEF DupMmap, hi
<1>6. \A i \in 0 .. hi : c[i] = IF i = hi THEN u ELSE Step(c, i)
  <2> HIDE DEF c
  <2> QED
    BY <1>4
<1> HIDE DEF c
<1>7. ASSUME NEW i \in 1 .. hi
      PROVE  c[i - 1] = CopyRange(InsertVma(c[i], to, u.vma[from][i]), to, from,
                                  u.vma[from][i].start, u.vma[from][i].end)
  <2>1. i - 1 \in 0 .. hi /\ i - 1 # hi /\ (i - 1) + 1 = i
    OBVIOUS
  <2> QED
    BY <1>6, <2>1
<1> QED
  BY <1>0, <1>5, <1>6, <1>7 DEF hi

\* The pages that load_icode allocates, in turn.
LEMMA MapPagesIs ==
  ASSUME NEW u, NEW x, NEW start, NEW end, NEW flags, NEW pages,
         Len(pages) \in Nat
  PROVE  \E w : /\ MapPages(u, x, start, end, flags, pages) = w[Len(pages)]
               /\ w[0] = InsertVma(u, x, Area(start, end, flags))
               /\ \A i \in 1 .. Len(pages) : w[i] = PgdirAllocPage(w[i - 1], x, pages[i][1],
                                             "write" \in flags, pages[i][2])
<1> DEFINE hi == Len(pages)
           Start == InsertVma(u, x, Area(start, end, flags))
           Step(w, i) == PgdirAllocPage(w[i - 1], x, pages[i][1], "write" \in flags,
                                        pages[i][2])
           F(w, b) == [i \in 0 .. b |-> IF i = 0 THEN Start ELSE Step(w, i)]
           N == {n \in Nat : \E w : w = F(w, n)}
<1>0. hi \in Nat
  OBVIOUS
<1> HIDE DEF hi
<1> USE <1>0
<1>1. ASSUME NEW n \in Nat, NEW w, n # 0 => w = F(w, n - 1)
      PROVE  \E g : g = F(g, n)
  <2> DEFINE g == F(w, n)
  <2>1. ASSUME NEW i \in 0 .. n, i # 0 PROVE g[i - 1] = w[i - 1]
    <3>1. w[i - 1] = F(w, n - 1)[i - 1]
      BY <1>1, <2>1
    <3> QED
      BY <2>1, <3>1
  <2>2. \A i \in 0 .. n : g[i] = IF i = 0 THEN Start ELSE Step(w, i)
    OBVIOUS
  <2>3. g = [i \in 0 .. n |-> g[i]]
    OBVIOUS
  <2> HIDE DEF g
  <2>4. \A i \in 0 .. n : i # 0 => Step(g, i) = Step(w, i)
    BY <2>1
  <2>5. \A i \in 0 .. n : g[i] = IF i = 0 THEN Start ELSE Step(g, i)
    <3> HIDE DEF Step
    <3> QED
      BY <2>2, <2>4
  <2> QED
    BY <2>3, <2>5
<1>2. N = Nat
  <2>1. 0 \in N /\ N \subseteq Nat
    BY <1>1
  <2>2. ASSUME NEW n \in N PROVE n + 1 \in N
    <3>1. n \in Nat /\ (n + 1) - 1 = n /\ n + 1 # 0
      OBVIOUS
    <3>2. PICK w : w = F(w, n)
      OBVIOUS
    <3> HIDE DEF F
    <3> QED
      BY <1>1, <3>1, <3>2
  <2> HIDE DEF N
  <2> QED
    BY <2>1, <2>2, AllNat
<1>3. \E w : w = F(w, hi)
  <2>1. hi \in N
    BY <1>2
  <2> HIDE DEF F
  <2> QED
    BY <2>1
<1> DEFINE c == CHOOSE w : w = F(w, hi)
<1>4. c = F(c, hi)
  <2> HIDE DEF F
  <2> QED
    BY <1>3
<1>5. MapPages(u, x, start, end, flags, pages) = c[hi]
  BY DEF MapPages, hi
<1>6. \A i \in 0 .. hi : c[i] = IF i = 0 THEN Start ELSE Step(c, i)
  <2> HIDE DEF c
  <2> QED
    BY <1>4
<1> HIDE DEF c
<1> QED
  BY <1>0, <1>5, <1>6 DEF hi

\* load_icode loads segment after segment.
LEMMA LoadSegmentsIs ==
  ASSUME NEW r, NEW x, NEW segs, Len(segs) \in Nat
  PROVE  \E w : /\ LoadSegments(r, x, segs) = w[Len(segs)]
               /\ w[0] = r
               /\ \A i \in 1 .. Len(segs) : w[i] = LoadSegment(w[i - 1], x, segs[i])
<1> DEFINE hi == Len(segs)
           Step(w, i) == LoadSegment(w[i - 1], x, segs[i])
           F(w, b) == [i \in 0 .. b |-> IF i = 0 THEN r ELSE Step(w, i)]
           N == {n \in Nat : \E w : w = F(w, n)}
<1>0. hi \in Nat
  OBVIOUS
<1> HIDE DEF hi
<1> USE <1>0
<1>1. ASSUME NEW n \in Nat, NEW w, n # 0 => w = F(w, n - 1)
      PROVE  \E g : g = F(g, n)
  <2> DEFINE g == F(w, n)
  <2>1. ASSUME NEW i \in 0 .. n, i # 0 PROVE g[i - 1] = w[i - 1]
    <3>1. w[i - 1] = F(w, n - 1)[i - 1]
      BY <1>1, <2>1
    <3> QED
      BY <2>1, <3>1
  <2>2. \A i \in 0 .. n : g[i] = IF i = 0 THEN r ELSE Step(w, i)
    OBVIOUS
  <2>3. g = [i \in 0 .. n |-> g[i]]
    OBVIOUS
  <2> HIDE DEF g
  <2>4. \A i \in 0 .. n : i # 0 => Step(g, i) = Step(w, i)
    BY <2>1
  <2>5. \A i \in 0 .. n : g[i] = IF i = 0 THEN r ELSE Step(g, i)
    <3> HIDE DEF Step
    <3> QED
      BY <2>2, <2>4
  <2> QED
    BY <2>3, <2>5
<1>2. N = Nat
  <2>1. 0 \in N /\ N \subseteq Nat
    BY <1>1
  <2>2. ASSUME NEW n \in N PROVE n + 1 \in N
    <3>1. n \in Nat /\ (n + 1) - 1 = n /\ n + 1 # 0
      OBVIOUS
    <3>2. PICK w : w = F(w, n)
      OBVIOUS
    <3> HIDE DEF F
    <3> QED
      BY <1>1, <3>1, <3>2
  <2> HIDE DEF N
  <2> QED
    BY <2>1, <2>2, AllNat
<1>3. \E w : w = F(w, hi)
  <2>1. hi \in N
    BY <1>2
  <2> HIDE DEF F
  <2> QED
    BY <2>1
<1> DEFINE c == CHOOSE w : w = F(w, hi)
<1>4. c = F(c, hi)
  <2> HIDE DEF F
  <2> QED
    BY <1>3
<1>5. LoadSegments(r, x, segs) = c[hi]
  BY DEF LoadSegments, hi
<1>6. \A i \in 0 .. hi : c[i] = IF i = 0 THEN r ELSE Step(c, i)
  <2> HIDE DEF c
  <2> QED
    BY <1>4
<1> HIDE DEF c
<1> QED
  BY <1>0, <1>5, <1>6 DEF hi

----------------------------------------------------------------------------
(* Areas in lists.                                                         *)

\* The least of some places in a list.
LEMMA LeastPlace ==
  ASSUME NEW N \in SUBSET Nat, N # {}
  PROVE  Min(N) \in N /\ \A k \in N : Min(N) <= k
<1>1. \E n \in N : \A k \in N : n <= k
  BY LeastOf
<1> QED
  BY <1>1 DEF Min

\* insert_vma_struct finds a place before all areas that start later.
LEMMA PlaceBounds ==
  ASSUME NEW s \in Seq(AreaType), NEW a \in AreaType
  PROVE  /\ PlaceOf(s, a) \in 1 .. Len(s) + 1
         /\ \A i \in 1 .. Len(s) : i < PlaceOf(s, a) => s[i].start <= a.start
         /\ PlaceOf(s, a) <= Len(s) => s[PlaceOf(s, a)].start > a.start
<1> DEFINE N == {i \in 1 .. Len(s) : s[i].start > a.start} \union {Len(s) + 1}
<1>1. Len(s) \in Nat /\ \A i \in 1 .. Len(s) : s[i] \in AreaType
  OBVIOUS
<1>2. N \in SUBSET Nat /\ N # {} /\ N \subseteq 1 .. Len(s) + 1
  BY <1>1
<1>3. Min(N) \in N /\ \A k \in N : Min(N) <= k
  <2> HIDE DEF N
  <2> QED
    BY <1>2, LeastPlace
<1>4. PlaceOf(s, a) = Min(N)
  BY DEF PlaceOf
<1>5. a.start \in Int /\ \A i \in 1 .. Len(s) : s[i].start \in Int
  BY <1>1 DEF AreaType, VPage
<1> DEFINE p == Min(N)
<1>6. p \in 1 .. Len(s) + 1
  <2> HIDE DEF N
  <2> QED
    BY <1>2, <1>3
<1>7. \A i \in 1 .. Len(s) : i < p => i \notin N
  <2>1. \A k \in N : p <= k
    BY <1>3
  <2> HIDE DEF N, p
  <2> QED
    BY <1>1, <1>6, <2>1
<1>8. p <= Len(s) => s[p].start > a.start
  <2>1. p \in N
    BY <1>3
  <2> HIDE DEF p
  <2> QED
    BY <1>1, <2>1
<1> HIDE DEF p
<1> QED
  BY <1>1, <1>4, <1>5, <1>6, <1>7, <1>8 DEF p

\* A list with one more element.
LEMMA Inserted ==
  ASSUME NEW S, NEW s \in Seq(S), NEW a \in S, NEW at \in 1 .. Len(s) + 1
  PROVE  /\ InsertAt(s, at, a) \in Seq(S)
         /\ Len(InsertAt(s, at, a)) = Len(s) + 1
         /\ \A i \in 1 .. Len(s) + 1 :
              InsertAt(s, at, a)[i] = IF i < at THEN s[i] ELSE IF i = at THEN a ELSE s[i - 1]
         /\ \A i \in 1 .. Len(InsertAt(s, at, a)) :
              InsertAt(s, at, a)[i] = a \/ \E j \in 1 .. Len(s) : InsertAt(s, at, a)[i] = s[j]
<1> DEFINE l == SubSeq(s, 1, at - 1)
           r == SubSeq(s, at, Len(s))
           t == InsertAt(s, at, a)
<1>1. Len(s) \in Nat /\ \A i \in 1 .. Len(s) : s[i] \in S
  OBVIOUS
<1>2. /\ l \in Seq(S) /\ Len(l) = at - 1
      /\ \A i \in 1 .. at - 1 : l[i] = s[i]
  BY <1>1
<1>3. /\ r \in Seq(S) /\ Len(r) = Len(s) - at + 1
      /\ \A i \in 1 .. Len(s) - at + 1 : r[i] = s[at + i - 1]
  BY <1>1
<1>4. t = (l \o <<a>>) \o r
  BY DEF InsertAt
<1> HIDE DEF l, r, t
<1> DEFINE b == l \o <<a>>
<1>5. /\ b \in Seq(S) /\ Len(b) = at
      /\ \A i \in 1 .. at : b[i] = IF i < at THEN s[i] ELSE a
  BY <1>1, <1>2
<1>9. t = b \o r
  BY <1>4
<1> HIDE DEF b
<1>6. /\ t \in Seq(S) /\ Len(t) = Len(s) + 1
      /\ \A i \in 1 .. Len(s) + 1 :
           t[i] = IF i <= at THEN b[i] ELSE r[i - at]
  <2>1. /\ t \in Seq(S) /\ Len(t) = Len(b) + Len(r)
        /\ \A i \in 1 .. Len(b) + Len(r) :
             t[i] = IF i <= Len(b) THEN b[i] ELSE r[i - Len(b)]
    BY <1>3, <1>5, <1>9, ConcatProperties
  <2>2. Len(b) = at /\ Len(b) + Len(r) = Len(s) + 1
    BY <1>1, <1>3, <1>5
  <2> QED
    BY <2>1, <2>2
<1>7. \A i \in 1 .. Len(s) + 1 : t[i] = IF i < at THEN s[i] ELSE IF i = at THEN a ELSE s[i - 1]
  <2> SUFFICES ASSUME NEW i \in 1 .. Len(s) + 1, i > at
               PROVE  t[i] = s[i - 1]
    BY <1>1, <1>5, <1>6
  <2>1. i - at \in 1 .. Len(s) - at + 1 /\ at + (i - at) - 1 = i - 1
    BY <1>1
  <2> QED
    BY <1>3, <1>6, <2>1
<1>8. \A i \in 1 .. Len(t) : t[i] = a \/ \E j \in 1 .. Len(s) : t[i] = s[j]
  <2> SUFFICES ASSUME NEW i \in 1 .. Len(t), i # at
               PROVE  \E j \in 1 .. Len(s) : t[i] = s[j]
    BY <1>1, <1>6, <1>7, at \in 1 .. Len(s) + 1
  <2>1. CASE i < at
    <3>1. i \in 1 .. Len(s) /\ t[i] = s[i]
      BY <1>1, <1>6, <1>7, <2>1
    <3> QED
      BY <3>1
  <2>2. CASE i > at
    <3>1. i - 1 \in 1 .. Len(s) /\ t[i] = s[i - 1]
      BY <1>1, <1>6, <1>7, <2>2
    <3> QED
      BY <3>1
  <2> QED
    BY <1>1, <1>6, <2>1, <2>2
<1> QED
  BY <1>6, <1>7, <1>8 DEF t

----------------------------------------------------------------------------
(* Out of memory.  The panic stays, and the lists of areas remain lists,   *)
(* so that what still runs over them comes to an end.                      *)

Oom(u) == /\ "panic" \in DOMAIN u /\ "vma" \in DOMAIN u
          /\ u.panic = "out of memory"
          /\ u.vma \in [Mm -> Seq(AreaType)]
          /\ \A x \in Mm : \A i \in 1 .. Len(u.vma[x]) : u.vma[x][i].start < u.vma[x][i].end

\* A second panic does not take the place of the first.
LEMMA OomChecked ==
  ASSUME NEW u, Oom(u), NEW holds, NEW why
  PROVE  Oom(Panic(u, why)) /\ Oom(Check(u, holds, why))
BY DEF Oom, Panic, Check

\* Frames are allocated and freed.
LEMMA OomFrames ==
  ASSUME NEW u, Oom(u), NEW f, NEW n
  PROVE  Oom(Alloc(u, n).mem) /\ Oom(FreePages(u, f, n))
<1>1. Oom(FreePages(u, f, n))
  BY DEF Oom, FreePages
<1>2. ASSUME NEW x PROVE Oom(SwapOut(u, x))
  <2>1. ASSUME NEW g, NEW v PROVE Oom(Evict(u, x, g, v))
    <3> DEFINE c == Check(u, u.pte[x][v].is = "present", "assert")
    <3>1. Oom(c)
      BY OomChecked
    <3> HIDE DEF c
    <3>2. Oom([c EXCEPT !.pra = Front(@), !.disk[v] = u.data[g], !.pte[x][v] = SwapEntry(v),
                        !.free = @ \union {g}, !.ref[g] = 0, !.data[g] = Junk])
      BY <3>1 DEF Oom
    <3> QED
      BY <3>2 DEF Evict, c
  <2> QED
    BY <2>1, OomChecked DEF SwapOut
<1>3. Oom(MakeRoom(u, n))
  BY <1>2 DEF MakeRoom
<1>4. ASSUME NEW w, Oom(w) PROVE Oom(TakeFirst(w, n).mem)
  BY <1>4 DEF TakeFirst, Oom
<1> QED
  BY <1>1, <1>3, <1>4 DEF Alloc

\* Page tables, and the pages in them, change.
LEMMA OomTables ==
  ASSUME NEW u, Oom(u), NEW x, NEW v
  PROVE  /\ Oom(GetPte(u, x, v))
         /\ Oom(PageRemovePte(u, x, v))
         /\ Oom(FreeTable(u, x, v))
         /\ \A f, w : Oom(PageInsert(u, x, f, v, w))
<1>1. ASSUME NEW w, Oom(w) PROVE Oom(GetPte(w, x, v))
  <2> DEFINE a == Alloc(w, 1)
  <2>1. Oom(a.mem)
    BY <1>1, OomFrames
  <2> HIDE DEF a
  <2>2. Oom(WithTable(a, x, v))
    BY <2>1 DEF WithTable, Oom
  <2> QED
    BY <1>1, <2>2 DEF GetPte, a
<1>2. ASSUME NEW w, Oom(w) PROVE Oom(PageRemovePte(w, x, v))
  <2>1. ASSUME NEW f PROVE Oom([w EXCEPT !.pte[x][v] = Absent, !.ref[f] = @ - 1])
    BY <1>2 DEF Oom
  <2>2. ASSUME NEW f
        PROVE  Oom(FreePages([w EXCEPT !.pte[x][v] = Absent, !.ref[f] = @ - 1], f, 1))
    BY <2>1, OomFrames
  <2> QED
    BY <1>2, <2>1, <2>2 DEF PageRemovePte
<1>3. Oom(FreeTable(u, x, v))
  <2>1. Oom([u EXCEPT !.pt[x][v] = NULL])
    BY DEF Oom
  <2>2. \A f : Oom(FreePages([u EXCEPT !.pt[x][v] = NULL], f, 1))
    BY <2>1, OomFrames
  <2> QED
    BY <2>2 DEF FreeTable
<1>4. ASSUME NEW f, NEW w PROVE Oom(PageInsert(u, x, f, v, w))
  <2> DEFINE g == GetPte(u, x, v)
  <2>1. Oom(g)
    BY <1>1
  <2> HIDE DEF g
  <2>2. Oom([g EXCEPT !.ref[f] = @ + 1])
    BY <2>1 DEF Oom
  <2>3. Oom(Replace(g, x, f, v))
    BY <1>2, <2>1, <2>2 DEF Replace
  <2> DEFINE r == Replace(g, x, f, v)
  <2> HIDE DEF r
  <2>4. Oom([r EXCEPT !.pte[x][v] = Present(f, w)])
    BY <2>3 DEF Oom, r
  <2> QED
    BY <2>4 DEF PageInsert, r, g
<1> QED
  BY <1>1, <1>2, <1>3, <1>4

\* Pages are allocated and copied, page directories come and go.
LEMMA OomPages ==
  ASSUME NEW u, Oom(u), NEW x \in Mm, NEW v
  PROVE  /\ \A w, value : Oom(PgdirAllocPage(u, x, v, w, value))
         /\ \A from : Oom(CopyPage(u, x, from, v))
         /\ Oom(SetupPgdir(u, x)) /\ Oom(PutPgdir(u, x))
         /\ Oom(MmCreate(u, x)) /\ Oom(MmDestroy(u, x))
<1>1. ASSUME NEW w, NEW value PROVE Oom(PgdirAllocPage(u, x, v, w, value))
  <2> DEFINE a == Alloc(u, 1)
             p == PageInsert(a.mem, x, a.page, v, w)
             d == [p EXCEPT !.data[a.page] = value]
  <2>1. Oom(a.mem)
    BY OomFrames
  <2> HIDE DEF a
  <2>2. Oom(p)
    BY <2>1, OomTables
  <2> HIDE DEF p
  <2>3. Oom(d)
    BY <2>2 DEF Oom
  <2> HIDE DEF d
  <2>4. Oom([MapSwappable(d, d.check, v, a.page) EXCEPT !.vaddr[a.page] = v])
    BY <2>3 DEF MapSwappable, Oom
  <2>5. Oom(NewSwappable(d, v, a.page))
    BY <2>3, <2>4, OomChecked DEF NewSwappable
  <2>6. Oom(MapNew(a, x, v, w, value))
    BY <2>1, <2>5 DEF MapNew, d, p
  <2> QED
    BY <2>6 DEF PgdirAllocPage, a
<1>2. ASSUME NEW from PROVE Oom(CopyPage(u, x, from, v))
  <2> DEFINE a == Alloc(GetPte(u, x, v), 1)
             e == Pte(u, from, v)
  <2>1. Oom(a.mem)
    BY OomFrames, OomTables
  <2> HIDE DEF a, e
  <2>2. Oom([a.mem EXCEPT !.data[a.page] = u.data[e.page]])
    BY <2>1 DEF Oom
  <2>3. Oom(PageInsert([a.mem EXCEPT !.data[a.page] = u.data[e.page]], x, a.page, v, e.write))
    BY <2>2, OomTables
  <2>4. Oom(Panic(a.mem, "assert"))
    BY <2>1, OomChecked
  <2> QED
    BY <2>3, <2>4 DEF CopyPage, a, e
<1>3. Oom(SetupPgdir(u, x))
  <2> DEFINE a == Alloc(u, 1)
  <2>1. Oom(a.mem)
    BY OomFrames
  <2> HIDE DEF a
  <2>2. Oom([a.mem EXCEPT !.dir[x] = a.page, !.pt[x] = NoTables])
    BY <2>1 DEF Oom
  <2> QED
    BY <2>1, <2>2 DEF SetupPgdir, a
<1>4. Oom(PutPgdir(u, x))
  BY OomFrames DEF PutPgdir
<1> DEFINE areas == [u.vma EXCEPT ![x] = <<>>]
<1>5. /\ areas \in [Mm -> Seq(AreaType)]
      /\ \A y \in Mm : \A i \in 1 .. Len(areas[y]) : areas[y][i].start < areas[y][i].end
  <2>1. <<>> \in Seq(AreaType) /\ Len(<<>>) = 0
    OBVIOUS
  <2>2. \A y \in Mm : areas[y] = IF y = x THEN <<>> ELSE u.vma[y]
    BY DEF Oom
  <2>3. u.vma \in [Mm -> Seq(AreaType)]
    BY DEF Oom
  <2>4. areas \in [Mm -> Seq(AreaType)]
    BY <2>1, <2>3
  <2> HIDE DEF areas
  <2>5. ASSUME NEW y \in Mm, NEW i \in 1 .. Len(areas[y])
        PROVE  areas[y][i].start < areas[y][i].end
    <3>1. y # x
      BY <2>1, <2>2
    <3> QED
      BY <2>2, <3>1 DEF Oom
  <2> QED
    BY <2>4, <2>5
<1>6. Oom(MmCreate(u, x))
  <2>1. MmCreate(u, x).vma = areas
    BY DEF MmCreate, Oom
  <2> HIDE DEF areas
  <2> QED
    BY <1>5, <2>1 DEF MmCreate, Oom
<1>7. Oom(MmDestroy(u, x))
  <2>1. MmDestroy(u, x).vma = areas
    BY DEF MmDestroy, Oom
  <2> HIDE DEF areas
  <2> QED
    BY <1>5, <2>1 DEF MmDestroy, Oom
<1> QED
  BY <1>1, <1>2, <1>3, <1>4, <1>6, <1>7

\* An area is inserted.
LEMMA OomInsert ==
  ASSUME NEW u, Oom(u), NEW x \in Mm, NEW a \in AreaType, a.start < a.end
  PROVE  Oom(InsertVma(u, x, a))
<1> DEFINE s == u.vma[x]
           at == PlaceOf(s, a)
           t == InsertAt(s, at, a)
           w == [u EXCEPT !.vma[x] = t]
<1>1. s \in Seq(AreaType)
  BY DEF Oom
<1>2. at \in 1 .. Len(s) + 1
  BY <1>1, PlaceBounds
<1>3. /\ t \in Seq(AreaType)
      /\ \A i \in 1 .. Len(t) : t[i] = a \/ \E j \in 1 .. Len(s) : t[i] = s[j]
  <2> HIDE DEF at, s
  <2> QED
    BY <1>1, <1>2, Inserted
<1> HIDE DEF t
<1>4. \A i \in 1 .. Len(t) : t[i].start < t[i].end
  BY <1>3 DEF Oom
<1>5. Oom(w)
  BY <1>3, <1>4 DEF Oom
<1> QED
  BY <1>5, OomChecked DEF InsertVma, t, at, s

\* Ranges of pages, or of page tables, are gone through.
LEMMA OomRanges ==
  ASSUME NEW u, Oom(u), NEW x \in Mm, NEW lo \in Nat, NEW hi \in Nat, lo < hi
  PROVE  /\ Oom(UnmapRange(u, x, lo, hi))
         /\ Oom(ExitRange(u, x, lo, hi))
         /\ \A from : Oom(CopyRange(u, x, from, lo, hi))
<1>1. Oom(UnmapRange(u, x, lo, hi))
  <2>1. PICK w : /\ UnmapRange(u, x, lo, hi) = w[hi]
                 /\ w[lo] = u
                 /\ \A i \in lo + 1 .. hi : w[i] = PageRemovePte(w[i - 1], x, i - 1)
    BY UnmapRangeIs
  <2> DEFINE P == {i \in lo .. hi : Oom(w[i])}
  <2>2. \A i \in lo + 1 .. hi : i - 1 \in P => i \in P
    BY <2>1, OomTables
  <2>3. lo \in P
    BY <2>1
  <2>4. hi \in P
    <3> HIDE DEF P
    <3> QED
      BY <2>2, <2>3, UpTo
  <2> QED
    BY <2>1, <2>4
<1>2. Oom(ExitRange(u, x, lo, hi))
  <2>0. PDX(lo) \in Int /\ PDX(hi - 1) \in Int /\ PDX(lo) <= PDX(hi - 1) + 1
    <3>1. lo \in Nat /\ hi - 1 \in Nat /\ lo <= hi - 1
      OBVIOUS
    <3>2. PDX(lo) \in Nat /\ PDX(hi - 1) \in Nat /\ PDX(lo) <= PDX(hi - 1)
      BY <3>1, PdxUp
    <3> QED
      BY <3>2
  <2> DEFINE a == PDX(lo)
             b == PDX(hi - 1) + 1
  <2>1. a \in Int /\ b \in Int /\ a <= b
    BY <2>0
  <2>2. PICK w : /\ ExitRange(u, x, lo, hi) = w[b]
                 /\ w[a] = u
                 /\ \A i \in a + 1 .. b : w[i] = FreeTable(w[i - 1], x, i - 1)
    BY <2>0, ExitRangeIs
  <2> DEFINE P == {i \in a .. b : Oom(w[i])}
  <2> HIDE DEF a, b
  <2>3. \A i \in a + 1 .. b : i - 1 \in P => i \in P
    BY <2>1, <2>2, OomTables
  <2>4. a \in P
    BY <2>1, <2>2
  <2>5. b \in P
    <3> HIDE DEF P
    <3> QED
      BY <2>1, <2>3, <2>4, UpTo
  <2> QED
    BY <2>2, <2>5
<1>3. ASSUME NEW from PROVE Oom(CopyRange(u, x, from, lo, hi))
  <2>1. PICK w : /\ CopyRange(u, x, from, lo, hi) = w[hi]
                 /\ w[lo] = u
                 /\ \A i \in lo + 1 .. hi : w[i] = CopyPage(w[i - 1], x, from, i - 1)
    BY CopyRangeIs
  <2> DEFINE P == {i \in lo .. hi : Oom(w[i])}
  <2>2. \A i \in lo + 1 .. hi : i - 1 \in P => i \in P
    BY <2>1, OomPages
  <2>3. lo \in P
    BY <2>1
  <2>4. hi \in P
    <3> HIDE DEF P
    <3> QED
      BY <2>2, <2>3, UpTo
  <2> QED
    BY <2>1, <2>4
<1> QED
  BY <1>1, <1>2, <1>3

\* Lists of areas are gone through.
LEMMA OomAreas ==
  ASSUME NEW u, Oom(u), NEW x \in Mm, NEW areas \in Seq(AreaType),
         \A i \in 1 .. Len(areas) : areas[i].start < areas[i].end
  PROVE  Oom(UnmapAreas(u, x, areas)) /\ Oom(ExitAreas(u, x, areas))
<1> DEFINE hi == Len(areas)
<1>1. hi \in Nat
  OBVIOUS
<1>2. \A i \in 1 .. hi : /\ areas[i].start \in Nat /\ areas[i].end \in Nat
                         /\ areas[i].start < areas[i].end
  <2>1. \A i \in 1 .. hi : areas[i] \in AreaType
    OBVIOUS
  <2> QED
    BY <2>1 DEF AreaType, VPage
<1>3. Oom(UnmapAreas(u, x, areas))
  <2>1. PICK w : /\ UnmapAreas(u, x, areas) = w[hi]
                 /\ w[0] = u
                 /\ \A i \in 1 .. hi :
                      w[i] = UnmapRange(w[i - 1], x, areas[i].start, areas[i].end)
    <3>1. Len(areas) \in Nat
      BY <1>1
    <3> QED
      BY <3>1, UnmapAreasIs
  <2> DEFINE P == {i \in 0 .. hi : Oom(w[i])}
  <2> HIDE DEF hi
  <2>2. ASSUME NEW i \in 1 .. hi, i - 1 \in P PROVE i \in P
    <3>1. i \in 1 .. hi /\ i \in 0 .. hi /\ Oom(w[i - 1])
      BY <1>1, <2>2
    <3>2. areas[i].start \in Nat /\ areas[i].end \in Nat /\ areas[i].start < areas[i].end
      BY <1>2, <3>1
    <3>3. Oom(w[i])
      BY <2>1, <3>1, <3>2, OomRanges
    <3> QED
      BY <3>1, <3>3
  <2>3. 0 \in P
    BY <1>1, <2>1
  <2>4. hi \in P
    <3> HIDE DEF P
    <3> QED
      BY <1>1, <2>2, <2>3, UpFrom0
  <2> QED
    BY <2>1, <2>4
<1>4. Oom(ExitAreas(u, x, areas))
  <2>1. PICK w : /\ ExitAreas(u, x, areas) = w[hi]
                 /\ w[0] = u
                 /\ \A i \in 1 .. hi :
                      w[i] = ExitRange(w[i - 1], x, areas[i].start, areas[i].end)
    <3>1. Len(areas) \in Nat
      BY <1>1
    <3> QED
      BY <3>1, ExitAreasIs
  <2> DEFINE P == {i \in 0 .. hi : Oom(w[i])}
  <2> HIDE DEF hi
  <2>2. ASSUME NEW i \in 1 .. hi, i - 1 \in P PROVE i \in P
    <3>1. i \in 1 .. hi /\ i \in 0 .. hi /\ Oom(w[i - 1])
      BY <1>1, <2>2
    <3>2. areas[i].start \in Nat /\ areas[i].end \in Nat /\ areas[i].start < areas[i].end
      BY <1>2, <3>1
    <3>3. Oom(w[i])
      BY <2>1, <3>1, <3>2, OomRanges
    <3> QED
      BY <3>1, <3>3
  <2>3. 0 \in P
    BY <1>1, <2>1
  <2>4. hi \in P
    <3> HIDE DEF P
    <3> QED
      BY <1>1, <2>2, <2>3, UpFrom0
  <2> QED
    BY <2>1, <2>4
<1> QED
  BY <1>3, <1>4

\* A process gives up its memory, and a child gets a copy of its parent's.
LEMMA OomWhole ==
  ASSUME NEW u, Oom(u), NEW x \in Mm
  PROVE  /\ Oom(DropMm(u, x))
         /\ \A from \in Mm : Oom(DupMmap(u, x, from))
<1>1. ASSUME NEW w, Oom(w) PROVE Oom(ExitMmap(w, x))
  <2> DEFINE s == w.vma[x]
  <2>1. s \in Seq(AreaType) /\ \A i \in 1 .. Len(s) : s[i].start < s[i].end
    BY <1>1 DEF Oom
  <2> HIDE DEF s
  <2>2. Oom(UnmapAreas(w, x, s))
    BY <1>1, <2>1, OomAreas
  <2>3. Oom(ExitAreas(UnmapAreas(w, x, s), x, s))
    BY <2>1, <2>2, OomAreas
  <2> QED
    BY <2>3 DEF ExitMmap, s
<1>2. Oom(DropMm(u, x))
  BY <1>1, OomPages DEF DropMm
<1>3. ASSUME NEW from \in Mm PROVE Oom(DupMmap(u, x, from))
  <2> DEFINE s == u.vma[from]
             hi == Len(s)
  <2>2. s \in Seq(AreaType) /\ \A i \in 1 .. Len(s) : s[i].start < s[i].end
    BY DEF Oom
  <2>3. hi \in Nat /\ \A i \in 1 .. hi : s[i] \in AreaType /\ s[i].start < s[i].end
    BY <2>2
  <2>4. PICK c : /\ DupMmap(u, x, from) = c[0]
                 /\ c[hi] = u
                 /\ \A i \in 1 .. hi :
                      c[i - 1] = CopyRange(InsertVma(c[i], x, s[i]), x, from,
                                           s[i].start, s[i].end)
    <3>1. Len(u.vma[from]) \in Nat
      BY <2>3
    <3> QED
      BY <3>1, DupMmapIs
  <2> DEFINE P == {i \in 0 .. hi : Oom(c[i])}
  <2> HIDE DEF s, hi
  <2>5. ASSUME NEW i \in 1 .. hi, i \in P PROVE i - 1 \in P
    <3>1. Oom(c[i]) /\ i - 1 \in 0 .. hi /\ i \in 1 .. hi
      BY <2>3, <2>5
    <3>2. s[i] \in AreaType /\ s[i].start \in Nat /\ s[i].end \in Nat /\ s[i].start < s[i].end
      BY <2>3, <3>1 DEF AreaType, VPage
    <3>3. Oom(InsertVma(c[i], x, s[i]))
      BY <3>1, <3>2, OomInsert
    <3>4. Oom(c[i - 1])
      BY <2>4, <3>1, <3>2, <3>3, OomRanges
    <3> QED
      BY <3>1, <3>4
  <2>6. hi \in P
    BY <2>3, <2>4
  <2>7. 0 \in P
    <3> HIDE DEF P
    <3> QED
      BY <2>3, <2>5, <2>6, DownTo0
  <2> QED
    BY <2>4, <2>7
<1> QED
  BY <1>2, <1>3

----------------------------------------------------------------------------
(* Memory without panic.                                                   *)

Directory == 0 .. PDX(USERTOP)
Entries == {Absent} \cup {Present(f, w) : f \in Frame, w \in BOOLEAN}

\* The reasons a panic can have, and "no".
Reasons == {"no", "out of memory", "user fault"}

\* Nothing is ever swapped out: vaddr, pra and disk are as they were at boot.
Memories ==
  [free : SUBSET Frame, ref : [Frame -> Int], data : [Frame -> Int],
   vaddr : {FreshMemory.vaddr}, pra : {<<>>}, disk : {FreshMemory.disk}, check : {NULL},
   dir : [Mm -> Frame \cup {NULL}],
   pt : [Mm -> [Directory -> Frame \cup {NULL}]],
   pte : [Mm -> [VPage -> Entries]],
   vma : [Mm -> Seq(AreaType)], cache : [Mm -> AreaType \cup {NULL}],
   cr3 : Mm \cup {NULL}, panic : Reasons]

\* The frame that page v is mapped to, and what it holds.
PageAt(u, x, v) == IF Pte(u, x, v).is = "present" THEN Pte(u, x, v).page ELSE NULL
Content(u, x, v) == IF PageAt(u, x, v) = NULL THEN Junk ELSE u.data[PageAt(u, x, v)]

\* What may own a frame: a page directory, a place in one, a place in a table.
Owner == ({"dir"} \X Mm \X {0}) \cup ({"table"} \X Mm \X Directory)
           \cup ({"page"} \X Mm \X VPage)

FrameOf(u) ==
  [o \in Owner |-> IF o[1] = "dir" THEN u.dir[o[2]]
                   ELSE IF o[1] = "table" THEN u.pt[o[2]][o[3]]
                   ELSE PageAt(u, o[2], o[3])]

\* g tells who owns which frame; the frames F are free, and the frames R are
\* somebody else's, who has a kernel stack there or was given them just now.
Accounted(g, F, R) ==
  /\ g \in [Owner -> Frame \cup {NULL}]
  /\ F \subseteq Frame /\ R \subseteq Frame /\ F \cap R = {}
  /\ \A o \in Owner : g[o] # NULL => g[o] \notin F \cup R
  /\ \A o, q \in Owner : g[o] # NULL /\ g[o] = g[q] => o = q
  /\ \A f \in Frame \ (F \cup R) : \E o \in Owner : g[o] = f

Referenced(u, R) ==
  /\ \A f \in u.free \cup R : u.ref[f] = 0
  /\ \A x \in Mm, v \in VPage : PageAt(u, x, v) # NULL => u.ref[PageAt(u, x, v)] = 1

\* The areas of x, and the entries and page tables that lie in them.
InSome(areas, v, write) ==
  \E i \in 1 .. Len(areas) :
    InArea(areas[i], v) /\ (write <=> "write" \in areas[i].flags)
TableInSome(areas, d) ==
  \E i \in 1 .. Len(areas) : PDX(areas[i].start) <= d /\ d <= PDX(areas[i].end - 1)

SpaceSound(u, x) ==
  /\ AreasSorted(u.vma[x])
  /\ u.cache[x] # NULL => u.cache[x] \in Elems(u.vma[x])
  /\ \A v \in VPage : PageAt(u, x, v) # NULL => InSome(u.vma[x], v, Pte(u, x, v).write)
  /\ \A d \in Directory : u.pt[x][d] # NULL => TableInSome(u.vma[x], d)
  /\ u.dir[x] = NULL => u.vma[x] = <<>>

Good(u, R) ==
  /\ u \in Memories /\ u.panic = "no"
  /\ Accounted(FrameOf(u), u.free, R)
  /\ Referenced(u, R)
  /\ \A x \in Mm : SpaceSound(u, x)

\* Only what is mapped at page v of x may differ between u and r.
Kept(u, r, x, v) ==
  /\ r.dir = u.dir /\ r.vma = u.vma /\ r.cache = u.cache /\ r.cr3 = u.cr3
  /\ \A y \in Mm, z \in VPage : ~ (y = x /\ z = v) =>
       Pte(r, y, z) = Pte(u, y, z) /\ Content(r, y, z) = Content(u, y, z)

\* Nothing that a program sees differs.
KeptAll(u, r) ==
  /\ r.dir = u.dir /\ r.vma = u.vma /\ r.cache = u.cache /\ r.cr3 = u.cr3
  /\ \A y \in Mm, z \in VPage :
       Pte(r, y, z) = Pte(u, y, z) /\ Content(r, y, z) = Content(u, y, z)

\* The address spaces other than x are as they were.
Others(u, r, x) ==
  /\ r.cr3 = u.cr3
  /\ \A y \in Mm : y # x =>
       /\ r.dir[y] = u.dir[y] /\ r.vma[y] = u.vma[y]
       /\ \A z \in VPage : Pte(r, y, z) = Pte(u, y, z) /\ Content(r, y, z) = Content(u, y, z)

----------------------------------------------------------------------------
(* Owners.                                                                 *)

\* The constants.
LEMMA Constants ==
  /\ NULL \notin Frame /\ NULL \notin Int /\ NULL \notin AreaType /\ NULL \notin Mm
  /\ Frame \subseteq Int /\ VPage \subseteq Nat
  /\ \A v \in VPage : PDX(v) \in Directory
  /\ DOMAIN NoTables = Directory /\ NoTables = [d \in Directory |-> NULL]
  /\ Junk \in Int
  /\ Absent \in Entries /\ Absent.is = "absent"
  /\ \A f \in Frame, w \in BOOLEAN :
       /\ Present(f, w) \in Entries /\ Present(f, w).is = "present"
       /\ Present(f, w).page = f /\ Present(f, w).write = w
  /\ \A e \in Entries : \/ e = Absent
                        \/ e.is = "present" /\ e.page \in Frame /\ e.write \in BOOLEAN
<1>1. NULL \notin Int /\ NULL \notin AreaType /\ NULL \notin Mm
  BY AddressSpaceAssumption
<1>2. Frame \subseteq Int /\ VPage \subseteq Nat /\ USERTOP \in Nat
  BY MemoryAssumption DEF Frame, VPage
<1>3. ASSUME NEW v \in VPage PROVE PDX(v) \in Directory
  <2>1. v \in Nat /\ v <= USERTOP
    BY <1>2 DEF VPage
  <2>2. PDX(v) \in Nat /\ PDX(USERTOP) \in Nat /\ PDX(v) <= PDX(USERTOP)
    BY <1>2, <2>1, PdxUp
  <2> QED
    BY <2>2 DEF Directory
<1>4. Absent.is = "absent" /\ Absent \in Entries
  BY DEF Absent, Entries
<1>5. ASSUME NEW f, NEW w
      PROVE  /\ Present(f, w).is = "present"
             /\ Present(f, w).page = f /\ Present(f, w).write = w
  BY DEF Present
<1>6. \A f \in Frame, w \in BOOLEAN : Present(f, w) \in Entries
  BY DEF Entries
<1>7. \A e \in Entries : \/ e = Absent
                         \/ e.is = "present" /\ e.page \in Frame /\ e.write \in BOOLEAN
  BY <1>5 DEF Entries
<1>8. DOMAIN NoTables = Directory /\ NoTables = [d \in Directory |-> NULL]
  BY DEF NoTables, Directory
<1>9. Junk \in Int
  BY DEF Junk
<1>10. NULL \notin Frame
  BY <1>1, <1>2
<1>11. \A f \in Frame, w \in BOOLEAN :
         /\ Present(f, w) \in Entries /\ Present(f, w).is = "present"
         /\ Present(f, w).page = f /\ Present(f, w).write = w
  BY <1>5, <1>6
<1> QED
  BY <1>1, <1>2, <1>3, <1>4, <1>7, <1>8, <1>9, <1>10, <1>11

\* The owners by their kind.
LEMMA Owners ==
  /\ \A x \in Mm : <<"dir", x, 0>> \in Owner
  /\ \A x \in Mm, d \in Directory : <<"table", x, d>> \in Owner
  /\ \A x \in Mm, v \in VPage : <<"page", x, v>> \in Owner
  /\ \A o \in Owner : \/ \E x \in Mm : o = <<"dir", x, 0>>
                      \/ \E x \in Mm, d \in Directory : o = <<"table", x, d>>
                      \/ \E x \in Mm, v \in VPage : o = <<"page", x, v>>
  /\ \A u : /\ \A x \in Mm : FrameOf(u)[<<"dir", x, 0>>] = u.dir[x]
            /\ \A x \in Mm, d \in Directory : FrameOf(u)[<<"table", x, d>>] = u.pt[x][d]
            /\ \A x \in Mm, v \in VPage : FrameOf(u)[<<"page", x, v>>] = PageAt(u, x, v)
<1>1. /\ \A x \in Mm : <<"dir", x, 0>> \in Owner
      /\ \A x \in Mm, d \in Directory : <<"table", x, d>> \in Owner
      /\ \A x \in Mm, v \in VPage : <<"page", x, v>> \in Owner
  BY DEF Owner
<1>2. ASSUME NEW o \in Owner
      PROVE  \/ \E x \in Mm : o = <<"dir", x, 0>>
             \/ \E x \in Mm, d \in Directory : o = <<"table", x, d>>
             \/ \E x \in Mm, v \in VPage : o = <<"page", x, v>>
  BY DEF Owner
<1>3. ASSUME NEW u
      PROVE  /\ \A x \in Mm : FrameOf(u)[<<"dir", x, 0>>] = u.dir[x]
             /\ \A x \in Mm, d \in Directory : FrameOf(u)[<<"table", x, d>>] = u.pt[x][d]
             /\ \A x \in Mm, v \in VPage : FrameOf(u)[<<"page", x, v>>] = PageAt(u, x, v)
  BY <1>1 DEF FrameOf
<1> QED
  BY <1>1, <1>2, <1>3

\* Free frames are taken.
LEMMA TakeFrames ==
  ASSUME NEW g, NEW F, NEW R, Accounted(g, F, R), NEW S \in SUBSET F
  PROVE  Accounted(g, F \ S, R \cup S)
BY DEF Accounted

\* Frames become free.
LEMMA GiveFrames ==
  ASSUME NEW g, NEW F, NEW R, Accounted(g, F, R), NEW S \in SUBSET R
  PROVE  Accounted(g, F \cup S, R \ S)
BY DEF Accounted

\* A frame gets an owner.
LEMMA OwnFrame ==
  ASSUME NEW g, NEW F, NEW R, Accounted(g, F, R), NEW o \in Owner, g[o] = NULL, NEW f \in R
  PROVE  Accounted([g EXCEPT ![o] = f], F, R \ {f})
<1> DEFINE h == [g EXCEPT ![o] = f]
<1>1. h \in [Owner -> Frame \cup {NULL}] /\ \A q \in Owner : h[q] = IF q = o THEN f ELSE g[q]
  BY DEF Accounted
<1> HIDE DEF h
<1>2. f \in Frame /\ f # NULL /\ f \notin F
  BY Constants DEF Accounted
<1>3. \A q \in Owner : h[q] # NULL => h[q] \notin F \cup (R \ {f})
  BY <1>1, <1>2 DEF Accounted
<1>4. \A p, q \in Owner : h[p] # NULL /\ h[p] = h[q] => p = q
  BY <1>1, <1>2 DEF Accounted
<1>5. ASSUME NEW k \in Frame \ (F \cup (R \ {f})) PROVE \E q \in Owner : h[q] = k
  <2>1. CASE k = f
    BY <1>1, <2>1
  <2>2. CASE k # f
    <3>1. PICK q \in Owner : g[q] = k
      BY <2>2 DEF Accounted
    <3>2. q # o
      BY <3>1, Constants
    <3> QED
      BY <1>1, <3>1, <3>2
  <2> QED
    BY <2>1, <2>2
<1> QED
  BY <1>1, <1>3, <1>4, <1>5 DEF Accounted, h

\* A frame loses its owner.
LEMMA LoseFrame ==
  ASSUME NEW g, NEW F, NEW R, Accounted(g, F, R), NEW o \in Owner, g[o] # NULL
  PROVE  Accounted([g EXCEPT ![o] = NULL], F, R \cup {g[o]})
<1> DEFINE h == [g EXCEPT ![o] = NULL]
<1>1. h \in [Owner -> Frame \cup {NULL}] /\ \A q \in Owner : h[q] = IF q = o THEN NULL ELSE g[q]
  BY DEF Accounted
<1> HIDE DEF h
<1>2. g[o] \in Frame /\ g[o] \notin F
  BY DEF Accounted
<1>3. \A q \in Owner : h[q] # NULL => h[q] \notin F \cup (R \cup {g[o]})
  BY <1>1, <1>2 DEF Accounted
<1>4. \A p, q \in Owner : h[p] # NULL /\ h[p] = h[q] => p = q
  BY <1>1, <1>2 DEF Accounted
<1>5. \A k \in Frame \ (F \cup (R \cup {g[o]})) : \E q \in Owner : h[q] = k
  BY <1>1 DEF Accounted
<1>6. R \cup {g[o]} \subseteq Frame /\ F \subseteq Frame /\ F \cap (R \cup {g[o]}) = {}
  BY <1>2 DEF Accounted
<1> QED
  BY <1>1, <1>3, <1>4, <1>5, <1>6 DEF Accounted, h

----------------------------------------------------------------------------
(* What memory depends on.                                                 *)

\* The types of the fields, one by one.
LEMMA MemoryTypes ==
  ASSUME NEW u, u \in Memories
  PROVE  /\ u.free \in SUBSET Frame /\ u.ref \in [Frame -> Int] /\ u.data \in [Frame -> Int]
         /\ u.check = NULL /\ u.pra = <<>>
         /\ u.dir \in [Mm -> Frame \cup {NULL}]
         /\ u.pt \in [Mm -> [Directory -> Frame \cup {NULL}]]
         /\ u.pte \in [Mm -> [VPage -> Entries]]
         /\ u.vma \in [Mm -> Seq(AreaType)] /\ u.cache \in [Mm -> AreaType \cup {NULL}]
         /\ u.cr3 \in Mm \cup {NULL} /\ u.panic \in Reasons
         /\ DOMAIN u = {"free", "ref", "data", "vaddr", "pra", "disk", "check", "dir", "pt",
                        "pte", "vma", "cache", "cr3", "panic"}
BY DEF Memories

\* An entry that is found is absent, or names a frame.
LEMMA EntryFound ==
  ASSUME NEW u, u \in Memories, NEW x \in Mm, NEW v \in VPage
  PROVE  /\ Pte(u, x, v) \in Entries
         /\ \/ Pte(u, x, v) = Absent /\ PageAt(u, x, v) = NULL
            \/ /\ Pte(u, x, v).is = "present" /\ PageAt(u, x, v) \in Frame
               /\ PageAt(u, x, v) = Pte(u, x, v).page
               /\ u.pt[x][PDX(v)] # NULL /\ u.pte[x][v] = Pte(u, x, v)
         /\ (Pte(u, x, v).is = "present" <=> PageAt(u, x, v) # NULL)
<1>1. Pte(u, x, v) \in Entries
  BY MemoryTypes, Constants DEF Pte
<1>2. Pte(u, x, v) = Absent \/ (Pte(u, x, v).is = "present" /\ Pte(u, x, v).page \in Frame)
  BY <1>1, Constants
<1>3. NULL \notin Frame /\ Absent.is = "absent"
  BY Constants
<1>4. Pte(u, x, v) # Absent => u.pt[x][PDX(v)] # NULL /\ u.pte[x][v] = Pte(u, x, v)
  BY DEF Pte
<1>5. CASE Pte(u, x, v) = Absent
  BY <1>1, <1>3, <1>5 DEF PageAt
<1>6. CASE Pte(u, x, v).is = "present" /\ Pte(u, x, v).page \in Frame
  BY <1>1, <1>3, <1>4, <1>6 DEF PageAt
<1> QED
  BY <1>2, <1>5, <1>6

\* Entries depend on the page tables, owners on the directories as well.
LEMMA SameTables ==
  ASSUME NEW u, NEW r, r.pt = u.pt, r.pte = u.pte
  PROVE  /\ \A x, v : Pte(r, x, v) = Pte(u, x, v)
         /\ \A x, v : PageAt(r, x, v) = PageAt(u, x, v)
         /\ r.dir = u.dir => FrameOf(r) = FrameOf(u)
<1>1. \A x, v : Pte(r, x, v) = Pte(u, x, v)
  BY DEF Pte
<1>2. \A x, v : PageAt(r, x, v) = PageAt(u, x, v)
  BY <1>1 DEF PageAt
<1>3. ASSUME r.dir = u.dir PROVE FrameOf(r) = FrameOf(u)
  BY <1>2, <1>3 DEF FrameOf
<1> QED
  BY <1>1, <1>2, <1>3

\* What an address space is depends on its own tables and areas.
LEMMA SameSpace ==
  ASSUME NEW u, NEW r, NEW x \in Mm, SpaceSound(u, x),
         r.dir[x] = u.dir[x], r.pt[x] = u.pt[x], r.pte[x] = u.pte[x],
         r.vma[x] = u.vma[x], r.cache[x] = u.cache[x]
  PROVE  SpaceSound(r, x)
<1>1. \A v \in VPage : Pte(r, x, v) = Pte(u, x, v) /\ PageAt(r, x, v) = PageAt(u, x, v)
  BY DEF Pte, PageAt
<1> QED
  BY <1>1 DEF SpaceSound

\* Mapped frames are neither free nor in R, so their contents do not depend on
\* those.
LEMMA MappedApart ==
  ASSUME NEW u, NEW R, Good(u, R), NEW x \in Mm, NEW v \in VPage, PageAt(u, x, v) # NULL
  PROVE  PageAt(u, x, v) \in Frame /\ PageAt(u, x, v) \notin u.free \cup R
<1> DEFINE o == <<"page", x, v>>
<1>1. o \in Owner /\ FrameOf(u)[o] = PageAt(u, x, v)
  BY Owners
<1> HIDE DEF o
<1>2. Accounted(FrameOf(u), u.free, R)
  BY DEF Good
<1> QED
  BY <1>1, <1>2 DEF Accounted

\* Out of memory: what is left is in order.
LEMMA GoodThenOom ==
  ASSUME NEW u, NEW R, Good(u, R)
  PROVE  Oom(Panic(u, "out of memory"))
<1>1. u \in Memories /\ u.panic = "no" /\ \A x \in Mm : AreasSorted(u.vma[x])
  BY DEF Good, SpaceSound
<1>2. u.vma \in [Mm -> Seq(AreaType)] /\ "panic" \in DOMAIN u /\ "vma" \in DOMAIN u
  BY <1>1, MemoryTypes
<1>3. \A x \in Mm : \A i \in 1 .. Len(u.vma[x]) : u.vma[x][i].start < u.vma[x][i].end
  BY <1>1 DEF AreasSorted, UserAccess
<1> QED
  BY <1>1, <1>2, <1>3 DEF Oom, Panic

----------------------------------------------------------------------------
(* Frames are taken and given back.                                        *)

\* The frames S are no longer free.
Without(u, S) == [u EXCEPT !.free = @ \ S]

\* Frames that are free are taken.
LEMMA GoodTaken ==
  ASSUME NEW u, NEW R, Good(u, R), NEW S \in SUBSET u.free,
         NEW r, r = Without(u, S)
  PROVE  /\ Good(r, R \cup S) /\ KeptAll(u, r)
         /\ r.pt = u.pt /\ r.data = u.data /\ r.pte = u.pte
<1>1. u \in Memories
  BY DEF Good
<1>2. /\ r.free = u.free \ S /\ r.ref = u.ref /\ r.data = u.data /\ r.dir = u.dir
      /\ r.pt = u.pt /\ r.pte = u.pte /\ r.vma = u.vma /\ r.cache = u.cache
      /\ r.panic = u.panic /\ r.cr3 = u.cr3
  BY <1>1, MemoryTypes DEF Without
<1>3. r \in Memories
  BY <1>1 DEF Memories, Without
<1>4. /\ FrameOf(r) = FrameOf(u)
      /\ \A x, v : Pte(r, x, v) = Pte(u, x, v) /\ PageAt(r, x, v) = PageAt(u, x, v)
  <2>1. r.pt = u.pt /\ r.pte = u.pte /\ r.dir = u.dir
    BY <1>2
  <2>2. FrameOf(r) = FrameOf(u)
    BY <2>1, SameTables
  <2>3. \A x, v : Pte(r, x, v) = Pte(u, x, v)
    BY <2>1 DEF Pte
  <2> QED
    BY <2>2, <2>3 DEF PageAt
<1>5. Accounted(FrameOf(r), r.free, R \cup S)
  <2>1. Accounted(FrameOf(u), u.free, R)
    BY DEF Good
  <2> QED
    BY <1>2, <1>4, <2>1, TakeFrames
<1>6. Referenced(r, R \cup S)
  BY <1>2, <1>4 DEF Good, Referenced
<1>7. \A x \in Mm : SpaceSound(r, x)
  BY <1>2, SameSpace DEF Good
<1>8. KeptAll(u, r)
  BY <1>2, <1>4 DEF KeptAll, Content
<1>9. r.panic = "no"
  BY <1>2 DEF Good
<1> QED
  BY <1>2, <1>3, <1>4, <1>5, <1>6, <1>7, <1>8, <1>9 DEF Good

\* free_pages.
LEMMA GoodFreed ==
  ASSUME NEW u, NEW R, Good(u, R), NEW f \in Frame, NEW n \in Nat \ {0},
         f .. f + n - 1 \subseteq R
  PROVE  /\ Good(FreePages(u, f, n), R \ (f .. f + n - 1))
         /\ KeptAll(u, FreePages(u, f, n)) /\ FreePages(u, f, n).pt = u.pt
<1> DEFINE S == f .. f + n - 1
           r == FreePages(u, f, n)
<1>1. u \in Memories
  BY DEF Good
<1>2. /\ r.free = u.free \cup S /\ r.dir = u.dir /\ r.cr3 = u.cr3
      /\ r.pt = u.pt /\ r.pte = u.pte /\ r.vma = u.vma /\ r.cache = u.cache
      /\ r.panic = u.panic
      /\ r.ref = [u.ref EXCEPT ![f] = 0]
      /\ r.data = [g \in Frame |-> IF g \in S THEN Junk ELSE u.data[g]]
  BY <1>1, MemoryTypes DEF FreePages
<1>3. S \subseteq R /\ R \subseteq Frame /\ S \subseteq Frame
  BY DEF Good, Accounted
<1>4. r \in Memories
  <2>1. r.free \in SUBSET Frame /\ r.ref \in [Frame -> Int] /\ r.data \in [Frame -> Int]
    BY <1>1, <1>2, <1>3, MemoryTypes, Constants
  <2>2. r = [u EXCEPT !.free = r.free, !.ref = r.ref, !.data = r.data]
    BY <1>1, <1>2, MemoryTypes DEF FreePages
  <2> HIDE DEF r
  <2> QED
    BY <1>1, <2>1, <2>2 DEF Memories
<1> HIDE DEF r, S
<1>5. /\ FrameOf(r) = FrameOf(u)
      /\ \A x, v : Pte(r, x, v) = Pte(u, x, v) /\ PageAt(r, x, v) = PageAt(u, x, v)
  BY <1>2, SameTables
<1>6. Accounted(FrameOf(r), r.free, R \ S)
  <2>1. Accounted(FrameOf(u), u.free, R)
    BY DEF Good
  <2> QED
    <3>1. S \in SUBSET R
      BY <1>3
    <3>2. Accounted(FrameOf(u), u.free \cup S, R \ S)
      BY <2>1, <3>1, GiveFrames
    <3> QED
      BY <1>2, <1>5, <3>2
<1>7. \A x \in Mm, v \in VPage :
        PageAt(u, x, v) # NULL => PageAt(u, x, v) \in Frame /\ PageAt(u, x, v) \notin u.free \cup R
  BY MappedApart
<1>8. Referenced(r, R \ S)
  <2>1. /\ \A g \in u.free \cup R : u.ref[g] = 0
        /\ \A x \in Mm, v \in VPage : PageAt(u, x, v) # NULL => u.ref[PageAt(u, x, v)] = 1
    BY DEF Good, Referenced
  <2>2. u.ref \in [Frame -> Int]
    BY <1>1, MemoryTypes
  <2>3. \A g \in Frame : r.ref[g] = IF g = f THEN 0 ELSE u.ref[g]
    BY <1>2, <2>2
  <2>4. r.free \cup (R \ S) \subseteq u.free \cup R /\ u.free \subseteq Frame
    BY <1>1, <1>2, <1>3, MemoryTypes
  <2>5. \A g \in r.free \cup (R \ S) : r.ref[g] = 0
    BY <1>3, <2>1, <2>3, <2>4
  <2>6. ASSUME NEW x \in Mm, NEW v \in VPage, PageAt(r, x, v) # NULL
        PROVE  r.ref[PageAt(r, x, v)] = 1
    <3>1. f \in S
      BY Constants DEF S
    <3>2. PageAt(r, x, v) = PageAt(u, x, v)
      BY <1>5
    <3>3. PageAt(u, x, v) \in Frame /\ PageAt(u, x, v) # f
      BY <1>3, <1>7, <2>6, <3>1, <3>2
    <3> QED
      BY <2>1, <2>3, <2>6, <3>2, <3>3
  <2> QED
    BY <2>5, <2>6 DEF Referenced
<1>9. \A x \in Mm : SpaceSound(r, x)
  BY <1>2, SameSpace DEF Good
<1>10. KeptAll(u, r)
  <2>1. \A x \in Mm, v \in VPage : Content(r, x, v) = Content(u, x, v)
    BY <1>2, <1>3, <1>5, <1>7 DEF Content
  <2> QED
    BY <1>2, <1>5, <2>1 DEF KeptAll
<1>11. r.panic = "no"
  BY <1>2 DEF Good
<1>12. Good(r, R \ S)
  BY <1>4, <1>6, <1>8, <1>9, <1>11 DEF Good
<1> QED
  BY <1>2, <1>5, <1>10, <1>12 DEF r, S

\* alloc_pages gives free frames that follow each other; a single one cannot be
\* had only if memory is used up, and then the kernel panics.
LEMMA AllocRun ==
  ASSUME NEW u, NEW R, Good(u, R), NEW n \in Nat \ {0}, NEW a, a = Alloc(u, n)
  PROVE  \/ a.page = NULL /\ (n = 1 => Oom(a.mem)) /\ (n # 1 => a.mem = u)
         \/ /\ a.page \in u.free /\ a.page .. a.page + n - 1 \subseteq u.free
            /\ a.mem = Without(u, a.page .. a.page + n - 1)
<1> DEFINE w == MakeRoom(u, n)
           fit == Fitting(w, n)
           f == Min(fit)
<1>1. u \in Memories /\ u.check = NULL /\ u.free \subseteq Frame /\ u.panic = "no"
  BY MemoryTypes DEF Good
<1>2. a = IF fit = {} THEN [mem |-> w, page |-> NULL]
          ELSE [mem |-> [w EXCEPT !.free = @ \ (f .. f + n - 1)], page |-> f]
  BY DEF Alloc, TakeFirst
<1>3. Frame \subseteq Nat
  BY MemoryAssumption DEF Frame
<1>4. CASE n = 1 /\ u.free = {}
  <2>1. w = Panic(u, "out of memory")
    BY <1>1, <1>4 DEF MakeRoom, SwapOut
  <2>2. Oom(w)
    BY <2>1, GoodThenOom
  <2>3. w.free = u.free
    <3>1. w = [u EXCEPT !.panic = "out of memory"]
      BY <1>1, <2>1 DEF Panic
    <3>2. "free" \in DOMAIN u
      BY <1>1, MemoryTypes
    <3> HIDE DEF w
    <3> QED
      BY <3>1, <3>2
  <2>4. fit = {}
    BY <1>4, <2>3 DEF Fitting
  <2> HIDE DEF w, fit, f
  <2> QED
    BY <1>2, <1>4, <2>2, <2>4
<1>5. CASE ~ (n = 1 /\ u.free = {})
  <2>1. w = u
    BY <1>5 DEF MakeRoom
  <2>2. fit = Fitting(u, n)
    BY <2>1
  <2>3. CASE fit = {}
    <3>1. n # 1
      <4> SUFFICES ASSUME n = 1
                   PROVE  FALSE
        OBVIOUS
      <4>1. PICK g \in u.free : TRUE
        BY <1>5
      <4>2. g \in Nat
        BY <1>1, <1>3
      <4>3. g .. g + 1 - 1 = {g}
        BY <4>2
      <4>4. g \in Fitting(u, n)
        BY <4>1, <4>3 DEF Fitting
      <4> HIDE DEF fit
      <4> QED
        BY <2>2, <2>3, <4>4
    <3> HIDE DEF w, fit, f
    <3> QED
      BY <1>2, <2>1, <2>3, <3>1
  <2>4. CASE fit # {}
    <3>1. fit \in SUBSET Nat
      BY <1>1, <1>3, <2>2 DEF Fitting
    <3>2. f \in fit
      <4> HIDE DEF fit
      <4> QED
        BY <2>4, <3>1, LeastPlace
    <3>3. f \in u.free /\ f .. f + n - 1 \subseteq u.free
      <4> HIDE DEF f
      <4> QED
        BY <2>2, <3>2 DEF Fitting
    <3> HIDE DEF fit, f
    <3>4. a.page = f /\ a.mem = [w EXCEPT !.free = @ \ (f .. f + n - 1)]
      BY <1>2, <2>4
    <3>5. a.mem = Without(u, f .. f + n - 1)
      BY <2>1, <3>4 DEF Without
    <3> HIDE DEF w
    <3> QED
      BY <3>3, <3>4, <3>5
  <2> QED
    BY <2>3, <2>4
<1> QED
  BY <1>4, <1>5

\* A single frame.
LEMMA AllocOne ==
  ASSUME NEW u, NEW R, Good(u, R), NEW a, a = Alloc(u, 1)
  PROVE  \/ a.page = NULL /\ Oom(a.mem)
         \/ /\ a.page \in Frame /\ a.page # NULL /\ a.page \notin R
            /\ Good(a.mem, R \cup {a.page})
            /\ a.mem.ref[a.page] = 0
            /\ KeptAll(u, a.mem) /\ a.mem.pt = u.pt /\ a.mem.data = u.data
<1> DEFINE S == a.page .. a.page + 1 - 1
<1>1. \/ a.page = NULL /\ Oom(a.mem)
      \/ a.page \in u.free /\ S \subseteq u.free /\ a.mem = Without(u, S)
  <2> DEFINE n == 1
  <2>1. n \in Nat \ {0} /\ a = Alloc(u, n) /\ n = 1
    OBVIOUS
  <2> HIDE DEF n
  <2>2. \/ a.page = NULL /\ (n = 1 => Oom(a.mem)) /\ (n # 1 => a.mem = u)
        \/ /\ a.page \in u.free /\ a.page .. a.page + n - 1 \subseteq u.free
           /\ a.mem = Without(u, a.page .. a.page + n - 1)
    BY <2>1, AllocRun
  <2> QED
    BY <2>1, <2>2
<1>2. ASSUME a.page \in u.free
      PROVE  S = {a.page} /\ a.page \in Frame /\ a.page # NULL /\ a.page \notin R
  <2>1. a.page \in Frame
    BY <1>2, MemoryTypes DEF Good
  <2>2. a.page \in Int
    BY <2>1, Constants
  <2>3. Accounted(FrameOf(u), u.free, R)
    BY DEF Good
  <2>4. a.page \notin R
    BY <1>2, <2>3 DEF Accounted
  <2> QED
    BY <2>1, <2>2, <2>4, Constants
<1> HIDE DEF S
<1>3. CASE a.page \in u.free /\ S \subseteq u.free /\ a.mem = Without(u, S)
  <2>1. /\ Good(a.mem, R \cup S) /\ KeptAll(u, a.mem)
        /\ a.mem.pt = u.pt /\ a.mem.data = u.data
    <3>1. a.mem.pt = u.pt /\ a.mem.data = u.data
      BY <1>3, MemoryTypes DEF Good, Without
    <3>2. Good(a.mem, R \cup S)
      BY <1>3, GoodTaken
    <3>3. KeptAll(u, a.mem)
      BY <1>3, <3>2, GoodTaken
    <3> QED
      BY <3>1, <3>2, <3>3
  <2>2. S = {a.page} /\ a.page \in Frame /\ a.page # NULL /\ a.page \notin R
    BY <1>2, <1>3
  <2>3. Referenced(a.mem, R \cup S)
    BY <2>1 DEF Good
  <2>4. a.mem.ref[a.page] = 0
    BY <2>2, <2>3 DEF Referenced
  <2> QED
    BY <1>3, <2>1, <2>2, <2>4
<1> QED
  BY <1>1, <1>3

----------------------------------------------------------------------------
(* One frame gets an owner, or loses it.                                   *)

\* From u to r the owner o, and no other, gets f.
OwnerGets(u, r, o, f) ==
  /\ \A x \in Mm : r.dir[x] = IF o = <<"dir", x, 0>> THEN f ELSE u.dir[x]
  /\ \A x \in Mm, d \in Directory :
       r.pt[x][d] = IF o = <<"table", x, d>> THEN f ELSE u.pt[x][d]
  /\ \A x \in Mm, v \in VPage :
       PageAt(r, x, v) = IF o = <<"page", x, v>> THEN f ELSE PageAt(u, x, v)

\* What the owners have.
LEMMA FrameOfKinds ==
  ASSUME NEW u
  PROVE  /\ \A x \in Mm : FrameOf(u)[<<"dir", x, 0>>] = u.dir[x]
         /\ \A x \in Mm, d \in Directory : FrameOf(u)[<<"table", x, d>>] = u.pt[x][d]
         /\ \A x \in Mm, v \in VPage : FrameOf(u)[<<"page", x, v>>] = PageAt(u, x, v)
BY Owners

\* What changes is what o owns.
LEMMA FrameOfChanged ==
  ASSUME NEW u, NEW r, NEW o \in Owner, NEW f, OwnerGets(u, r, o, f)
  PROVE  FrameOf(r) = [FrameOf(u) EXCEPT ![o] = f]
<1>1. DOMAIN FrameOf(u) = Owner /\ DOMAIN FrameOf(r) = Owner
      /\ FrameOf(r) = [q \in Owner |-> FrameOf(r)[q]]
  BY DEF FrameOf
<1>2. ASSUME NEW q \in Owner
      PROVE  FrameOf(r)[q] = IF q = o THEN f ELSE FrameOf(u)[q]
  <2>1. ASSUME NEW x \in Mm, q = <<"dir", x, 0>>
        PROVE  FrameOf(r)[q] = IF q = o THEN f ELSE FrameOf(u)[q]
    <3>1. FrameOf(r)[q] = r.dir[x] /\ FrameOf(u)[q] = u.dir[x]
      BY <2>1, FrameOfKinds
    <3>2. r.dir[x] = IF q = o THEN f ELSE u.dir[x]
      BY <2>1 DEF OwnerGets
    <3> QED
      BY <3>1, <3>2
  <2>2. ASSUME NEW x \in Mm, NEW d \in Directory, q = <<"table", x, d>>
        PROVE  FrameOf(r)[q] = IF q = o THEN f ELSE FrameOf(u)[q]
    <3>1. FrameOf(r)[q] = r.pt[x][d] /\ FrameOf(u)[q] = u.pt[x][d]
      BY <2>2, FrameOfKinds
    <3>2. r.pt[x][d] = IF q = o THEN f ELSE u.pt[x][d]
      BY <2>2 DEF OwnerGets
    <3> QED
      BY <3>1, <3>2
  <2>3. ASSUME NEW x \in Mm, NEW v \in VPage, q = <<"page", x, v>>
        PROVE  FrameOf(r)[q] = IF q = o THEN f ELSE FrameOf(u)[q]
    <3>1. FrameOf(r)[q] = PageAt(r, x, v) /\ FrameOf(u)[q] = PageAt(u, x, v)
      BY <2>3, FrameOfKinds
    <3>2. PageAt(r, x, v) = IF q = o THEN f ELSE PageAt(u, x, v)
      BY <2>3 DEF OwnerGets
    <3> QED
      BY <3>1, <3>2
  <2> QED
    BY <2>1, <2>2, <2>3, Owners
<1>3. FrameOf(r) = [q \in Owner |-> IF q = o THEN f ELSE FrameOf(u)[q]]
  BY <1>1, <1>2
<1> QED
  BY <1>1, <1>3

\* A frame that somebody had in R.
LEMMA OwnerGained ==
  ASSUME NEW u, NEW r, NEW F, NEW R, Accounted(FrameOf(u), F, R), NEW o \in Owner,
         FrameOf(u)[o] = NULL, NEW f \in R, OwnerGets(u, r, o, f)
  PROVE  Accounted(FrameOf(r), F, R \ {f})
<1> DEFINE g == FrameOf(u)
           h == [g EXCEPT ![o] = f]
<1>1. FrameOf(r) = h
  BY FrameOfChanged
<1> HIDE DEF g
<1>2. Accounted(h, F, R \ {f})
  BY OwnFrame DEF g
<1> HIDE DEF h
<1> QED
  BY <1>1, <1>2

\* A frame that somebody has in R then.
LEMMA OwnerLost ==
  ASSUME NEW u, NEW r, NEW F, NEW R, Accounted(FrameOf(u), F, R), NEW o \in Owner,
         FrameOf(u)[o] # NULL, OwnerGets(u, r, o, NULL)
  PROVE  Accounted(FrameOf(r), F, R \cup {FrameOf(u)[o]})
<1> DEFINE g == FrameOf(u)
           h == [g EXCEPT ![o] = NULL]
<1>1. FrameOf(r) = h
  BY FrameOfChanged
<1> HIDE DEF g
<1>2. Accounted(h, F, R \cup {g[o]})
  BY LoseFrame DEF g
<1> HIDE DEF h
<1> QED
  BY <1>1, <1>2 DEF g

\* Frame f becomes a page table, with the entries e.
TableSet(u, x, d, f, e) == [u EXCEPT !.ref[f] = 1, !.pt[x][d] = f, !.pte[x] = e]

\* A page table for the pages that have none.
LEMMA TableAdded ==
  ASSUME NEW u, NEW R, Good(u, R), NEW x \in Mm, NEW d \in Directory, u.pt[x][d] = NULL,
         TableInSome(u.vma[x], d), NEW f \in R,
         NEW e \in [VPage -> Entries],
         \A v \in VPage : e[v] = IF PDX(v) = d THEN Absent ELSE u.pte[x][v],
         NEW r, r = TableSet(u, x, d, f, e)
  PROVE  /\ Good(r, R \ {f})
         /\ KeptAll(u, r) /\ r.data = u.data /\ r.pt[x][d] = f
<1>1. u \in Memories
  BY DEF Good
<1>2. f \in Frame /\ f # NULL /\ f \notin u.free
  BY Constants DEF Good, Accounted
<1>3. /\ r.free = u.free /\ r.ref = [u.ref EXCEPT ![f] = 1] /\ r.data = u.data /\ r.dir = u.dir
      /\ r.pt = [u.pt EXCEPT ![x][d] = f] /\ r.vma = u.vma /\ r.cache = u.cache
      /\ r.cr3 = u.cr3 /\ r.panic = u.panic
      /\ r.pte = [u.pte EXCEPT ![x] = e]
  BY <1>1, MemoryTypes DEF TableSet
<1>4. r.pt \in [Mm -> [Directory -> Frame \cup {NULL}]]
  BY <1>1, <1>2, <1>3, MemoryTypes
<1>5. r.pte \in [Mm -> [VPage -> Entries]]
  <2>1. u.pte \in [Mm -> [VPage -> Entries]]
    BY <1>1, MemoryTypes
  <2> QED
    BY <1>3, <2>1
<1>6. r.ref \in [Frame -> Int]
  BY <1>1, <1>2, <1>3, MemoryTypes
<1>7. r \in Memories
  <2>1. r = [u EXCEPT !.ref = r.ref, !.pt = r.pt, !.pte = r.pte]
    BY <1>1, <1>3, MemoryTypes DEF TableSet
  <2> QED
    BY <1>1, <1>4, <1>5, <1>6, <2>1 DEF Memories
<1>8. \A y \in Mm, c \in Directory : r.pt[y][c] = IF y = x /\ c = d THEN f ELSE u.pt[y][c]
  BY <1>1, <1>3, MemoryTypes
<1>9. \A y \in Mm, v \in VPage :
        r.pte[y][v] = IF y = x /\ PDX(v) = d THEN Absent ELSE u.pte[y][v]
  BY <1>1, <1>3, MemoryTypes
<1>10. ASSUME NEW y \in Mm, NEW v \in VPage
       PROVE  Pte(r, y, v) = Pte(u, y, v) /\ PageAt(r, y, v) = PageAt(u, y, v)
  <2>1. PDX(v) \in Directory
    BY Constants
  <2>2. Pte(r, y, v) = Pte(u, y, v)
    BY <1>2, <1>8, <1>9, <2>1 DEF Pte
  <2> QED
    BY <2>2 DEF PageAt
<1> DEFINE o == <<"table", x, d>>
<1>11. o \in Owner /\ FrameOf(u)[o] = NULL
  BY Owners
<1>12. OwnerGets(u, r, o, f)
  <2>1. \A y \in Mm : r.dir[y] = IF o = <<"dir", y, 0>> THEN f ELSE u.dir[y]
    BY <1>3
  <2>2. \A y \in Mm, c \in Directory : r.pt[y][c] = IF o = <<"table", y, c>> THEN f ELSE u.pt[y][c]
    BY <1>8
  <2>3. \A y \in Mm, v \in VPage :
          PageAt(r, y, v) = IF o = <<"page", y, v>> THEN f ELSE PageAt(u, y, v)
    BY <1>10
  <2> HIDE DEF o
  <2> QED
    BY <2>1, <2>2, <2>3 DEF OwnerGets
<1>13. Accounted(FrameOf(r), r.free, R \ {f})
  <2>1. Accounted(FrameOf(u), u.free, R)
    BY DEF Good
  <2> HIDE DEF o
  <2>2. Accounted(FrameOf(r), u.free, R \ {f})
    BY <1>11, <1>12, <2>1, OwnerGained
  <2> QED
    BY <1>3, <2>2
<1>14. Referenced(r, R \ {f})
  <2>1. u.ref \in [Frame -> Int] /\ u.free \subseteq Frame /\ R \subseteq Frame
    BY <1>1, MemoryTypes DEF Good, Accounted
  <2>2. \A g \in Frame : r.ref[g] = IF g = f THEN 1 ELSE u.ref[g]
    BY <1>3, <2>1
  <2>3. \A y \in Mm, v \in VPage : PageAt(u, y, v) # NULL => PageAt(u, y, v) \in Frame
    BY MappedApart
  <2>4. /\ \A g \in u.free \cup R : u.ref[g] = 0
        /\ \A y \in Mm, v \in VPage : PageAt(u, y, v) # NULL => u.ref[PageAt(u, y, v)] = 1
    BY DEF Good, Referenced
  <2>5. \A g \in r.free \cup (R \ {f}) : r.ref[g] = 0
    BY <1>2, <1>3, <2>1, <2>2, <2>4
  <2>6. \A y \in Mm, v \in VPage : PageAt(r, y, v) # NULL => r.ref[PageAt(r, y, v)] = 1
    BY <1>10, <2>2, <2>3, <2>4
  <2> QED
    BY <2>5, <2>6 DEF Referenced
<1>15. ASSUME NEW y \in Mm PROVE SpaceSound(r, y)
  <2>1. SpaceSound(u, y)
    BY DEF Good
  <2>2. \A v \in VPage : Pte(r, y, v) = Pte(u, y, v) /\ PageAt(r, y, v) = PageAt(u, y, v)
    BY <1>10
  <2>3. \A c \in Directory : r.pt[y][c] # NULL => TableInSome(r.vma[y], c)
    BY <1>3, <1>8, <2>1 DEF SpaceSound
  <2> QED
    BY <1>3, <2>1, <2>2, <2>3 DEF SpaceSound
<1>16. r.panic = "no"
  BY <1>3 DEF Good
<1>17. Good(r, R \ {f})
  BY <1>7, <1>13, <1>14, <1>15, <1>16 DEF Good
<1>18. KeptAll(u, r)
  BY <1>3, <1>10 DEF KeptAll, Content
<1> QED
  BY <1>3, <1>8, <1>17, <1>18

\* Frame f is mapped at v, with a value in it.
PageSet(u, x, v, f, w, value) ==
  [u EXCEPT !.ref[f] = 1, !.pte[x][v] = Present(f, w), !.data[f] = value]

\* A page of an area is mapped.
LEMMA PageAdded ==
  ASSUME NEW u, NEW R, Good(u, R), NEW x \in Mm, NEW v \in VPage,
         u.pt[x][PDX(v)] # NULL, PageAt(u, x, v) = NULL, NEW f \in R, NEW w \in BOOLEAN,
         InSome(u.vma[x], v, w), NEW value \in Int,
         NEW r, r = PageSet(u, x, v, f, w, value)
  PROVE  /\ Good(r, R \ {f})
         /\ Kept(u, r, x, v) /\ r.pt = u.pt
         /\ Pte(r, x, v) = Present(f, w) /\ Content(r, x, v) = value
<1>1. u \in Memories
  BY DEF Good
<1>2. f \in Frame /\ f # NULL /\ f \notin u.free
  BY Constants DEF Good, Accounted
<1>3. /\ r.free = u.free /\ r.ref = [u.ref EXCEPT ![f] = 1] /\ r.dir = u.dir
      /\ r.data = [u.data EXCEPT ![f] = value]
      /\ r.pt = u.pt /\ r.vma = u.vma /\ r.cache = u.cache
      /\ r.cr3 = u.cr3 /\ r.panic = u.panic
      /\ r.pte = [u.pte EXCEPT ![x][v] = Present(f, w)]
  BY <1>1, MemoryTypes DEF PageSet
<1>4. /\ Present(f, w) \in Entries /\ Present(f, w).is = "present" /\ Present(f, w).page = f
      /\ Present(f, w).write = w
  BY <1>2, Constants
<1>5. r.pte \in [Mm -> [VPage -> Entries]]
  BY <1>1, <1>3, <1>4, MemoryTypes
<1>6. r.ref \in [Frame -> Int] /\ r.data \in [Frame -> Int]
  BY <1>1, <1>2, <1>3, MemoryTypes
<1>7. r \in Memories
  <2>1. r = [u EXCEPT !.ref = r.ref, !.pte = r.pte, !.data = r.data]
    BY <1>1, <1>3, MemoryTypes DEF PageSet
  <2> QED
    BY <1>1, <1>5, <1>6, <2>1 DEF Memories
<1>8. \A y \in Mm, z \in VPage :
        r.pte[y][z] = IF y = x /\ z = v THEN Present(f, w) ELSE u.pte[y][z]
  BY <1>1, <1>3, MemoryTypes
<1>9. Pte(r, x, v) = Present(f, w) /\ PageAt(r, x, v) = f
  <2>1. Pte(r, x, v) = Present(f, w)
    BY <1>3, <1>8 DEF Pte
  <2> QED
    BY <1>4, <2>1 DEF PageAt
<1>10. ASSUME NEW y \in Mm, NEW z \in VPage, ~ (y = x /\ z = v)
       PROVE  Pte(r, y, z) = Pte(u, y, z) /\ PageAt(r, y, z) = PageAt(u, y, z)
  <2>1. Pte(r, y, z) = Pte(u, y, z)
    BY <1>3, <1>8, <1>10 DEF Pte
  <2> QED
    BY <2>1 DEF PageAt
<1> DEFINE o == <<"page", x, v>>
<1>11. o \in Owner /\ FrameOf(u)[o] = NULL
  BY Owners
<1>12. OwnerGets(u, r, o, f)
  <2>1. \A y \in Mm : r.dir[y] = IF o = <<"dir", y, 0>> THEN f ELSE u.dir[y]
    BY <1>3
  <2>2. \A y \in Mm, e \in Directory : r.pt[y][e] = IF o = <<"table", y, e>> THEN f ELSE u.pt[y][e]
    BY <1>3
  <2>3. \A y \in Mm, z \in VPage :
          PageAt(r, y, z) = IF o = <<"page", y, z>> THEN f ELSE PageAt(u, y, z)
    BY <1>9, <1>10
  <2> HIDE DEF o
  <2> QED
    BY <2>1, <2>2, <2>3 DEF OwnerGets
<1>13. Accounted(FrameOf(r), r.free, R \ {f})
  <2>1. Accounted(FrameOf(u), u.free, R)
    BY DEF Good
  <2> HIDE DEF o
  <2>2. Accounted(FrameOf(r), u.free, R \ {f})
    BY <1>11, <1>12, <2>1, OwnerGained
  <2> QED
    BY <1>3, <2>2
<1>18. \A y \in Mm, z \in VPage :
         PageAt(u, y, z) # NULL => PageAt(u, y, z) \in Frame /\ PageAt(u, y, z) # f
  BY MappedApart
<1>14. Referenced(r, R \ {f})
  <2>1. u.ref \in [Frame -> Int] /\ u.free \subseteq Frame /\ R \subseteq Frame
    BY <1>1, MemoryTypes DEF Good, Accounted
  <2>2. \A g \in Frame : r.ref[g] = IF g = f THEN 1 ELSE u.ref[g]
    BY <1>3, <2>1
  <2>4. /\ \A g \in u.free \cup R : u.ref[g] = 0
        /\ \A y \in Mm, z \in VPage : PageAt(u, y, z) # NULL => u.ref[PageAt(u, y, z)] = 1
    BY DEF Good, Referenced
  <2>5. \A g \in r.free \cup (R \ {f}) : r.ref[g] = 0
    BY <1>2, <1>3, <2>1, <2>2, <2>4
  <2>6. ASSUME NEW y \in Mm, NEW z \in VPage, PageAt(r, y, z) # NULL
        PROVE  r.ref[PageAt(r, y, z)] = 1
    <3>1. CASE y = x /\ z = v
      BY <1>2, <1>9, <2>2, <3>1
    <3>2. CASE ~ (y = x /\ z = v)
      BY <1>10, <1>18, <2>2, <2>4, <2>6, <3>2
    <3> QED
      BY <3>1, <3>2
  <2> QED
    BY <2>5, <2>6 DEF Referenced
<1>15. ASSUME NEW y \in Mm PROVE SpaceSound(r, y)
  <2>1. SpaceSound(u, y)
    BY DEF Good
  <2>2. ASSUME NEW z \in VPage, PageAt(r, y, z) # NULL
        PROVE  InSome(r.vma[y], z, Pte(r, y, z).write)
    <3>1. CASE y = x /\ z = v
      BY <1>3, <1>4, <1>9, <3>1
    <3>2. CASE ~ (y = x /\ z = v)
      BY <1>3, <1>10, <2>1, <2>2, <3>2 DEF SpaceSound
    <3> QED
      BY <3>1, <3>2
  <2> QED
    BY <1>3, <2>1, <2>2 DEF SpaceSound
<1>16. r.panic = "no"
  BY <1>3 DEF Good
<1>17. Good(r, R \ {f})
  BY <1>7, <1>13, <1>14, <1>15, <1>16 DEF Good
<1>19. \A g \in Frame : r.data[g] = IF g = f THEN value ELSE u.data[g]
  BY <1>1, <1>3, MemoryTypes
<1>20. Content(r, x, v) = value
  BY <1>2, <1>9, <1>19 DEF Content
<1>21. ASSUME NEW y \in Mm, NEW z \in VPage, ~ (y = x /\ z = v)
       PROVE  Content(r, y, z) = Content(u, y, z)
  BY <1>10, <1>18, <1>19, <1>21 DEF Content
<1>22. Kept(u, r, x, v)
  BY <1>3, <1>10, <1>21 DEF Kept
<1> QED
  BY <1>3, <1>9, <1>17, <1>20, <1>22

\* The page at v, in frame f, is taken out.
PageUnset(u, x, v, f) == [u EXCEPT !.pte[x][v] = Absent, !.ref[f] = 0]

\* A page is no longer mapped.
LEMMA PageLost ==
  ASSUME NEW u, NEW R, Good(u, R), NEW x \in Mm, NEW v \in VPage,
         NEW f, f = PageAt(u, x, v), f # NULL,
         NEW r, r = PageUnset(u, x, v, f)
  PROVE  /\ Good(r, R \cup {f})
         /\ Kept(u, r, x, v) /\ r.pt = u.pt /\ PageAt(r, x, v) = NULL
<1>1. u \in Memories
  BY DEF Good
<1>2. f \in Frame /\ f \notin u.free \cup R
  BY MappedApart
<1>3. /\ r.free = u.free /\ r.ref = [u.ref EXCEPT ![f] = 0] /\ r.dir = u.dir
      /\ r.data = u.data
      /\ r.pt = u.pt /\ r.vma = u.vma /\ r.cache = u.cache
      /\ r.cr3 = u.cr3 /\ r.panic = u.panic
      /\ r.pte = [u.pte EXCEPT ![x][v] = Absent]
  BY <1>1, MemoryTypes DEF PageUnset
<1>4. Absent \in Entries /\ Absent.is = "absent"
  BY Constants
<1>5. r.pte \in [Mm -> [VPage -> Entries]]
  BY <1>1, <1>3, <1>4, MemoryTypes
<1>6. r.ref \in [Frame -> Int]
  BY <1>1, <1>2, <1>3, MemoryTypes
<1>7. r \in Memories
  <2>1. r = [u EXCEPT !.pte = r.pte, !.ref = r.ref]
    BY <1>1, <1>3, MemoryTypes DEF PageUnset
  <2> QED
    BY <1>1, <1>5, <1>6, <2>1 DEF Memories
<1>8. \A y \in Mm, z \in VPage :
        r.pte[y][z] = IF y = x /\ z = v THEN Absent ELSE u.pte[y][z]
  BY <1>1, <1>3, MemoryTypes
<1>9. PageAt(r, x, v) = NULL
  <2>1. Pte(r, x, v) = Absent
    BY <1>3, <1>8 DEF Pte
  <2> QED
    BY <1>4, <2>1 DEF PageAt
<1>10. ASSUME NEW y \in Mm, NEW z \in VPage, ~ (y = x /\ z = v)
       PROVE  Pte(r, y, z) = Pte(u, y, z) /\ PageAt(r, y, z) = PageAt(u, y, z)
  <2>1. Pte(r, y, z) = Pte(u, y, z)
    BY <1>3, <1>8, <1>10 DEF Pte
  <2> QED
    BY <2>1 DEF PageAt
<1> DEFINE o == <<"page", x, v>>
<1>11. o \in Owner /\ FrameOf(u)[o] = f
  BY Owners
<1>12. OwnerGets(u, r, o, NULL)
  <2>1. \A y \in Mm : r.dir[y] = IF o = <<"dir", y, 0>> THEN NULL ELSE u.dir[y]
    BY <1>3
  <2>2. \A y \in Mm, e \in Directory :
        r.pt[y][e] = IF o = <<"table", y, e>> THEN NULL ELSE u.pt[y][e]
    BY <1>3
  <2>3. \A y \in Mm, z \in VPage :
          PageAt(r, y, z) = IF o = <<"page", y, z>> THEN NULL ELSE PageAt(u, y, z)
    BY <1>9, <1>10
  <2> HIDE DEF o
  <2> QED
    BY <2>1, <2>2, <2>3 DEF OwnerGets
<1>13. Accounted(FrameOf(r), r.free, R \cup {f})
  <2>1. Accounted(FrameOf(u), u.free, R)
    BY DEF Good
  <2> HIDE DEF o
  <2>2. Accounted(FrameOf(r), u.free, R \cup {FrameOf(u)[o]})
    BY <1>11, <1>12, <2>1, OwnerLost
  <2> QED
    BY <1>3, <1>11, <2>2
<1>14. \A y \in Mm, z \in VPage :
         PageAt(u, y, z) # NULL /\ ~ (y = x /\ z = v) =>
           PageAt(u, y, z) \in Frame /\ PageAt(u, y, z) # f
  <2> SUFFICES ASSUME NEW y \in Mm, NEW z \in VPage,
                      PageAt(u, y, z) # NULL, ~ (y = x /\ z = v)
               PROVE  PageAt(u, y, z) \in Frame /\ PageAt(u, y, z) # f
    OBVIOUS
  <2> DEFINE q == <<"page", y, z>>
  <2>1. q \in Owner /\ FrameOf(u)[q] = PageAt(u, y, z) /\ q # o
    BY Owners
  <2> HIDE DEF q, o
  <2>2. Accounted(FrameOf(u), u.free, R)
    BY DEF Good
  <2>3. PageAt(u, y, z) # f
    BY <1>11, <2>1, <2>2 DEF Accounted
  <2> QED
    BY <2>3, MappedApart
<1>15. Referenced(r, R \cup {f})
  <2>1. u.ref \in [Frame -> Int] /\ u.free \subseteq Frame /\ R \subseteq Frame
    BY <1>1, MemoryTypes DEF Good, Accounted
  <2>2. \A g \in Frame : r.ref[g] = IF g = f THEN 0 ELSE u.ref[g]
    BY <1>3, <2>1
  <2>4. /\ \A g \in u.free \cup R : u.ref[g] = 0
        /\ \A y \in Mm, z \in VPage : PageAt(u, y, z) # NULL => u.ref[PageAt(u, y, z)] = 1
    BY DEF Good, Referenced
  <2>5. \A g \in r.free \cup (R \cup {f}) : r.ref[g] = 0
    BY <1>2, <1>3, <2>1, <2>2, <2>4
  <2>6. ASSUME NEW y \in Mm, NEW z \in VPage, PageAt(r, y, z) # NULL
        PROVE  r.ref[PageAt(r, y, z)] = 1
    <3>1. ~ (y = x /\ z = v)
      BY <1>9, <2>6
    <3> QED
      BY <1>10, <1>14, <2>2, <2>4, <2>6, <3>1
  <2> QED
    BY <2>5, <2>6 DEF Referenced
<1>16. ASSUME NEW y \in Mm PROVE SpaceSound(r, y)
  <2>1. SpaceSound(u, y)
    BY DEF Good
  <2>2. ASSUME NEW z \in VPage, PageAt(r, y, z) # NULL
        PROVE  InSome(r.vma[y], z, Pte(r, y, z).write)
    <3>1. ~ (y = x /\ z = v)
      BY <1>9, <2>2
    <3> QED
      BY <1>3, <1>10, <2>1, <2>2, <3>1 DEF SpaceSound
  <2> QED
    BY <1>3, <2>1, <2>2 DEF SpaceSound
<1>17. r.panic = "no"
  BY <1>3 DEF Good
<1>18. Good(r, R \cup {f})
  BY <1>7, <1>13, <1>15, <1>16, <1>17 DEF Good
<1>19. ASSUME NEW y \in Mm, NEW z \in VPage, ~ (y = x /\ z = v)
       PROVE  Content(r, y, z) = Content(u, y, z)
  BY <1>3, <1>10, <1>19 DEF Content
<1>20. Kept(u, r, x, v)
  BY <1>3, <1>10, <1>19 DEF Kept
<1> QED
  BY <1>3, <1>9, <1>18, <1>20

\* The page table f is taken out.
TableUnset(u, x, d, f) == [u EXCEPT !.pt[x][d] = NULL, !.ref[f] = 0]

\* A page table that maps no page is taken out.
LEMMA TableLost ==
  ASSUME NEW u, NEW R, Good(u, R), NEW x \in Mm, NEW d \in Directory,
         NEW f, f = u.pt[x][d], f # NULL,
         \A v \in VPage : PDX(v) = d => PageAt(u, x, v) = NULL,
         NEW r, r = TableUnset(u, x, d, f)
  PROVE  /\ Good(r, R \cup {f})
         /\ KeptAll(u, r) /\ r.pt[x][d] = NULL
         /\ \A y \in Mm, c \in Directory : ~ (y = x /\ c = d) => r.pt[y][c] = u.pt[y][c]
<1>1. u \in Memories
  BY DEF Good
<1>2. f \in Frame
  BY <1>1, MemoryTypes
<1>3. /\ r.free = u.free /\ r.ref = [u.ref EXCEPT ![f] = 0] /\ r.data = u.data /\ r.dir = u.dir
      /\ r.pt = [u.pt EXCEPT ![x][d] = NULL] /\ r.vma = u.vma /\ r.cache = u.cache
      /\ r.cr3 = u.cr3 /\ r.panic = u.panic /\ r.pte = u.pte
  BY <1>1, MemoryTypes DEF TableUnset
<1>4. r.pt \in [Mm -> [Directory -> Frame \cup {NULL}]]
  BY <1>1, <1>3, MemoryTypes
<1>6. r.ref \in [Frame -> Int]
  BY <1>1, <1>2, <1>3, MemoryTypes
<1>7. r \in Memories
  <2>1. r = [u EXCEPT !.pt = r.pt, !.ref = r.ref]
    BY <1>1, <1>3, MemoryTypes DEF TableUnset
  <2> QED
    BY <1>1, <1>4, <1>6, <2>1 DEF Memories
<1>8. \A y \in Mm, e \in Directory : r.pt[y][e] = IF y = x /\ e = d THEN NULL ELSE u.pt[y][e]
  BY <1>1, <1>3, MemoryTypes
<1>10. ASSUME NEW y \in Mm, NEW v \in VPage
       PROVE  Pte(r, y, v) = Pte(u, y, v) /\ PageAt(r, y, v) = PageAt(u, y, v)
  <2>1. PDX(v) \in Directory
    BY Constants
  <2>2. Pte(r, y, v) = Pte(u, y, v)
    <3>1. CASE y = x /\ PDX(v) = d
      <4>1. Pte(u, y, v) = Absent
        BY <3>1, EntryFound, <1>1
      <4>2. Pte(r, y, v) = Absent
        BY <1>8, <3>1 DEF Pte
      <4> QED
        BY <4>1, <4>2
    <3>2. CASE ~ (y = x /\ PDX(v) = d)
      BY <1>3, <1>8, <2>1, <3>2 DEF Pte
    <3> QED
      BY <3>1, <3>2
  <2> QED
    BY <2>2 DEF PageAt
<1> DEFINE o == <<"table", x, d>>
<1>11. o \in Owner /\ FrameOf(u)[o] = f
  BY Owners
<1>12. OwnerGets(u, r, o, NULL)
  <2>1. \A y \in Mm : r.dir[y] = IF o = <<"dir", y, 0>> THEN NULL ELSE u.dir[y]
    BY <1>3
  <2>2. \A y \in Mm, e \in Directory :
        r.pt[y][e] = IF o = <<"table", y, e>> THEN NULL ELSE u.pt[y][e]
    BY <1>8
  <2>3. \A y \in Mm, v \in VPage :
          PageAt(r, y, v) = IF o = <<"page", y, v>> THEN NULL ELSE PageAt(u, y, v)
    BY <1>10
  <2> HIDE DEF o
  <2> QED
    BY <2>1, <2>2, <2>3 DEF OwnerGets
<1>13. Accounted(FrameOf(r), r.free, R \cup {f})
  <2>1. Accounted(FrameOf(u), u.free, R)
    BY DEF Good
  <2> HIDE DEF o
  <2>2. Accounted(FrameOf(r), u.free, R \cup {FrameOf(u)[o]})
    BY <1>11, <1>12, <2>1, OwnerLost
  <2> QED
    BY <1>3, <1>11, <2>2
<1>14. \A y \in Mm, z \in VPage :
         PageAt(u, y, z) # NULL => PageAt(u, y, z) \in Frame /\ PageAt(u, y, z) # f
  <2> SUFFICES ASSUME NEW y \in Mm, NEW z \in VPage, PageAt(u, y, z) # NULL
               PROVE  PageAt(u, y, z) \in Frame /\ PageAt(u, y, z) # f
    OBVIOUS
  <2> DEFINE q == <<"page", y, z>>
  <2>1. q \in Owner /\ FrameOf(u)[q] = PageAt(u, y, z) /\ q # o
    BY Owners
  <2> HIDE DEF q, o
  <2>2. Accounted(FrameOf(u), u.free, R)
    BY DEF Good
  <2>3. PageAt(u, y, z) # f
    BY <1>11, <2>1, <2>2 DEF Accounted
  <2> QED
    BY <2>3, MappedApart
<1>15. Referenced(r, R \cup {f})
  <2>1. u.ref \in [Frame -> Int] /\ u.free \subseteq Frame /\ R \subseteq Frame
    BY <1>1, MemoryTypes DEF Good, Accounted
  <2>2. \A g \in Frame : r.ref[g] = IF g = f THEN 0 ELSE u.ref[g]
    BY <1>3, <2>1
  <2>4. /\ \A g \in u.free \cup R : u.ref[g] = 0
        /\ \A y \in Mm, z \in VPage : PageAt(u, y, z) # NULL => u.ref[PageAt(u, y, z)] = 1
    BY DEF Good, Referenced
  <2>5. \A g \in r.free \cup (R \cup {f}) : r.ref[g] = 0
    BY <1>2, <1>3, <2>1, <2>2, <2>4
  <2>6. \A y \in Mm, z \in VPage : PageAt(r, y, z) # NULL => r.ref[PageAt(r, y, z)] = 1
    BY <1>10, <1>14, <2>2, <2>4
  <2> QED
    BY <2>5, <2>6 DEF Referenced
<1>16. ASSUME NEW y \in Mm PROVE SpaceSound(r, y)
  <2>1. SpaceSound(u, y)
    BY DEF Good
  <2>2. \A v \in VPage : Pte(r, y, v) = Pte(u, y, v) /\ PageAt(r, y, v) = PageAt(u, y, v)
    BY <1>10
  <2>3. \A e \in Directory : r.pt[y][e] # NULL => TableInSome(r.vma[y], e)
    BY <1>3, <1>8, <2>1 DEF SpaceSound
  <2> QED
    BY <1>3, <2>1, <2>2, <2>3 DEF SpaceSound
<1>17. r.panic = "no"
  BY <1>3 DEF Good
<1>18. Good(r, R \cup {f})
  BY <1>7, <1>13, <1>15, <1>16, <1>17 DEF Good
<1>19. KeptAll(u, r)
  BY <1>3, <1>10 DEF KeptAll, Content
<1> QED
  BY <1>3, <1>8, <1>18, <1>19

\* Without a page directory there are no page tables and no pages.
LEMMA NoDirectory ==
  ASSUME NEW u, NEW R, Good(u, R), NEW x \in Mm, u.dir[x] = NULL
  PROVE  /\ u.vma[x] = <<>> /\ u.pt[x] = NoTables
         /\ \A v \in VPage : PageAt(u, x, v) = NULL
<1>1. SpaceSound(u, x) /\ u \in Memories
  BY DEF Good
<1>2. u.vma[x] = <<>>
  BY <1>1 DEF SpaceSound
<1>3. Len(<<>>) = 0
  OBVIOUS
<1>4. \A d : ~ TableInSome(u.vma[x], d)
  BY <1>2, <1>3 DEF TableInSome
<1>5. \A d \in Directory : u.pt[x][d] = NULL
  BY <1>1, <1>4 DEF SpaceSound
<1>6. u.pt[x] \in [Directory -> Frame \cup {NULL}]
  BY <1>1, MemoryTypes
<1>7. u.pt[x] = NoTables
  BY <1>5, <1>6, Constants
<1>8. ASSUME NEW v \in VPage PROVE PageAt(u, x, v) = NULL
  BY <1>1, <1>5, EntryFound, Constants
<1> QED
  BY <1>2, <1>7, <1>8

\* Frame f becomes a page directory.
DirSet(u, x, f) == [u EXCEPT !.dir[x] = f, !.pt[x] = NoTables]

\* setup_pgdir.
LEMMA DirAdded ==
  ASSUME NEW u, NEW R, Good(u, R), NEW x \in Mm, u.dir[x] = NULL, NEW f \in R,
         NEW r, r = DirSet(u, x, f)
  PROVE  /\ Good(r, R \ {f})
         /\ r.dir[x] = f /\ Others(u, r, x)
<1>1. u \in Memories
  BY DEF Good
<1>2. f \in Frame /\ f # NULL
  BY Constants DEF Good, Accounted
<1>0. u.pt[x] = NoTables /\ u.vma[x] = <<>>
  BY NoDirectory
<1>3. /\ r.free = u.free /\ r.ref = u.ref /\ r.dir = [u.dir EXCEPT ![x] = f]
      /\ r.data = u.data /\ r.pt = u.pt /\ r.vma = u.vma /\ r.cache = u.cache
      /\ r.cr3 = u.cr3 /\ r.panic = u.panic /\ r.pte = u.pte
  BY <1>0, <1>1, MemoryTypes DEF DirSet
<1>4. r.dir \in [Mm -> Frame \cup {NULL}]
  BY <1>1, <1>2, <1>3, MemoryTypes
<1>7. r \in Memories
  <2>1. r = [u EXCEPT !.dir = r.dir]
    BY <1>0, <1>1, <1>3, MemoryTypes DEF DirSet
  <2> QED
    BY <1>1, <1>4, <2>1 DEF Memories
<1>8. \A y \in Mm : r.dir[y] = IF y = x THEN f ELSE u.dir[y]
  BY <1>1, <1>3, MemoryTypes
<1>10. /\ \A y, v : Pte(r, y, v) = Pte(u, y, v)
       /\ \A y, v : PageAt(r, y, v) = PageAt(u, y, v)
  <2>1. r.pt = u.pt /\ r.pte = u.pte
    BY <1>3
  <2>2. \A y, v : Pte(r, y, v) = Pte(u, y, v)
    BY <2>1 DEF Pte
  <2> QED
    BY <2>2 DEF PageAt
<1> DEFINE o == <<"dir", x, 0>>
<1>11. o \in Owner /\ FrameOf(u)[o] = NULL
  BY Owners
<1>12. OwnerGets(u, r, o, f)
  <2>1. \A y \in Mm : r.dir[y] = IF o = <<"dir", y, 0>> THEN f ELSE u.dir[y]
    BY <1>8
  <2>2. \A y \in Mm, e \in Directory : r.pt[y][e] = IF o = <<"table", y, e>> THEN f ELSE u.pt[y][e]
    BY <1>3
  <2>3. \A y \in Mm, z \in VPage :
          PageAt(r, y, z) = IF o = <<"page", y, z>> THEN f ELSE PageAt(u, y, z)
    BY <1>10
  <2> HIDE DEF o
  <2> QED
    BY <2>1, <2>2, <2>3 DEF OwnerGets
<1>13. Accounted(FrameOf(r), r.free, R \ {f})
  <2>1. Accounted(FrameOf(u), u.free, R)
    BY DEF Good
  <2> HIDE DEF o
  <2>2. Accounted(FrameOf(r), u.free, R \ {f})
    BY <1>11, <1>12, <2>1, OwnerGained
  <2> QED
    BY <1>3, <2>2
<1>14. Referenced(r, R \ {f})
  BY <1>3, <1>10 DEF Good, Referenced
<1>15. ASSUME NEW y \in Mm PROVE SpaceSound(r, y)
  <2>1. SpaceSound(u, y)
    BY DEF Good
  <2>2. r.dir[y] = NULL => u.vma[y] = <<>>
    BY <1>0, <1>8, <2>1 DEF SpaceSound
  <2> QED
    BY <1>3, <1>10, <2>1, <2>2 DEF SpaceSound
<1>16. r.panic = "no"
  BY <1>3 DEF Good
<1>17. Good(r, R \ {f})
  BY <1>7, <1>13, <1>14, <1>15, <1>16 DEF Good
<1>18. Others(u, r, x)
  BY <1>3, <1>8, <1>10 DEF Others, Content
<1> QED
  BY <1>8, <1>17, <1>18

\* The page directory f is taken out, with all areas.
DirUnset(u, x, f) ==
  [u EXCEPT !.dir[x] = NULL, !.vma[x] = <<>>, !.cache[x] = NULL, !.ref[f] = 0]

\* put_pgdir and mm_destroy, when there are no page tables left.
LEMMA DirLost ==
  ASSUME NEW u, NEW R, Good(u, R), NEW x \in Mm,
         NEW f, f = u.dir[x], f # NULL, \A d \in Directory : u.pt[x][d] = NULL,
         NEW r, r = DirUnset(u, x, f)
  PROVE  /\ Good(r, R \cup {f})
         /\ r.dir[x] = NULL /\ Others(u, r, x)
<1>1. u \in Memories
  BY DEF Good
<1>2. f \in Frame
  BY <1>1, MemoryTypes
<1>3. /\ r.free = u.free /\ r.ref = [u.ref EXCEPT ![f] = 0] /\ r.dir = [u.dir EXCEPT ![x] = NULL]
      /\ r.data = u.data /\ r.pt = u.pt /\ r.vma = [u.vma EXCEPT ![x] = <<>>]
      /\ r.cache = [u.cache EXCEPT ![x] = NULL]
      /\ r.cr3 = u.cr3 /\ r.panic = u.panic /\ r.pte = u.pte
  BY <1>1, MemoryTypes DEF DirUnset
<1>4. /\ r.dir \in [Mm -> Frame \cup {NULL}] /\ r.ref \in [Frame -> Int]
      /\ r.vma \in [Mm -> Seq(AreaType)] /\ r.cache \in [Mm -> AreaType \cup {NULL}]
  BY <1>1, <1>2, <1>3, MemoryTypes
<1>7. r \in Memories
  <2>1. r = [u EXCEPT !.dir = r.dir, !.vma = r.vma, !.cache = r.cache, !.ref = r.ref]
    BY <1>1, <1>3, MemoryTypes DEF DirUnset
  <2> QED
    BY <1>1, <1>4, <2>1 DEF Memories
<1>8. /\ \A y \in Mm : r.dir[y] = IF y = x THEN NULL ELSE u.dir[y]
      /\ \A y \in Mm : r.vma[y] = IF y = x THEN <<>> ELSE u.vma[y]
      /\ \A y \in Mm : r.cache[y] = IF y = x THEN NULL ELSE u.cache[y]
  BY <1>1, <1>3, MemoryTypes
<1>10. /\ \A y, v : Pte(r, y, v) = Pte(u, y, v)
       /\ \A y, v : PageAt(r, y, v) = PageAt(u, y, v)
  <2>1. r.pt = u.pt /\ r.pte = u.pte
    BY <1>3
  <2>2. \A y, v : Pte(r, y, v) = Pte(u, y, v)
    BY <2>1 DEF Pte
  <2> QED
    BY <2>2 DEF PageAt
<1> DEFINE o == <<"dir", x, 0>>
<1>11. o \in Owner /\ FrameOf(u)[o] = f
  BY Owners
<1>12. OwnerGets(u, r, o, NULL)
  <2>1. \A y \in Mm : r.dir[y] = IF o = <<"dir", y, 0>> THEN NULL ELSE u.dir[y]
    BY <1>8
  <2>2. \A y \in Mm, e \in Directory :
        r.pt[y][e] = IF o = <<"table", y, e>> THEN NULL ELSE u.pt[y][e]
    BY <1>3
  <2>3. \A y \in Mm, z \in VPage :
          PageAt(r, y, z) = IF o = <<"page", y, z>> THEN NULL ELSE PageAt(u, y, z)
    BY <1>10
  <2> HIDE DEF o
  <2> QED
    BY <2>1, <2>2, <2>3 DEF OwnerGets
<1>13. Accounted(FrameOf(r), r.free, R \cup {f})
  <2>1. Accounted(FrameOf(u), u.free, R)
    BY DEF Good
  <2> HIDE DEF o
  <2>2. Accounted(FrameOf(r), u.free, R \cup {FrameOf(u)[o]})
    BY <1>11, <1>12, <2>1, OwnerLost
  <2> QED
    BY <1>3, <1>11, <2>2
<1>14. \A y \in Mm, z \in VPage :
         PageAt(u, y, z) # NULL => PageAt(u, y, z) \in Frame /\ PageAt(u, y, z) # f
  <2> SUFFICES ASSUME NEW y \in Mm, NEW z \in VPage, PageAt(u, y, z) # NULL
               PROVE  PageAt(u, y, z) \in Frame /\ PageAt(u, y, z) # f
    OBVIOUS
  <2> DEFINE q == <<"page", y, z>>
  <2>1. q \in Owner /\ FrameOf(u)[q] = PageAt(u, y, z) /\ q # o
    BY Owners
  <2> HIDE DEF q, o
  <2>2. Accounted(FrameOf(u), u.free, R)
    BY DEF Good
  <2>3. PageAt(u, y, z) # f
    BY <1>11, <2>1, <2>2 DEF Accounted
  <2> QED
    BY <2>3, MappedApart
<1>15. Referenced(r, R \cup {f})
  <2>1. u.ref \in [Frame -> Int] /\ u.free \subseteq Frame /\ R \subseteq Frame
    BY <1>1, MemoryTypes DEF Good, Accounted
  <2>2. \A g \in Frame : r.ref[g] = IF g = f THEN 0 ELSE u.ref[g]
    BY <1>3, <2>1
  <2>4. /\ \A g \in u.free \cup R : u.ref[g] = 0
        /\ \A y \in Mm, z \in VPage : PageAt(u, y, z) # NULL => u.ref[PageAt(u, y, z)] = 1
    BY DEF Good, Referenced
  <2>5. \A g \in r.free \cup (R \cup {f}) : r.ref[g] = 0
    BY <1>2, <1>3, <2>1, <2>2, <2>4
  <2>6. \A y \in Mm, z \in VPage : PageAt(r, y, z) # NULL => r.ref[PageAt(r, y, z)] = 1
    BY <1>10, <1>14, <2>2, <2>4
  <2> QED
    BY <2>5, <2>6 DEF Referenced
<1>16. ASSUME NEW y \in Mm PROVE SpaceSound(r, y)
  <2>1. SpaceSound(u, y)
    BY DEF Good
  <2>2. CASE y # x
    <3>1. r.dir[y] = u.dir[y] /\ r.vma[y] = u.vma[y] /\ r.cache[y] = u.cache[y]
      BY <1>8, <2>2
    <3>2. r.pt[y] = u.pt[y] /\ r.pte[y] = u.pte[y]
      BY <1>3
    <3> QED
      BY <2>1, <3>1, <3>2, SameSpace
  <2>3. CASE y = x
    <3>1. r.vma[x] = <<>> /\ r.cache[x] = NULL /\ Len(<<>>) = 0
      BY <1>8
    <3>2. AreasSorted(r.vma[x])
      BY <3>1 DEF AreasSorted
    <3>3. \A d \in Directory : r.pt[x][d] = NULL
      BY <1>3
    <3>4. ASSUME NEW v \in VPage PROVE PageAt(r, x, v) = NULL
      <4>1. PDX(v) \in Directory
        BY Constants
      <4>2. Pte(r, x, v) = Absent
        BY <3>3, <4>1 DEF Pte
      <4> QED
        BY <4>2, Constants DEF PageAt
    <3> QED
      BY <2>3, <3>1, <3>2, <3>3, <3>4 DEF SpaceSound
  <2> QED
    BY <2>2, <2>3
<1>17. r.panic = "no"
  BY <1>3 DEF Good
<1>18. Good(r, R \cup {f})
  BY <1>7, <1>13, <1>15, <1>16, <1>17 DEF Good
<1>19. Others(u, r, x)
  BY <1>3, <1>8, <1>10 DEF Others, Content
<1> QED
  BY <1>8, <1>18, <1>19

----------------------------------------------------------------------------
(* Page tables and pages, one at a time.                                   *)

\* A page in an area has its page table in that area.
LEMMA TableOfPage ==
  ASSUME NEW s \in Seq(AreaType), NEW v \in VPage, NEW w, InSome(s, v, w)
  PROVE  TableInSome(s, PDX(v))
<1>1. PICK i \in 1 .. Len(s) : InArea(s[i], v)
  BY DEF InSome
<1>2. s[i] \in AreaType /\ v \in Nat
  BY Constants
<1> DEFINE lo == s[i].start
           hi == s[i].end - 1
<1>3. lo \in Nat /\ hi \in Nat /\ lo <= v /\ v <= hi
  BY <1>1, <1>2 DEF AreaType, VPage, InArea
<1> HIDE DEF lo, hi
<1>4. PDX(lo) <= PDX(v)
  BY <1>2, <1>3, PdxUp
<1>5. PDX(v) <= PDX(hi)
  BY <1>2, <1>3, PdxUp
<1> QED
  BY <1>4, <1>5 DEF TableInSome, lo, hi

\* get_pte.
LEMMA GetPteGood ==
  ASSUME NEW u, NEW R, Good(u, R), NEW x \in Mm, NEW v \in VPage,
         TableInSome(u.vma[x], PDX(v))
  PROVE  \/ Oom(GetPte(u, x, v))
         \/ /\ Good(GetPte(u, x, v), R) /\ GetPte(u, x, v).pt[x][PDX(v)] # NULL
            /\ KeptAll(u, GetPte(u, x, v)) /\ GetPte(u, x, v).data = u.data
<1> DEFINE d == PDX(v)
           r == GetPte(u, x, v)
<1>1. CASE u.pt[x][d] # NULL
  <2>1. r = u
    BY <1>1 DEF GetPte
  <2> QED
    BY <1>1, <2>1 DEF KeptAll
<1>2. CASE u.pt[x][d] = NULL
  <2> DEFINE a == Alloc(u, 1)
             g == a.mem
             f == a.page
  <2>1. r = WithTable(a, x, v)
    BY <1>2 DEF GetPte
  <2>2. \/ f = NULL /\ Oom(g)
        \/ /\ f \in Frame /\ f # NULL /\ f \notin R /\ Good(g, R \cup {f})
           /\ KeptAll(u, g) /\ g.pt = u.pt /\ g.data = u.data
    BY AllocOne
  <2>0. d \in Directory
    BY Constants
  <2> HIDE DEF a
  <2>3. CASE f = NULL /\ Oom(g)
    BY <2>1, <2>3 DEF WithTable
  <2>4. CASE /\ f \in Frame /\ f # NULL /\ f \notin R /\ Good(g, R \cup {f})
             /\ KeptAll(u, g) /\ g.pt = u.pt /\ g.data = u.data
    <3> DEFINE Q == R \cup {f}
               e == [w \in VPage |-> IF PDX(w) = d THEN Absent ELSE g.pte[x][w]]
               t == TableSet(g, x, d, f, e)
    <3>1. r = t
      BY <2>1, <2>4 DEF WithTable, TableSet
    <3>0. /\ e \in [VPage -> Entries]
          /\ \A w \in VPage : e[w] = IF PDX(w) = d THEN Absent ELSE g.pte[x][w]
      <4>1. g.pte \in [Mm -> [VPage -> Entries]]
        BY <2>4, MemoryTypes DEF Good
      <4> QED
        BY <4>1, Constants
    <3> HIDE DEF g, f, d, e, r
    <3>2. /\ g.pt[x][d] = NULL /\ TableInSome(g.vma[x], d)
          /\ f \in Q /\ Good(g, Q)
      BY <1>2, <2>4 DEF KeptAll, d
    <3> HIDE DEF Q
    <3>9. t = TableSet(g, x, d, f, e)
      OBVIOUS
    <3> HIDE DEF t
    <3>10. Good(t, Q \ {f})
      BY <2>0, <3>0, <3>2, <3>9, TableAdded
    <3>3. /\ Good(t, Q \ {f})
          /\ KeptAll(g, t) /\ t.data = g.data /\ t.pt[x][d] = f
      BY <2>0, <3>0, <3>2, <3>9, <3>10, TableAdded
    <3>4. Q \ {f} = R
      BY <2>4 DEF Q
    <3>6. KeptAll(u, t)
      BY <2>4, <3>3 DEF KeptAll
    <3>7. t.pt[x][d] # NULL
      BY <2>4, <3>3
    <3> QED
      BY <2>4, <3>1, <3>3, <3>4, <3>6, <3>7 DEF d, r
  <2> QED
    BY <2>2, <2>3, <2>4
<1> QED
  BY <1>1, <1>2

\* Frame f is mapped at v.
EntrySet(u, x, v, f, w) == [u EXCEPT !.ref[f] = 1, !.pte[x][v] = Present(f, w)]

\* page_insert of a frame that nobody uses, where no page is.
LEMMA PageInserted ==
  ASSUME NEW u, NEW x \in Mm, NEW v \in VPage, NEW f \in Frame, NEW w,
         GetPte(u, x, v) \in Memories, GetPte(u, x, v).ref[f] = 0,
         PageAt(GetPte(u, x, v), x, v) = NULL
  PROVE  PageInsert(u, x, f, v, w) = EntrySet(GetPte(u, x, v), x, v, f, w)
<1> DEFINE g == GetPte(u, x, v)
<1>0. g \in Memories /\ g.ref[f] = 0 /\ PageAt(g, x, v) = NULL
  OBVIOUS
<1> HIDE DEF g
<1> DEFINE h == [g EXCEPT !.ref[f] = @ + 1]
<1>1. Pte(g, x, v).is # "present" /\ Pte(h, x, v).is # "present"
  <2>1. h.pt = g.pt /\ h.pte = g.pte
    BY <1>0, MemoryTypes
  <2>2. Pte(h, x, v) = Pte(g, x, v)
    BY <2>1 DEF Pte
  <2> QED
    BY <1>0, <2>2, EntryFound
<1>2. Replace(g, x, f, v) = h
  <2> HIDE DEF h
  <2>1. PageRemovePte(h, x, v) = h
    BY <1>1 DEF PageRemovePte
  <2> QED
    BY <1>1, <2>1 DEF Replace, h
<1>3. h = [g EXCEPT !.ref[f] = 1]
  BY <1>0, MemoryTypes
<1>4. PageInsert(u, x, f, v, w) = [h EXCEPT !.pte[x][v] = Present(f, w)]
  BY <1>2 DEF PageInsert, g
<1> QED
  BY <1>3, <1>4 DEF g, EntrySet

\* pgdir_alloc_page in an area, where no page is.
LEMMA PageAllocated ==
  ASSUME NEW u, NEW R, Good(u, R), NEW x \in Mm, NEW v \in VPage, NEW w \in BOOLEAN,
         NEW value \in Int, PageAt(u, x, v) = NULL, InSome(u.vma[x], v, w)
  PROVE  \/ Oom(PgdirAllocPage(u, x, v, w, value))
         \/ /\ Good(PgdirAllocPage(u, x, v, w, value), R)
            /\ Kept(u, PgdirAllocPage(u, x, v, w, value), x, v)
            /\ PageAt(PgdirAllocPage(u, x, v, w, value), x, v) # NULL
            /\ Content(PgdirAllocPage(u, x, v, w, value), x, v) = value
            /\ Pte(PgdirAllocPage(u, x, v, w, value), x, v).write = w
<1> DEFINE a == Alloc(u, 1)
           f == a.page
           Q == R \cup {f}
           r == PgdirAllocPage(u, x, v, w, value)
           g == GetPte(a.mem, x, v)
<1>1. r = MapNew(a, x, v, w, value)
  BY DEF PgdirAllocPage
<1>2. \/ f = NULL /\ Oom(a.mem)
      \/ /\ f \in Frame /\ f # NULL /\ f \notin R /\ Good(a.mem, Q)
         /\ KeptAll(u, a.mem)
  BY AllocOne
<1> HIDE DEF a
<1>3. CASE f = NULL /\ Oom(a.mem)
  BY <1>1, <1>3 DEF MapNew
<1>4. CASE /\ f \in Frame /\ f # NULL /\ f \notin R /\ Good(a.mem, Q)
           /\ KeptAll(u, a.mem)
  <2> DEFINE p == PageInsert(a.mem, x, f, v, w)
             t == [p EXCEPT !.data[f] = value]
  <2>1. r = NewSwappable(t, v, f)
    BY <1>1, <1>4 DEF MapNew
  <2>2. TableInSome(a.mem.vma[x], PDX(v))
    <3>1. u.vma[x] \in Seq(AreaType)
      BY MemoryTypes DEF Good
    <3>2. TableInSome(u.vma[x], PDX(v))
      BY <3>1, TableOfPage
    <3> QED
      BY <1>4, <3>2 DEF KeptAll
  <2> HIDE DEF f, Q, r
  <2>3. Oom(g) \/ (Good(g, Q) /\ g.pt[x][PDX(v)] # NULL /\ KeptAll(a.mem, g))
    BY <1>4, <2>2, GetPteGood
  <2>6. g = GetPte(a.mem, x, v)
    OBVIOUS
  <2> HIDE DEF g
  <2>4. CASE Oom(g)
    <3>1. \A h : Oom(h) => Oom(PageRemovePte(h, x, v))
      BY OomTables
    <3>2. Oom([g EXCEPT !.ref[f] = @ + 1])
      BY <2>4 DEF Oom
    <3>3. Oom(Replace(g, x, f, v))
      BY <2>4, <3>1, <3>2 DEF Replace
    <3>4. Oom(p)
      BY <3>3 DEF PageInsert, Oom, g
    <3> HIDE DEF p
    <3>5. Oom(t)
      BY <3>4 DEF Oom
    <3> HIDE DEF t
    <3>6. Oom(NewSwappable(t, v, f))
      <4>1. Oom([MapSwappable(t, t.check, v, f) EXCEPT !.vaddr[f] = v])
        BY <3>5 DEF MapSwappable, Oom
      <4> QED
        BY <3>5, <4>1, OomChecked DEF NewSwappable
    <3> QED
      BY <2>1, <3>6 DEF r
  <2>5. CASE Good(g, Q) /\ g.pt[x][PDX(v)] # NULL /\ KeptAll(a.mem, g)
    <3>1. g \in Memories /\ g.check = NULL
      BY <2>5, MemoryTypes DEF Good
    <3>2. f \in Q /\ g.ref[f] = 0
      BY <2>5 DEF Q, Good, Referenced
    <3>3. /\ \A y \in Mm, z \in VPage :
               Pte(g, y, z) = Pte(u, y, z) /\ Content(g, y, z) = Content(u, y, z)
          /\ g.dir = u.dir /\ g.vma = u.vma /\ g.cache = u.cache /\ g.cr3 = u.cr3
      BY <1>4, <2>5 DEF KeptAll
    <3>4. PageAt(g, x, v) = NULL
      BY <3>3 DEF PageAt
    <3>5. p = [g EXCEPT !.ref[f] = 1, !.pte[x][v] = Present(f, w)]
      <4>1. p = EntrySet(g, x, v, f, w)
        BY <1>4, <2>6, <3>1, <3>2, <3>4, PageInserted
      <4> QED
        BY <4>1 DEF EntrySet
    <3>6. t = PageSet(g, x, v, f, w, value)
      BY <3>5 DEF PageSet
    <3> HIDE DEF p, t
    <3>7. InSome(g.vma[x], v, w)
      BY <3>3
    <3>8. Good(t, Q \ {f})
      BY <2>5, <3>2, <3>4, <3>6, <3>7, PageAdded
    <3>9. /\ Kept(g, t, x, v) /\ t.pt = g.pt
          /\ Pte(t, x, v) = Present(f, w) /\ Content(t, x, v) = value
      BY <2>5, <3>2, <3>4, <3>6, <3>7, <3>8, PageAdded
    <3>10. r = t
      <4>1. t.check = NULL
        BY <3>8, MemoryTypes DEF Good
      <4> QED
        BY <2>1, <4>1 DEF NewSwappable
    <3>11. Q \ {f} = R
      BY <1>4 DEF Q
    <3>12. Kept(u, t, x, v)
      BY <3>3, <3>9 DEF Kept
    <3>13. PageAt(t, x, v) # NULL /\ Pte(t, x, v).write = w
      BY <1>4, <3>9, Constants DEF PageAt
    <3> QED
      BY <3>8, <3>9, <3>10, <3>11, <3>12, <3>13 DEF r
  <2> QED
    BY <2>3, <2>4, <2>5
<1> QED
  BY <1>2, <1>3, <1>4

\* One round of copy_range, in an area of the child, where no page is.
LEMMA PageCopied ==
  ASSUME NEW u, NEW R, Good(u, R), NEW x \in Mm, NEW from \in Mm, NEW v \in VPage,
         PageAt(u, x, v) = NULL,
         PageAt(u, from, v) # NULL => InSome(u.vma[x], v, Pte(u, from, v).write)
  PROVE  \/ Oom(CopyPage(u, x, from, v))
         \/ /\ Good(CopyPage(u, x, from, v), R)
            /\ Kept(u, CopyPage(u, x, from, v), x, v)
            /\ Content(CopyPage(u, x, from, v), x, v) = Content(u, from, v)
<1> DEFINE e == Pte(u, from, v)
           r == CopyPage(u, x, from, v)
           g == GetPte(u, x, v)
           a == Alloc(g, 1)
           f == a.page
           Q == R \cup {f}
           value == u.data[e.page]
           d == [a.mem EXCEPT !.data[f] = value]
           p == PageInsert(d, x, f, v, e.write)
<1>0. u \in Memories
  BY DEF Good
<1>1. CASE e.is # "present"
  <2>1. r = u
    BY <1>1 DEF CopyPage
  <2>2. PageAt(u, from, v) = NULL
    BY <1>1 DEF PageAt
  <2>3. Content(u, x, v) = Content(u, from, v)
    BY <2>2 DEF Content
  <2> QED
    BY <2>1, <2>3 DEF Kept
<1>2. CASE e.is = "present"
  <2>1. r = IF f = NULL THEN Panic(a.mem, "assert") ELSE p
    BY <1>2 DEF CopyPage
  <2>2. /\ PageAt(u, from, v) = e.page /\ e.page \in Frame /\ e.page # NULL
        /\ e.write \in BOOLEAN
    BY <1>0, <1>2, EntryFound, Constants
  <2>3. InSome(u.vma[x], v, e.write)
    BY <2>2
  <2>4. TableInSome(u.vma[x], PDX(v))
    <3>1. u.vma[x] \in Seq(AreaType)
      BY <1>0, MemoryTypes
    <3> QED
      BY <2>3, <3>1, TableOfPage
  <2>5. value \in Int /\ Content(u, from, v) = value
    BY <1>0, <2>2, MemoryTypes DEF Content
  <2> HIDE DEF r, value
  <2>6. \/ Oom(g)
        \/ Good(g, R) /\ g.pt[x][PDX(v)] # NULL /\ KeptAll(u, g) /\ g.data = u.data
    BY <2>4, GetPteGood
  <2> HIDE DEF g
  <2>7. CASE Oom(g)
    <3>1. Oom(a.mem)
      BY <2>7, OomFrames
    <3> HIDE DEF a
    <3>2. Oom(d) /\ Oom(Panic(a.mem, "assert"))
      BY <3>1, OomChecked DEF Oom
    <3> HIDE DEF d, e, f
    <3>3. Oom(p)
      BY <3>2, OomTables
    <3> QED
      BY <2>1, <3>2, <3>3 DEF r
  <2>8. CASE Good(g, R) /\ g.pt[x][PDX(v)] # NULL /\ KeptAll(u, g) /\ g.data = u.data
    <3>1. \/ f = NULL /\ Oom(a.mem)
          \/ /\ f \in Frame /\ f # NULL /\ f \notin R /\ Good(a.mem, Q) /\ a.mem.ref[f] = 0
             /\ KeptAll(g, a.mem) /\ a.mem.pt = g.pt
      BY <2>8, AllocOne
    <3> HIDE DEF a
    <3>2. CASE f = NULL /\ Oom(a.mem)
      BY <2>1, <3>2, OomChecked DEF r
    <3>3. CASE /\ f \in Frame /\ f # NULL /\ f \notin R /\ Good(a.mem, Q) /\ a.mem.ref[f] = 0
               /\ KeptAll(g, a.mem) /\ a.mem.pt = g.pt
      <4> DEFINE b == a.mem
      <4>1. b \in Memories
        BY <3>3 DEF Good
      <4>2. /\ d.pt = b.pt /\ d.pte = b.pte /\ d.ref = b.ref
            /\ d.data = [b.data EXCEPT ![f] = value]
        BY <4>1, MemoryTypes
      <4>3. d \in Memories
        <5>1. d.data \in [Frame -> Int]
          BY <2>5, <3>3, <4>1, <4>2, MemoryTypes
        <5>2. d = [b EXCEPT !.data = d.data]
          BY <4>1, <4>2, MemoryTypes
        <5> HIDE DEF d, b
        <5> QED
          BY <4>1, <5>1, <5>2 DEF Memories
      <4>4. GetPte(d, x, v) = d
        BY <2>8, <3>3, <4>2 DEF GetPte
      <4>5. /\ \A y \in Mm, z \in VPage :
                 Pte(b, y, z) = Pte(u, y, z) /\ Content(b, y, z) = Content(u, y, z)
            /\ b.dir = u.dir /\ b.vma = u.vma /\ b.cache = u.cache /\ b.cr3 = u.cr3
        BY <2>8, <3>3 DEF KeptAll
      <4>6. PageAt(d, x, v) = NULL /\ PageAt(b, x, v) = NULL
        BY <4>2, <4>5 DEF PageAt, Pte
      <4>7. EntrySet(d, x, v, f, e.write) = PageSet(b, x, v, f, e.write, value)
        BY <4>1, MemoryTypes DEF EntrySet, PageSet
      <4> HIDE DEF d, e, f
      <4>8. p = EntrySet(d, x, v, f, e.write)
        BY <3>3, <4>2, <4>3, <4>4, <4>6, PageInserted
      <4>9. p = PageSet(b, x, v, f, e.write, value)
        BY <4>7, <4>8
      <4>10. f \in Q /\ b.pt[x][PDX(v)] # NULL /\ InSome(b.vma[x], v, e.write) /\ Good(b, Q)
        BY <2>3, <2>8, <3>3, <4>5
      <4> HIDE DEF p, b, Q
      <4>11. Good(p, Q \ {f})
        BY <2>2, <2>5, <4>6, <4>9, <4>10, PageAdded
      <4>12. Kept(b, p, x, v) /\ Content(p, x, v) = value
        BY <2>2, <2>5, <4>6, <4>9, <4>10, <4>11, PageAdded
      <4>13. Q \ {f} = R
        BY <3>3 DEF Q
      <4>14. Kept(u, p, x, v)
        BY <4>5, <4>12 DEF Kept
      <4>15. r = p
        BY <2>1, <3>3
      <4> QED
        BY <2>5, <4>11, <4>12, <4>13, <4>14, <4>15 DEF r
    <3> QED
      BY <3>1, <3>2, <3>3
  <2> QED
    BY <2>6, <2>7, <2>8
<1> QED
  BY <1>1, <1>2

\* free_page.
LEMMA OneFreed ==
  ASSUME NEW w, NEW R, NEW f \in Frame, f \notin R, Good(w, R \cup {f})
  PROVE  /\ Good(FreePages(w, f, 1), R) /\ KeptAll(w, FreePages(w, f, 1))
         /\ FreePages(w, f, 1).pt = w.pt
<1> DEFINE n == 1
           S == f .. f + n - 1
           Q == R \cup {f}
<1>1. f .. f + 1 - 1 = {f}
  BY Constants
<1>2. n \in Nat \ {0} /\ S \subseteq Q /\ Q \ S = R /\ Good(w, Q) /\ n = 1
  BY <1>1
<1> HIDE DEF n, Q
<1>3. Good(FreePages(w, f, n), Q \ S)
  BY <1>2, GoodFreed
<1>4. KeptAll(w, FreePages(w, f, n)) /\ FreePages(w, f, n).pt = w.pt
  BY <1>2, <1>3, GoodFreed
<1> QED
  BY <1>2, <1>3, <1>4

\* page_remove_pte.
LEMMA PageRemoved ==
  ASSUME NEW u, NEW R, Good(u, R), NEW x \in Mm, NEW v \in VPage
  PROVE  /\ Good(PageRemovePte(u, x, v), R)
         /\ Kept(u, PageRemovePte(u, x, v), x, v)
         /\ PageAt(PageRemovePte(u, x, v), x, v) = NULL
<1> DEFINE e == Pte(u, x, v)
           f == e.page
           r == PageRemovePte(u, x, v)
           w == [u EXCEPT !.pte[x][v] = Absent, !.ref[f] = @ - 1]
<1>0. u \in Memories
  BY DEF Good
<1>1. CASE e.is # "present"
  <2>1. r = u
    BY <1>1 DEF PageRemovePte
  <2>2. PageAt(u, x, v) = NULL
    BY <1>1 DEF PageAt
  <2> QED
    BY <2>1, <2>2 DEF Kept
<1>2. CASE e.is = "present"
  <2>1. PageAt(u, x, v) = f /\ f \in Frame /\ f # NULL
    BY <1>0, <1>2, EntryFound, Constants
  <2>2. u.ref[f] = 1
    BY <2>1 DEF Good, Referenced
  <2>3. w = PageUnset(u, x, v, f)
    BY <1>0, <2>1, <2>2, MemoryTypes DEF PageUnset
  <2>4. w.ref[f] = 0
    BY <1>0, <2>1, <2>2, MemoryTypes
  <2>5. r = FreePages(w, f, 1)
    BY <1>2, <2>4 DEF PageRemovePte
  <2> HIDE DEF w, e, f, r
  <2>6. f = PageAt(u, x, v)
    BY <2>1
  <2>7. Good(w, R \cup {f})
    BY <2>1, <2>3, <2>6, PageLost
  <2>8. Kept(u, w, x, v) /\ PageAt(w, x, v) = NULL
    BY <2>1, <2>3, <2>6, <2>7, PageLost
  <2>9. f \notin R
    BY <2>1, <2>6, MappedApart
  <2>10. Good(r, R) /\ KeptAll(w, r)
    BY <2>1, <2>5, <2>7, <2>9, OneFreed
  <2>11. Kept(u, r, x, v)
    BY <2>8, <2>10 DEF Kept, KeptAll
  <2>12. PageAt(r, x, v) = NULL
    BY <2>8, <2>10 DEF KeptAll, PageAt
  <2> QED
    BY <2>10, <2>11, <2>12 DEF r
<1> QED
  BY <1>1, <1>2

----------------------------------------------------------------------------
(* The end of an address space.                                            *)

\* x may have lost pages, the others have lost nothing.
Dropped(u, r, x) ==
  /\ r.dir = u.dir /\ r.vma = u.vma /\ r.cache = u.cache /\ r.cr3 = u.cr3
  /\ \A y \in Mm, z \in VPage : y # x =>
       Pte(r, y, z) = Pte(u, y, z) /\ Content(r, y, z) = Content(u, y, z)
  /\ \A z \in VPage : PageAt(u, x, z) = NULL => PageAt(r, x, z) = NULL

\* It says so of single steps and of many.
LEMMA DroppedOnce ==
  ASSUME NEW u, NEW r, NEW x \in Mm
  PROVE  /\ Dropped(u, u, x)
         /\ KeptAll(u, r) => Dropped(u, r, x)
         /\ \A v \in VPage : Kept(u, r, x, v) /\ PageAt(r, x, v) = NULL => Dropped(u, r, x)
<1>1. Dropped(u, u, x)
  BY DEF Dropped
<1>2. KeptAll(u, r) => Dropped(u, r, x)
  BY DEF Dropped, KeptAll, PageAt
<1>3. ASSUME NEW v \in VPage, Kept(u, r, x, v), PageAt(r, x, v) = NULL
      PROVE  Dropped(u, r, x)
  <2>1. ASSUME NEW z \in VPage, PageAt(u, x, z) = NULL PROVE PageAt(r, x, z) = NULL
    <3>1. z # v => Pte(r, x, z) = Pte(u, x, z)
      BY <1>3 DEF Kept
    <3> QED
      BY <1>3, <2>1, <3>1 DEF PageAt
  <2> QED
    BY <1>3, <2>1 DEF Dropped, Kept
<1> QED
  BY <1>1, <1>2, <1>3

\* Pages of x are given up in two steps.
LEMMA DroppedTwice ==
  ASSUME NEW u, NEW w, NEW r, NEW x \in Mm, Dropped(u, w, x), Dropped(w, r, x)
  PROVE  Dropped(u, r, x)
BY DEF Dropped

\* unmap_range.
LEMMA RangeUnmapped ==
  ASSUME NEW u, NEW R, Good(u, R), NEW x \in Mm, NEW lo \in Nat, NEW hi \in Nat,
         lo <= hi, hi <= USERTOP
  PROVE  /\ Good(UnmapRange(u, x, lo, hi), R)
         /\ Dropped(u, UnmapRange(u, x, lo, hi), x)
         /\ \A z \in VPage : lo <= z /\ z < hi => PageAt(UnmapRange(u, x, lo, hi), x, z) = NULL
<1>1. PICK w : /\ UnmapRange(u, x, lo, hi) = w[hi]
               /\ w[lo] = u
               /\ \A i \in lo + 1 .. hi : w[i] = PageRemovePte(w[i - 1], x, i - 1)
  BY UnmapRangeIs
<1> DEFINE P == {i \in lo .. hi :
                   /\ Good(w[i], R) /\ Dropped(u, w[i], x)
                   /\ \A z \in VPage : lo <= z /\ z < i => PageAt(w[i], x, z) = NULL}
<1>2. ASSUME NEW i \in lo + 1 .. hi, i - 1 \in P PROVE i \in P
  <2>1. i - 1 \in VPage
    BY MemoryAssumption DEF VPage
  <2> DEFINE a == w[i - 1]
             b == w[i]
             v == i - 1
  <2>2. /\ Good(a, R) /\ Dropped(u, a, x)
        /\ \A z \in VPage : lo <= z /\ z < v => PageAt(a, x, z) = NULL
    BY <1>2
  <2>3. b = PageRemovePte(a, x, v)
    BY <1>1
  <2> HIDE DEF a, b
  <2>4. Good(b, R) /\ Kept(a, b, x, v) /\ PageAt(b, x, v) = NULL
    BY <2>1, <2>2, <2>3, PageRemoved
  <2>5. Dropped(a, b, x)
    BY <2>1, <2>4, DroppedOnce
  <2>6. Dropped(u, b, x)
    BY <2>2, <2>5, DroppedTwice
  <2>7. ASSUME NEW z \in VPage, lo <= z, z < i PROVE PageAt(b, x, z) = NULL
    <3>1. z < v \/ z = v
      BY <2>7 DEF VPage
    <3> QED
      BY <2>2, <2>4, <2>5, <2>7, <3>1 DEF Dropped
  <2> QED
    BY <2>4, <2>6, <2>7 DEF b
<1>3. lo \in P
  <2>1. Dropped(u, u, x)
    BY DroppedOnce
  <2>2. \A z \in VPage : ~ (lo <= z /\ z < lo)
    BY DEF VPage
  <2> QED
    BY <1>1, <2>1, <2>2
<1>4. hi \in P
  <2> HIDE DEF P
  <2> QED
    BY <1>2, <1>3, UpTo
<1> QED
  BY <1>1, <1>4

\* The first loop of exit_mmap.
LEMMA AreasUnmapped ==
  ASSUME NEW u, NEW R, Good(u, R), NEW x \in Mm
  PROVE  /\ Good(UnmapAreas(u, x, u.vma[x]), R)
         /\ Dropped(u, UnmapAreas(u, x, u.vma[x]), x)
         /\ \A v \in VPage : PageAt(UnmapAreas(u, x, u.vma[x]), x, v) = NULL
<1> DEFINE s == u.vma[x]
           hi == Len(s)
           r == UnmapAreas(u, x, s)
<1>1. s \in Seq(AreaType) /\ AreasSorted(s)
  BY MemoryTypes DEF Good, SpaceSound
<1>0. r = UnmapAreas(u, x, s)
  OBVIOUS
<1> HIDE DEF s, r
<1>2. hi \in Nat
  BY <1>1
<1>3. \A i \in 1 .. hi : /\ s[i].start \in Nat /\ s[i].end \in Nat
                         /\ s[i].start < s[i].end /\ s[i].end <= USERTOP
  <2>1. \A i \in 1 .. hi : s[i] \in AreaType
    BY <1>1
  <2>2. \A i \in 1 .. hi : s[i].start < s[i].end /\ s[i].end <= USERTOP
    BY <1>1 DEF AreasSorted, UserAccess
  <2> QED
    BY <2>1, <2>2 DEF AreaType, VPage
<1>4. PICK w : /\ UnmapAreas(u, x, s) = w[hi]
               /\ w[0] = u
               /\ \A i \in 1 .. hi : w[i] = UnmapRange(w[i - 1], x, s[i].start, s[i].end)
  <2>1. Len(s) \in Nat
    BY <1>2
  <2> QED
    BY <2>1, UnmapAreasIs
<1> DEFINE P == {i \in 0 .. hi :
                   /\ Good(w[i], R) /\ Dropped(u, w[i], x)
                   /\ \A j \in 1 .. hi, z \in VPage :
                        j <= i /\ InArea(s[j], z) => PageAt(w[i], x, z) = NULL}
<1> HIDE DEF hi
<1>5. ASSUME NEW i \in 1 .. hi, i - 1 \in P PROVE i \in P
  <2> DEFINE a == w[i - 1]
             b == w[i]
             lo == s[i].start
             end == s[i].end
  <2>1. /\ Good(a, R) /\ Dropped(u, a, x)
        /\ \A j \in 1 .. hi, z \in VPage :
             j <= i - 1 /\ InArea(s[j], z) => PageAt(a, x, z) = NULL
    BY <1>5
  <2>2. b = UnmapRange(a, x, lo, end) /\ lo \in Nat /\ end \in Nat /\ lo <= end /\ end <= USERTOP
    BY <1>3, <1>4
  <2>0. i \in 0 .. hi
    BY <1>2
  <2> HIDE DEF a, b, lo, end
  <2>3. /\ Good(b, R) /\ Dropped(a, b, x)
        /\ \A z \in VPage : lo <= z /\ z < end => PageAt(b, x, z) = NULL
    BY <2>1, <2>2, RangeUnmapped
  <2>4. Dropped(u, b, x)
    BY <2>1, <2>3, DroppedTwice
  <2>5. ASSUME NEW j \in 1 .. hi, NEW z \in VPage, j <= i, InArea(s[j], z)
        PROVE  PageAt(b, x, z) = NULL
    <3>1. CASE j = i
      BY <2>3, <2>5, <3>1 DEF InArea, lo, end
    <3>2. CASE j # i
      <4>1. j <= i - 1
        BY <1>2, <2>5, <3>2
      <4>2. PageAt(a, x, z) = NULL
        BY <2>1, <2>5, <4>1
      <4> QED
        BY <2>3, <4>2 DEF Dropped
    <3> QED
      BY <3>1, <3>2
  <2> QED
    BY <2>0, <2>3, <2>4, <2>5 DEF b
<1>6. 0 \in P
  <2>1. Dropped(u, u, x)
    BY DroppedOnce
  <2>2. \A j \in 1 .. hi : ~ (j <= 0)
    BY <1>2
  <2> QED
    BY <1>2, <1>4, <2>1, <2>2
<1>7. hi \in P
  <2> HIDE DEF P
  <2> QED
    BY <1>2, <1>5, <1>6, UpFrom0
<1>8. r = w[hi]
  BY <1>0, <1>4
<1>9. /\ Good(r, R) /\ Dropped(u, r, x)
      /\ \A j \in 1 .. hi, z \in VPage :
           j <= hi /\ InArea(s[j], z) => PageAt(r, x, z) = NULL
  BY <1>7, <1>8
<1>10. ASSUME NEW v \in VPage PROVE PageAt(r, x, v) = NULL
  <2> SUFFICES ASSUME PageAt(r, x, v) # NULL
               PROVE  FALSE
    OBVIOUS
  <2>1. r.vma[x] = s
    BY <1>9 DEF Dropped, s
  <2>2. InSome(r.vma[x], v, Pte(r, x, v).write)
    BY <1>9 DEF Good, SpaceSound
  <2>3. PICK j \in 1 .. hi : InArea(s[j], v)
    BY <2>1, <2>2 DEF InSome, hi
  <2> QED
    BY <1>2, <1>9, <2>3
<1> QED
  BY <1>9, <1>10 DEF r, s

\* Page tables of x may be gone, and nothing else.
Cleared(u, r, x) ==
  /\ KeptAll(u, r)
  /\ \A d \in Directory : u.pt[x][d] = NULL => r.pt[x][d] = NULL

\* Page tables of x are given up in two steps.
LEMMA ClearedTwice ==
  ASSUME NEW u, NEW w, NEW r, NEW x \in Mm
  PROVE  Cleared(u, u, x) /\ (Cleared(u, w, x) /\ Cleared(w, r, x) => Cleared(u, r, x))
BY DEF Cleared, KeptAll

\* One round of exit_range, when no page is mapped.
LEMMA TableFreed ==
  ASSUME NEW u, NEW R, Good(u, R), NEW x \in Mm, NEW d \in Directory,
         \A v \in VPage : PageAt(u, x, v) = NULL
  PROVE  /\ Good(FreeTable(u, x, d), R)
         /\ Cleared(u, FreeTable(u, x, d), x)
         /\ FreeTable(u, x, d).pt[x][d] = NULL
<1> DEFINE f == u.pt[x][d]
           r == FreeTable(u, x, d)
           w == [u EXCEPT !.pt[x][d] = NULL]
           t == TableUnset(u, x, d, f)
<1>0. u \in Memories
  BY DEF Good
<1>1. CASE f = NULL
  <2>1. r = u
    BY <1>1 DEF FreeTable
  <2> QED
    BY <1>1, <2>1, ClearedTwice
<1>2. CASE f # NULL
  <2>1. r = FreePages(w, f, 1)
    BY <1>2 DEF FreeTable
  <2>2. f \in Frame
    BY <1>0, <1>2, MemoryTypes
  <2>3. FreePages(w, f, 1) = FreePages(t, f, 1)
    <3>1. /\ w.free = t.free /\ w.data = t.data
          /\ t.ref = [u.ref EXCEPT ![f] = 0] /\ w.ref = u.ref
      BY <1>0, MemoryTypes DEF TableUnset
    <3>2. t = [w EXCEPT !.ref = t.ref]
      BY <1>0, <3>1, MemoryTypes DEF TableUnset
    <3>3. [t.ref EXCEPT ![f] = 0] = [w.ref EXCEPT ![f] = 0]
      BY <1>0, <2>2, <3>1, MemoryTypes
    <3>4. DOMAIN w = DOMAIN u /\ "ref" \in DOMAIN w /\ "free" \in DOMAIN w /\ "data" \in DOMAIN w
      BY <1>0, MemoryTypes
    <3> HIDE DEF w, t, f
    <3> DEFINE F == w.free \cup (f .. f + 1 - 1)
               D == [g \in Frame |-> IF g \in f .. f + 1 - 1 THEN Junk ELSE w.data[g]]
               E == [w.ref EXCEPT ![f] = 0]
    <3>5. FreePages(w, f, 1) = [w EXCEPT !.free = F, !.ref = E, !.data = D]
      BY <3>4 DEF FreePages
    <3>6. FreePages(t, f, 1) = [t EXCEPT !.free = F, !.ref = E, !.data = D]
      BY <3>1, <3>2, <3>3, <3>4 DEF FreePages
    <3> HIDE DEF F, D, E
    <3> QED
      BY <3>2, <3>4, <3>5, <3>6
  <2>10. f = u.pt[x][d] /\ t = TableUnset(u, x, d, f)
    OBVIOUS
  <2> HIDE DEF f, r, w, t
  <2>4. Good(t, R \cup {f})
    BY <1>2, <2>10, TableLost
  <2>5. /\ KeptAll(u, t) /\ t.pt[x][d] = NULL
        /\ \A y \in Mm, c \in Directory : ~ (y = x /\ c = d) => t.pt[y][c] = u.pt[y][c]
    <3>1. KeptAll(u, t)
      BY <1>2, <2>4, <2>10, TableLost
    <3>2. t.pt = [u.pt EXCEPT ![x][d] = NULL]
      BY <1>0, <2>10, MemoryTypes DEF TableUnset
    <3> QED
      BY <1>0, <3>1, <3>2, MemoryTypes
  <2>6. f \notin R
    <3> DEFINE o == <<"table", x, d>>
    <3>1. o \in Owner /\ FrameOf(u)[o] = f
      BY Owners DEF f
    <3> HIDE DEF o
    <3>2. Accounted(FrameOf(u), u.free, R)
      BY DEF Good
    <3> QED
      BY <1>2, <3>1, <3>2 DEF Accounted
  <2>7. Good(r, R) /\ KeptAll(t, r) /\ r.pt = t.pt
    BY <2>1, <2>2, <2>3, <2>4, <2>6, OneFreed
  <2>8. KeptAll(u, r)
    BY <2>5, <2>7 DEF KeptAll
  <2>9. \A c \in Directory : u.pt[x][c] = NULL => r.pt[x][c] = NULL
    BY <2>5, <2>7
  <2> QED
    BY <2>5, <2>7, <2>8, <2>9 DEF Cleared, r
<1> QED
  BY <1>1, <1>2

\* exit_range.
LEMMA RangeExited ==
  ASSUME NEW u, NEW R, Good(u, R), NEW x \in Mm, NEW lo \in Nat, NEW hi \in Nat,
         lo < hi, hi <= USERTOP, \A v \in VPage : PageAt(u, x, v) = NULL
  PROVE  /\ Good(ExitRange(u, x, lo, hi), R)
         /\ Cleared(u, ExitRange(u, x, lo, hi), x)
         /\ \A d \in Directory : PDX(lo) <= d /\ d <= PDX(hi - 1) =>
              ExitRange(u, x, lo, hi).pt[x][d] = NULL
<1> DEFINE a == PDX(lo)
           b == PDX(hi - 1) + 1
<1>1. a \in Nat /\ b \in Nat /\ a <= b /\ PDX(lo) \in Int /\ PDX(hi - 1) \in Int
  <2>1. lo \in Nat /\ hi - 1 \in Nat /\ lo <= hi - 1
    OBVIOUS
  <2>2. PDX(lo) \in Nat /\ PDX(hi - 1) \in Nat /\ PDX(lo) <= PDX(hi - 1)
    BY <2>1, PdxUp
  <2> QED
    BY <2>2
<1>2. b - 1 <= PDX(USERTOP) /\ PDX(USERTOP) \in Nat
  <2>1. hi - 1 \in Nat /\ USERTOP \in Nat /\ hi - 1 <= USERTOP
    BY MemoryAssumption
  <2>2. PDX(hi - 1) \in Nat /\ PDX(USERTOP) \in Nat /\ PDX(hi - 1) <= PDX(USERTOP)
    BY <2>1, PdxUp
  <2> QED
    BY <2>2
<1>3. PICK w : /\ ExitRange(u, x, lo, hi) = w[b]
               /\ w[a] = u
               /\ \A i \in a + 1 .. b : w[i] = FreeTable(w[i - 1], x, i - 1)
  BY <1>1, ExitRangeIs
<1>8. b - 1 = PDX(hi - 1)
  BY <1>1
<1> DEFINE P == {i \in a .. b :
                   /\ Good(w[i], R) /\ Cleared(u, w[i], x)
                   /\ \A d \in Directory : a <= d /\ d < i => w[i].pt[x][d] = NULL}
<1>9. a = PDX(lo)
  OBVIOUS
<1> HIDE DEF a, b
<1>4. ASSUME NEW i \in a + 1 .. b, i - 1 \in P PROVE i \in P
  <2> DEFINE p == w[i - 1]
             q == w[i]
             d == i - 1
  <2>1. i \in a .. b /\ d \in Directory
    BY <1>1, <1>2 DEF Directory
  <2>2. Good(p, R) /\ Cleared(u, p, x) /\ \A c \in Directory : a <= c /\ c < d => p.pt[x][c] = NULL
    BY <1>4
  <2>3. q = FreeTable(p, x, d)
    BY <1>3
  <2> HIDE DEF p, q
  <2>4. \A v \in VPage : PageAt(p, x, v) = NULL
    BY <2>2 DEF Cleared, KeptAll, PageAt
  <2>5. Good(q, R) /\ Cleared(p, q, x) /\ q.pt[x][d] = NULL
    BY <2>1, <2>2, <2>3, <2>4, TableFreed
  <2>6. Cleared(u, q, x)
    BY <2>2, <2>5, ClearedTwice
  <2>7. ASSUME NEW c \in Directory, a <= c, c < i PROVE q.pt[x][c] = NULL
    <3>1. c < d \/ c = d
      BY <1>1, <2>7 DEF Directory
    <3> QED
      BY <2>2, <2>5, <2>7, <3>1 DEF Cleared
  <2> QED
    BY <2>1, <2>5, <2>6, <2>7 DEF q
<1>5. a \in P
  <2>1. \A c \in Directory : ~ (a <= c /\ c < a)
    BY <1>1 DEF Directory
  <2>2. Cleared(u, u, x)
    BY ClearedTwice
  <2> QED
    BY <1>1, <1>3, <2>1, <2>2
<1>6. b \in P
  <2> HIDE DEF P
  <2> QED
    BY <1>1, <1>4, <1>5, UpTo
<1>7. \A d \in Directory : a <= d /\ d <= b - 1 => a <= d /\ d < b
  BY <1>1 DEF Directory
<1> QED
  BY <1>3, <1>6, <1>7, <1>8, <1>9

\* The second loop of exit_mmap, after the first one.
LEMMA AreasExited ==
  ASSUME NEW u, NEW R, Good(u, R), NEW x \in Mm, \A v \in VPage : PageAt(u, x, v) = NULL
  PROVE  /\ Good(ExitAreas(u, x, u.vma[x]), R)
         /\ KeptAll(u, ExitAreas(u, x, u.vma[x]))
         /\ \A d \in Directory : ExitAreas(u, x, u.vma[x]).pt[x][d] = NULL
<1> DEFINE s == u.vma[x]
           hi == Len(s)
           r == ExitAreas(u, x, s)
<1>1. s \in Seq(AreaType) /\ AreasSorted(s)
  BY MemoryTypes DEF Good, SpaceSound
<1>0. r = ExitAreas(u, x, s)
  OBVIOUS
<1> HIDE DEF s, r
<1>2. hi \in Nat
  BY <1>1
<1>3. \A i \in 1 .. hi : /\ s[i].start \in Nat /\ s[i].end \in Nat
                         /\ s[i].start < s[i].end /\ s[i].end <= USERTOP
  <2>1. \A i \in 1 .. hi : s[i] \in AreaType
    BY <1>1
  <2>2. \A i \in 1 .. hi : s[i].start < s[i].end /\ s[i].end <= USERTOP
    BY <1>1 DEF AreasSorted, UserAccess
  <2> QED
    BY <2>1, <2>2 DEF AreaType, VPage
<1>4. PICK w : /\ ExitAreas(u, x, s) = w[hi]
               /\ w[0] = u
               /\ \A i \in 1 .. hi : w[i] = ExitRange(w[i - 1], x, s[i].start, s[i].end)
  <2>1. Len(s) \in Nat
    BY <1>2
  <2> QED
    BY <2>1, ExitAreasIs
<1> DEFINE P == {i \in 0 .. hi :
                   /\ Good(w[i], R) /\ Cleared(u, w[i], x)
                   /\ \A j \in 1 .. hi, d \in Directory :
                        j <= i /\ PDX(s[j].start) <= d /\ d <= PDX(s[j].end - 1)
                          => w[i].pt[x][d] = NULL}
<1> HIDE DEF hi
<1>5. ASSUME NEW i \in 1 .. hi, i - 1 \in P PROVE i \in P
  <2> DEFINE a == w[i - 1]
             b == w[i]
             lo == s[i].start
             end == s[i].end
  <2>1. /\ Good(a, R) /\ Cleared(u, a, x)
        /\ \A j \in 1 .. hi, d \in Directory :
             j <= i - 1 /\ PDX(s[j].start) <= d /\ d <= PDX(s[j].end - 1)
               => a.pt[x][d] = NULL
    BY <1>5
  <2>2. b = ExitRange(a, x, lo, end) /\ lo \in Nat /\ end \in Nat /\ lo < end /\ end <= USERTOP
    BY <1>3, <1>4
  <2>0. i \in 0 .. hi
    BY <1>2
  <2> HIDE DEF a, b, lo, end
  <2>6. \A v \in VPage : PageAt(a, x, v) = NULL
    BY <2>1 DEF Cleared, KeptAll, PageAt
  <2>3. /\ Good(b, R) /\ Cleared(a, b, x)
        /\ \A d \in Directory : PDX(lo) <= d /\ d <= PDX(end - 1) => b.pt[x][d] = NULL
    BY <2>1, <2>2, <2>6, RangeExited
  <2>4. Cleared(u, b, x)
    BY <2>1, <2>3, ClearedTwice
  <2>5. ASSUME NEW j \in 1 .. hi, NEW d \in Directory, j <= i,
               PDX(s[j].start) <= d, d <= PDX(s[j].end - 1)
        PROVE  b.pt[x][d] = NULL
    <3>1. CASE j = i
      BY <2>3, <2>5, <3>1 DEF lo, end
    <3>2. CASE j # i
      <4>1. j <= i - 1
        BY <1>2, <2>5, <3>2
      <4>2. a.pt[x][d] = NULL
        BY <2>1, <2>5, <4>1
      <4> QED
        BY <2>3, <4>2 DEF Cleared
    <3> QED
      BY <3>1, <3>2
  <2> QED
    BY <2>0, <2>3, <2>4, <2>5 DEF b
<1>6. 0 \in P
  <2>1. Cleared(u, u, x)
    BY ClearedTwice
  <2>2. \A j \in 1 .. hi : ~ (j <= 0)
    BY <1>2
  <2> QED
    BY <1>2, <1>4, <2>1, <2>2
<1>7. hi \in P
  <2> HIDE DEF P
  <2> QED
    BY <1>2, <1>5, <1>6, UpFrom0
<1>8. r = w[hi]
  BY <1>0, <1>4
<1>9. /\ Good(r, R) /\ Cleared(u, r, x)
      /\ \A j \in 1 .. hi, d \in Directory :
           j <= hi /\ PDX(s[j].start) <= d /\ d <= PDX(s[j].end - 1) => r.pt[x][d] = NULL
  BY <1>7, <1>8
<1>10. ASSUME NEW d \in Directory PROVE r.pt[x][d] = NULL
  <2> SUFFICES ASSUME r.pt[x][d] # NULL
               PROVE  FALSE
    OBVIOUS
  <2>1. r.vma[x] = s
    BY <1>9 DEF Cleared, KeptAll, s
  <2>2. TableInSome(r.vma[x], d)
    BY <1>9 DEF Good, SpaceSound
  <2>3. PICK j \in 1 .. hi : PDX(s[j].start) <= d /\ d <= PDX(s[j].end - 1)
    BY <2>1, <2>2 DEF TableInSome, hi
  <2> QED
    BY <1>2, <1>9, <2>3
<1> QED
  BY <1>9, <1>10 DEF r, s, Cleared

\* From one step to the next.
LEMMA OthersTwice ==
  ASSUME NEW u, NEW w, NEW r, NEW x \in Mm
  PROVE  /\ Others(u, u, x)
         /\ Others(u, w, x) /\ Others(w, r, x) => Others(u, r, x)
         /\ KeptAll(u, r) => Others(u, r, x)
         /\ Dropped(u, r, x) => Others(u, r, x)
         /\ \A v \in VPage : Kept(u, r, x, v) => Others(u, r, x)
<1>1. Others(u, u, x)
  BY DEF Others
<1>2. Others(u, w, x) /\ Others(w, r, x) => Others(u, r, x)
  BY DEF Others
<1>3. KeptAll(u, r) => Others(u, r, x)
  BY DEF Others, KeptAll
<1>4. Dropped(u, r, x) => Others(u, r, x)
  BY DEF Others, Dropped
<1>5. \A v \in VPage : Kept(u, r, x, v) => Others(u, r, x)
  BY DEF Others, Kept
<1> QED
  BY <1>1, <1>2, <1>3, <1>4, <1>5

\* What is owned is not in R.
LEMMA DirectoryApart ==
  ASSUME NEW u, NEW R, Good(u, R), NEW x \in Mm, u.dir[x] # NULL
  PROVE  u.dir[x] \in Frame /\ u.dir[x] \notin R
<1> DEFINE o == <<"dir", x, 0>>
<1>1. o \in Owner /\ FrameOf(u)[o] = u.dir[x]
  BY Owners
<1> HIDE DEF o
<1>2. Accounted(FrameOf(u), u.free, R)
  BY DEF Good
<1>3. u.dir[x] \in Frame
  BY MemoryTypes DEF Good
<1> QED
  BY <1>1, <1>2, <1>3 DEF Accounted

\* exit_mmap, put_pgdir and mm_destroy give back all frames of x.
LEMMA SpaceDropped ==
  ASSUME NEW u, NEW R, Good(u, R), NEW x \in Mm, u.dir[x] # NULL
  PROVE  /\ Good(DropMm(u, x), R) /\ Others(u, DropMm(u, x), x)
         /\ DropMm(u, x).dir[x] = NULL
<1> DEFINE a == UnmapAreas(u, x, u.vma[x])
           b == ExitAreas(a, x, a.vma[x])
           f == b.dir[x]
           t == DirUnset(b, x, f)
           r == DropMm(u, x)
<1>1. Good(a, R) /\ Dropped(u, a, x) /\ \A v \in VPage : PageAt(a, x, v) = NULL
  BY AreasUnmapped
<1>2. a.vma = u.vma
  BY <1>1 DEF Dropped
<1>3. r = MmDestroy(PutPgdir(b, x), x)
  BY <1>2 DEF DropMm, ExitMmap
<1>11. f = b.dir[x]
  OBVIOUS
<1> HIDE DEF a, r
<1>4. Good(b, R) /\ KeptAll(a, b) /\ \A d \in Directory : b.pt[x][d] = NULL
  BY <1>1, AreasExited
<1> HIDE DEF b
<1>5. b \in Memories
  BY <1>4 DEF Good
<1>6. f # NULL
  BY <1>1, <1>4 DEF Dropped, KeptAll
<1>7. f \in Frame /\ f \notin R
  BY <1>4, <1>6, DirectoryApart
<1>8. r = FreePages(t, f, 1)
  <2> DEFINE F == b.free \cup (f .. f + 1 - 1)
             D == [g \in Frame |-> IF g \in f .. f + 1 - 1 THEN Junk ELSE b.data[g]]
             E == [b.ref EXCEPT ![f] = 0]
             V == [b.vma EXCEPT ![x] = <<>>]
             C == [b.cache EXCEPT ![x] = NULL]
             H == [b.dir EXCEPT ![x] = NULL]
             p == PutPgdir(b, x)
  <2>1. DOMAIN b = {"free", "ref", "data", "vaddr", "pra", "disk", "check", "dir", "pt",
                    "pte", "vma", "cache", "cr3", "panic"}
    BY <1>5, MemoryTypes
  <2>2. [E EXCEPT ![f] = 0] = E
    BY <1>5, <1>7, MemoryTypes
  <2>3. p = [b EXCEPT !.free = F, !.ref = E, !.data = D]
    BY <2>1 DEF PutPgdir, FreePages
  <2>4. t = [b EXCEPT !.dir = H, !.vma = V, !.cache = C, !.ref = E]
    BY <2>1 DEF DirUnset
  <2>5. p.vma = b.vma /\ p.cache = b.cache /\ p.dir = b.dir
    BY <2>1, <2>3
  <2>6. t.free = b.free /\ t.ref = E /\ t.data = b.data
    BY <2>1, <2>4
  <2> HIDE DEF p, t
  <2>7. r = [p EXCEPT !.vma = V, !.cache = C, !.dir = H]
    BY <1>3, <2>1, <2>3, <2>5 DEF MmDestroy, p
  <2>8. FreePages(t, f, 1) = [t EXCEPT !.free = F, !.ref = E, !.data = D]
    BY <2>1, <2>2, <2>4, <2>6 DEF FreePages
  <2> HIDE DEF F, D, E, V, C, H
  <2> QED
    BY <2>1, <2>3, <2>4, <2>7, <2>8
<1>9. t = DirUnset(b, x, f)
  OBVIOUS
<1> HIDE DEF t, f
<1>10. Good(t, R \cup {f})
  BY <1>4, <1>6, <1>9, <1>11, DirLost
<1>12. t.dir[x] = NULL /\ Others(b, t, x)
  BY <1>4, <1>6, <1>9, <1>10, <1>11, DirLost
<1>13. Good(r, R) /\ KeptAll(t, r)
  BY <1>7, <1>8, <1>10, OneFreed
<1>14. Others(u, r, x)
  <2>1. Others(u, a, x) /\ Others(a, b, x) /\ Others(t, r, x)
    BY <1>1, <1>4, <1>13, OthersTwice
  <2>2. Others(u, b, x)
    BY <2>1, OthersTwice
  <2>3. Others(u, t, x)
    BY <1>12, <2>2, OthersTwice
  <2> QED
    BY <2>1, <2>3, OthersTwice
<1>15. r.dir[x] = NULL
  BY <1>12, <1>13 DEF KeptAll
<1> QED
  BY <1>13, <1>14, <1>15 DEF r

\* mm_create for a process that has no memory.
LEMMA MmCreated ==
  ASSUME NEW u, NEW R, Good(u, R), NEW x \in Mm, u.dir[x] = NULL
  PROVE  /\ Good(MmCreate(u, x), R) /\ Others(u, MmCreate(u, x), x)
         /\ MmCreate(u, x).dir[x] = NULL
<1> DEFINE r == MmCreate(u, x)
<1>1. u \in Memories
  BY DEF Good
<1>0. u.vma[x] = <<>> /\ u.pra = <<>>
  BY <1>1, NoDirectory, MemoryTypes
<1>2. /\ r.free = u.free /\ r.ref = u.ref /\ r.dir = u.dir /\ r.data = u.data /\ r.pt = u.pt
      /\ r.vma = u.vma /\ r.cache = [u.cache EXCEPT ![x] = NULL]
      /\ r.cr3 = u.cr3 /\ r.panic = u.panic /\ r.pte = u.pte /\ r.pra = u.pra
  BY <1>0, <1>1, MemoryTypes DEF MmCreate
<1>3. r \in Memories
  <2>1. r.cache \in [Mm -> AreaType \cup {NULL}]
    BY <1>1, <1>2, MemoryTypes
  <2> DEFINE V == [u.vma EXCEPT ![x] = <<>>]
             C == [u.cache EXCEPT ![x] = NULL]
  <2>2. r = [u EXCEPT !.vma = V, !.cache = C, !.pra = <<>>]
    BY DEF MmCreate
  <2>3. V = u.vma /\ C = r.cache
    BY <1>0, <1>1, <1>2, MemoryTypes
  <2> HIDE DEF r, V, C
  <2> QED
    BY <1>0, <1>1, <2>1, <2>2, <2>3, MemoryTypes DEF Memories
<1> HIDE DEF r
<1>4. \A y \in Mm : r.cache[y] = IF y = x THEN NULL ELSE u.cache[y]
  BY <1>1, <1>2, MemoryTypes
<1>5. /\ \A y, v : Pte(r, y, v) = Pte(u, y, v)
      /\ \A y, v : PageAt(r, y, v) = PageAt(u, y, v)
  <2>1. \A y, v : Pte(r, y, v) = Pte(u, y, v)
    BY <1>2 DEF Pte
  <2> QED
    BY <2>1 DEF PageAt
<1>6. FrameOf(r) = FrameOf(u)
  BY <1>2, <1>5 DEF FrameOf
<1>7. Referenced(r, R)
  BY <1>2, <1>5 DEF Good, Referenced
<1>8. \A y \in Mm : SpaceSound(r, y)
  BY <1>2, <1>4, <1>5 DEF Good, SpaceSound
<1>9. Good(r, R)
  BY <1>2, <1>3, <1>6, <1>7, <1>8 DEF Good
<1>10. Others(u, r, x)
  BY <1>2, <1>5 DEF Others, Content
<1> QED
  BY <1>2, <1>9, <1>10 DEF r

\* mm_create and setup_pgdir.
LEMMA SpaceCreated ==
  ASSUME NEW u, NEW R, Good(u, R), NEW x \in Mm, u.dir[x] = NULL,
         NEW r, r = SetupPgdir(MmCreate(u, x), x)
  PROVE  \/ Oom(r)
         \/ /\ Good(r, R) /\ Others(u, r, x) /\ r.dir[x] # NULL /\ r.vma[x] = <<>>
            /\ \A v \in VPage : PageAt(r, x, v) = NULL
<1> DEFINE c == MmCreate(u, x)
           a == Alloc(c, 1)
           f == a.page
           Q == R \cup {f}
           t == DirSet(a.mem, x, f)
<1>1. Good(c, R) /\ Others(u, c, x) /\ c.dir[x] = NULL
  BY MmCreated
<1>2. r = IF f = NULL THEN a.mem ELSE t
  BY DEF SetupPgdir, DirSet
<1> HIDE DEF c
<1>3. \/ f = NULL /\ Oom(a.mem)
      \/ /\ f \in Frame /\ f # NULL /\ f \notin R /\ Good(a.mem, Q) /\ KeptAll(c, a.mem)
  BY <1>1, AllocOne
<1>4. CASE f = NULL /\ Oom(a.mem)
  BY <1>2, <1>4
<1>5. CASE /\ f \in Frame /\ f # NULL /\ f \notin R /\ Good(a.mem, Q) /\ KeptAll(c, a.mem)
  <2>1. f \in Q /\ a.mem.dir[x] = NULL /\ Q \ {f} = R
    BY <1>1, <1>5 DEF KeptAll
  <2>2. t = DirSet(a.mem, x, f)
    OBVIOUS
  <2> DEFINE b == a.mem
  <2>3. Others(c, b, x)
    BY <1>5, OthersTwice
  <2>0. b.dir[x] = NULL
    BY <2>1
  <2> HIDE DEF f, a, Q, t
  <2>4. Good(t, Q \ {f})
    BY <1>5, <2>0, <2>1, <2>2, DirAdded
  <2>5. t.dir[x] = f /\ Others(b, t, x)
    BY <1>5, <2>0, <2>1, <2>2, <2>4, DirAdded
  <2>6. Others(u, t, x)
    <3>1. Others(u, b, x)
      BY <1>1, <2>3, OthersTwice
    <3> QED
      BY <2>5, <3>1, OthersTwice
  <2>7. b.vma[x] = <<>> /\ \A v \in VPage : PageAt(b, x, v) = NULL
    BY <1>5, <2>0, NoDirectory
  <2>8. b.pt[x] = NoTables /\ b \in Memories
    BY <1>5, <2>0, NoDirectory DEF Good
  <2>9. t.vma[x] = <<>> /\ \A v \in VPage : PageAt(t, x, v) = NULL
    <3>1. t.vma = b.vma /\ t.pt = [b.pt EXCEPT ![x] = NoTables] /\ t.pte = b.pte
      BY <2>2, <2>8, MemoryTypes DEF DirSet
    <3>2. t.pt = b.pt
      BY <2>8, <3>1, MemoryTypes
    <3>3. \A v : Pte(t, x, v) = Pte(b, x, v)
      BY <3>1, <3>2 DEF Pte
    <3> QED
      BY <2>7, <3>1, <3>3 DEF PageAt
  <2>10. r = t
    BY <1>2, <1>5
  <2> QED
    BY <1>5, <2>1, <2>4, <2>5, <2>6, <2>9, <2>10
<1> QED
  BY <1>3, <1>4, <1>5

----------------------------------------------------------------------------
(* Areas come to an address space.                                         *)

\* All of the list s lies before a or behind it.
ApartFrom(s, a) == \A i \in 1 .. Len(s) : s[i].end <= a.start \/ a.end <= s[i].start

\* An area that overlaps no other goes to its place, and what check_vma_overlap
\* asserts of its neighbours holds.
LEMMA SortedInsert ==
  ASSUME NEW s \in Seq(AreaType), AreasSorted(s), NEW a \in AreaType,
         UserAccess(a.start, a.end), ApartFrom(s, a),
         NEW at, at = PlaceOf(s, a), NEW t, t = InsertAt(s, at, a)
  PROVE  /\ t \in Seq(AreaType) /\ AreasSorted(t) /\ Elems(t) = Elems(s) \cup {a}
         /\ Len(t) = Len(s) + 1
         /\ at > 1 => s[at - 1].end <= a.start
         /\ at <= Len(s) => a.end <= s[at].start
<1> DEFINE n == Len(s)
<1>1. n \in Nat /\ \A i \in 1 .. n : s[i] \in AreaType
  OBVIOUS
<1>2. /\ a.start \in Int /\ a.end \in Int /\ a.start < a.end
      /\ \A i \in 1 .. n : s[i].start \in Int /\ s[i].end \in Int /\ s[i].start < s[i].end
      /\ \A i, j \in 1 .. n : i < j => s[i].end <= s[j].start
  <2>1. \A b \in AreaType : b.start \in Int /\ b.end \in Int
    BY MemoryAssumption DEF AreaType, VPage
  <2>2. a.start < a.end
    BY DEF UserAccess
  <2>3. /\ \A i \in 1 .. n : s[i].start < s[i].end
        /\ \A i, j \in 1 .. n : i < j => s[i].end <= s[j].start
    BY DEF AreasSorted, UserAccess
  <2> QED
    BY <1>1, <2>1, <2>2, <2>3
<1>3. /\ at \in 1 .. n + 1
      /\ \A i \in 1 .. n : i < at => s[i].start <= a.start
      /\ at <= n => s[at].start > a.start
  BY PlaceBounds
<1>4. /\ t \in Seq(AreaType) /\ Len(t) = n + 1
      /\ \A i \in 1 .. n + 1 : t[i] = IF i < at THEN s[i] ELSE IF i = at THEN a ELSE s[i - 1]
  BY <1>3, Inserted
<1>5. \A i \in 1 .. n : s[i].end <= a.start \/ a.end <= s[i].start
  BY DEF ApartFrom
<1>10. /\ \A i \in 1 .. n : UserAccess(s[i].start, s[i].end)
       /\ UserAccess(a.start, a.end)
  BY DEF AreasSorted
<1> HIDE DEF n
<1>6. ASSUME NEW i \in 1 .. n, i < at PROVE s[i].end <= a.start
  BY <1>2, <1>3, <1>5, <1>6
<1>7. ASSUME NEW i \in 1 .. n, i >= at PROVE a.end <= s[i].start
  <2>1. at \in 1 .. n /\ s[at].start > a.start
    BY <1>1, <1>3, <1>7
  <2>2. s[i].start > a.start
    <3>1. i = at \/ at < i
      BY <1>1, <1>3, <1>7
    <3> QED
      BY <1>2, <2>1, <3>1
  <2> QED
    BY <1>2, <1>5, <2>2
<1>8. ASSUME NEW i \in 1 .. n + 1, NEW j \in 1 .. n + 1, i < j PROVE t[i].end <= t[j].start
  <2>1. CASE j < at
    <3>1. i \in 1 .. n /\ j \in 1 .. n /\ i < at
      BY <1>1, <1>3, <1>8, <2>1
    <3> QED
      BY <1>2, <1>4, <1>8, <2>1, <3>1
  <2>2. CASE j = at
    <3>1. i \in 1 .. n /\ i < at
      BY <1>1, <1>3, <1>8, <2>2
    <3> QED
      BY <1>4, <1>6, <2>2, <3>1
  <2>3. CASE j > at /\ i = at
    <3>1. j - 1 \in 1 .. n /\ j - 1 >= at /\ ~ (j < at) /\ j # at /\ ~ (i < at)
      BY <1>1, <1>3, <1>8, <2>3
    <3>2. t[i] = a /\ t[j] = s[j - 1]
      BY <1>4, <2>3, <3>1
    <3> QED
      BY <1>7, <3>1, <3>2
  <2>4. CASE j > at /\ i < at
    <3>1. j - 1 \in 1 .. n /\ i \in 1 .. n /\ i < j - 1 /\ ~ (j < at) /\ j # at
      BY <1>1, <1>3, <1>8, <2>4
    <3>2. t[i] = s[i] /\ t[j] = s[j - 1]
      BY <1>4, <2>4, <3>1
    <3> QED
      BY <1>2, <3>1, <3>2
  <2>5. CASE j > at /\ i > at
    <3>1. /\ j - 1 \in 1 .. n /\ i - 1 \in 1 .. n /\ i - 1 < j - 1
          /\ ~ (j < at) /\ j # at /\ ~ (i < at) /\ i # at
      BY <1>1, <1>3, <1>8, <2>5
    <3>2. t[i] = s[i - 1] /\ t[j] = s[j - 1]
      BY <1>4, <3>1
    <3> QED
      BY <1>2, <3>1, <3>2
  <2> QED
    BY <1>1, <1>3, <2>1, <2>2, <2>3, <2>4, <2>5
<1>9. \A i \in 1 .. n + 1 : t[i] = a \/ \E j \in 1 .. n : t[i] = s[j]
  <2> SUFFICES ASSUME NEW i \in 1 .. n + 1, t[i] # a
               PROVE  \E j \in 1 .. n : t[i] = s[j]
    OBVIOUS
  <2>1. CASE i < at
    <3>1. i \in 1 .. n
      BY <1>1, <1>3, <2>1
    <3> QED
      BY <1>4, <2>1, <3>1
  <2>2. CASE i > at
    <3>1. i - 1 \in 1 .. n /\ ~ (i < at) /\ i # at
      BY <1>1, <1>3, <2>2
    <3> QED
      BY <1>4, <3>1
  <2>3. i # at
    BY <1>3, <1>4
  <2> QED
    BY <1>1, <1>3, <2>1, <2>2, <2>3
<1>11. AreasSorted(t)
  <2>1. \A i \in 1 .. n + 1 : UserAccess(t[i].start, t[i].end)
    BY <1>9, <1>10
  <2> QED
    BY <1>4, <1>8, <2>1 DEF AreasSorted
<1>12. Elems(t) = Elems(s) \cup {a}
  <2>1. Elems(t) \subseteq Elems(s) \cup {a}
    BY <1>4, <1>9 DEF Elems, n
  <2>2. a \in Elems(t)
    <3>1. t[at] = a
      BY <1>3, <1>4
    <3> QED
      BY <1>3, <1>4, <3>1 DEF Elems
  <2>3. ASSUME NEW j \in 1 .. n PROVE \E i \in 1 .. n + 1 : t[i] = s[j]
    <3>1. CASE j < at
      <4>1. j \in 1 .. n + 1
        BY <1>1
      <4> QED
        BY <1>4, <3>1, <4>1
    <3>2. CASE j >= at
      <4>1. j + 1 \in 1 .. n + 1 /\ ~ (j + 1 < at) /\ j + 1 # at /\ (j + 1) - 1 = j
        BY <1>1, <1>3, <3>2
      <4>2. t[j + 1] = s[(j + 1) - 1]
        BY <1>4, <4>1
      <4> QED
        BY <4>1, <4>2
    <3> QED
      BY <1>1, <1>3, <3>1, <3>2
  <2>4. Elems(s) \subseteq Elems(t)
    BY <1>4, <2>3 DEF Elems, n
  <2> QED
    BY <2>1, <2>2, <2>4
<1>13. at > 1 => s[at - 1].end <= a.start
  <2> SUFFICES ASSUME at > 1
               PROVE  s[at - 1].end <= a.start
    OBVIOUS
  <2>1. at - 1 \in 1 .. n /\ at - 1 < at
    BY <1>1, <1>3
  <2> QED
    BY <1>6, <2>1
<1>14. at <= n => a.end <= s[at].start
  <2>1. at <= n => at \in 1 .. n /\ at >= at
    BY <1>1, <1>3
  <2> QED
    BY <1>7, <2>1
<1> QED
  BY <1>4, <1>11, <1>12, <1>13, <1>14 DEF n

\* x has got the area a.
AreaGained(u, r, x, a) ==
  /\ r.dir = u.dir /\ r.cr3 = u.cr3
  /\ \A y \in Mm : y # x => r.vma[y] = u.vma[y]
  /\ Elems(r.vma[x]) = Elems(u.vma[x]) \cup {a}
  /\ \A y \in Mm, z \in VPage :
       Pte(r, y, z) = Pte(u, y, z) /\ Content(r, y, z) = Content(u, y, z)

\* More areas, more that lies in them.
LEMMA MoreAreas ==
  ASSUME NEW s, NEW t, Elems(s) \subseteq Elems(t)
  PROVE  /\ \A v, w : InSome(s, v, w) => InSome(t, v, w)
         /\ \A d : TableInSome(s, d) => TableInSome(t, d)
<1>1. \A i \in 1 .. Len(s) : \E j \in 1 .. Len(t) : t[j] = s[i]
  BY DEF Elems
<1>2. ASSUME NEW v, NEW w, InSome(s, v, w) PROVE InSome(t, v, w)
  <2>1. PICK i \in 1 .. Len(s) : InArea(s[i], v) /\ (w <=> "write" \in s[i].flags)
    BY <1>2 DEF InSome
  <2>2. PICK j \in 1 .. Len(t) : t[j] = s[i]
    BY <1>1
  <2> QED
    BY <2>1, <2>2 DEF InSome
<1>3. ASSUME NEW d, TableInSome(s, d) PROVE TableInSome(t, d)
  <2>1. PICK i \in 1 .. Len(s) : PDX(s[i].start) <= d /\ d <= PDX(s[i].end - 1)
    BY <1>3 DEF TableInSome
  <2>2. PICK j \in 1 .. Len(t) : t[j] = s[i]
    BY <1>1
  <2> QED
    BY <2>1, <2>2 DEF TableInSome
<1> QED
  BY <1>2, <1>3

\* insert_vma_struct.
LEMMA AreaInserted ==
  ASSUME NEW u, NEW R, Good(u, R), NEW x \in Mm, u.dir[x] # NULL, NEW a \in AreaType,
         UserAccess(a.start, a.end), ApartFrom(u.vma[x], a)
  PROVE  Good(InsertVma(u, x, a), R) /\ AreaGained(u, InsertVma(u, x, a), x, a)
<1> DEFINE s == u.vma[x]
           at == PlaceOf(s, a)
           t == InsertAt(s, at, a)
           r == InsertVma(u, x, a)
           w == [u EXCEPT !.vma[x] = t]
<1>1. u \in Memories
  BY DEF Good
<1>2. s \in Seq(AreaType) /\ AreasSorted(s)
  BY <1>1, MemoryTypes DEF Good, SpaceSound
<1>10. s = u.vma[x] /\ at = PlaceOf(s, a) /\ t = InsertAt(s, at, a)
  OBVIOUS
<1> HIDE DEF s, at, t
<1>11. ApartFrom(s, a)
  BY <1>10
<1>3. /\ t \in Seq(AreaType) /\ AreasSorted(t) /\ Elems(t) = Elems(s) \cup {a}
      /\ at > 1 => s[at - 1].end <= a.start
      /\ at <= Len(s) => a.end <= s[at].start
  BY <1>2, <1>10, <1>11, SortedInsert
<1>4. r = w
  <2>1. a.start < a.end
    BY DEF UserAccess
  <2> QED
    BY <1>3, <1>10, <2>1 DEF InsertVma, Check
<1>5. /\ w.free = u.free /\ w.ref = u.ref /\ w.dir = u.dir /\ w.data = u.data /\ w.pt = u.pt
      /\ w.vma = [u.vma EXCEPT ![x] = t] /\ w.cache = u.cache
      /\ w.cr3 = u.cr3 /\ w.panic = u.panic /\ w.pte = u.pte /\ w.pra = u.pra
  BY <1>1, MemoryTypes
<1>6. w \in Memories
  <2>1. [u.vma EXCEPT ![x] = t] \in [Mm -> Seq(AreaType)]
    BY <1>1, <1>3, MemoryTypes
  <2> DEFINE V == [u.vma EXCEPT ![x] = t]
  <2>2. w = [u EXCEPT !.vma = V]
    BY <1>1, MemoryTypes
  <2> HIDE DEF w, V
  <2> QED
    BY <1>1, <2>1, <2>2 DEF Memories, V
<1> HIDE DEF r, w
<1>7. w.vma[x] = t /\ \A y \in Mm : y # x => w.vma[y] = u.vma[y]
  BY <1>1, <1>5, MemoryTypes
<1>8. /\ \A y, v : Pte(w, y, v) = Pte(u, y, v)
      /\ \A y, v : PageAt(w, y, v) = PageAt(u, y, v)
      /\ FrameOf(w) = FrameOf(u)
  BY <1>5, SameTables
<1>9. Referenced(w, R)
  BY <1>5, <1>8 DEF Good, Referenced
<1>12. SpaceSound(w, x)
  <2>1. SpaceSound(u, x)
    BY DEF Good
  <2>2. Elems(s) \subseteq Elems(t)
    BY <1>3
  <2>3. /\ \A v, b : InSome(s, v, b) => InSome(t, v, b)
        /\ \A d : TableInSome(s, d) => TableInSome(t, d)
    BY <2>2, MoreAreas
  <2> QED
    BY <1>3, <1>5, <1>7, <1>8, <1>10, <2>1, <2>2, <2>3 DEF SpaceSound
<1>13. \A y \in Mm : y # x => SpaceSound(w, y)
  BY <1>5, <1>7, SameSpace DEF Good
<1>14. Good(w, R)
  BY <1>5, <1>6, <1>8, <1>9, <1>12, <1>13 DEF Good
<1>15. AreaGained(u, w, x, a)
  BY <1>3, <1>5, <1>7, <1>8, <1>10 DEF AreaGained, Content
<1> QED
  BY <1>4, <1>14, <1>15 DEF r

----------------------------------------------------------------------------
(* A child gets a copy of its parent's memory.                             *)

\* The pages lo .. hi - 1 of x hold what those of from hold, and the rest is as
\* it was.
Copied(u, r, x, from, lo, hi) ==
  /\ r.dir = u.dir /\ r.vma = u.vma /\ r.cr3 = u.cr3
  /\ \A y \in Mm, z \in VPage : ~ (y = x /\ lo <= z /\ z < hi) =>
       Pte(r, y, z) = Pte(u, y, z) /\ Content(r, y, z) = Content(u, y, z)
  /\ \A z \in VPage : lo <= z /\ z < hi => Content(r, x, z) = Content(u, from, z)

\* One page more.
LEMMA CopiedOnce ==
  ASSUME NEW u, NEW w, NEW r, NEW x \in Mm, NEW from \in Mm, from # x,
         NEW lo \in Int, NEW v \in VPage, lo <= v, Copied(u, w, x, from, lo, v),
         Kept(w, r, x, v), Content(r, x, v) = Content(w, from, v)
  PROVE  Copied(u, r, x, from, lo, v + 1)
<1>1. v \in Int /\ VPage \subseteq Int
  BY Constants
<1>2. r.dir = u.dir /\ r.vma = u.vma /\ r.cr3 = u.cr3
  BY DEF Copied, Kept
<1>3. ASSUME NEW y \in Mm, NEW z \in VPage, ~ (y = x /\ lo <= z /\ z < v + 1)
      PROVE  Pte(r, y, z) = Pte(u, y, z) /\ Content(r, y, z) = Content(u, y, z)
  <2>1. ~ (y = x /\ lo <= z /\ z < v) /\ ~ (y = x /\ z = v)
    BY <1>1, <1>3
  <2> QED
    BY <2>1 DEF Copied, Kept
<1>4. ASSUME NEW z \in VPage, lo <= z, z < v + 1
      PROVE  Content(r, x, z) = Content(u, from, z)
  <2>1. CASE z = v
    <3>1. Content(w, from, v) = Content(u, from, v)
      BY DEF Copied
    <3> QED
      BY <2>1, <3>1
  <2>2. CASE z # v
    <3>1. z < v
      BY <1>1, <1>4, <2>2
    <3>2. Content(w, x, z) = Content(u, from, z)
      BY <1>4, <3>1 DEF Copied
    <3> QED
      BY <2>2, <3>2 DEF Kept
  <2> QED
    BY <2>1, <2>2
<1> QED
  BY <1>2, <1>3, <1>4 DEF Copied

\* The pages lo .. hi - 1 of from can be mapped by x.
Copyable(u, x, from, lo, hi) ==
  \A v \in VPage : lo <= v /\ v < hi =>
    /\ PageAt(u, x, v) = NULL
    /\ PageAt(u, from, v) # NULL => InSome(u.vma[x], v, Pte(u, from, v).write)

\* copy_range.
LEMMA RangeCopied ==
  ASSUME NEW u, NEW R, Good(u, R), NEW x \in Mm, NEW from \in Mm, from # x,
         NEW lo \in Nat, NEW hi \in Nat, lo <= hi, hi <= USERTOP,
         Copyable(u, x, from, lo, hi)
  PROVE  \/ Oom(CopyRange(u, x, from, lo, hi))
         \/ /\ Good(CopyRange(u, x, from, lo, hi), R)
            /\ Copied(u, CopyRange(u, x, from, lo, hi), x, from, lo, hi)
<1>1. PICK w : /\ CopyRange(u, x, from, lo, hi) = w[hi]
               /\ w[lo] = u
               /\ \A i \in lo + 1 .. hi : w[i] = CopyPage(w[i - 1], x, from, i - 1)
  <2>1. lo \in Int /\ hi \in Int
    OBVIOUS
  <2> QED
    BY <2>1, CopyRangeIs
<1> DEFINE P == {i \in lo .. hi :
                   Oom(w[i]) \/ (Good(w[i], R) /\ Copied(u, w[i], x, from, lo, i))}
<1>2. lo \in P
  <2>1. VPage \subseteq Int
    BY Constants
  <2>2. Copied(u, u, x, from, lo, lo)
    BY <2>1 DEF Copied
  <2> QED
    BY <1>1, <2>2
<1>3. ASSUME NEW i \in lo + 1 .. hi, i - 1 \in P PROVE i \in P
  <2> DEFINE v == i - 1
             a == w[v]
             b == w[i]
  <2>1. b = CopyPage(a, x, from, v)
    BY <1>1
  <2>2. v \in VPage /\ lo <= v /\ v < hi /\ i \in lo .. hi /\ v + 1 = i
    BY MemoryAssumption DEF VPage
  <2>3. Oom(a) \/ (Good(a, R) /\ Copied(u, a, x, from, lo, v))
    BY <1>3
  <2> HIDE DEF v, a, b
  <2>4. Oom(b) \/ (Good(b, R) /\ Copied(u, b, x, from, lo, i))
    <3>1. CASE Oom(a)
      BY <2>1, <3>1, OomPages
    <3>2. CASE Good(a, R) /\ Copied(u, a, x, from, lo, v)
      <4>1. v \in Int
        BY <2>2, Constants
      <4>2. /\ Pte(a, x, v) = Pte(u, x, v) /\ Pte(a, from, v) = Pte(u, from, v)
            /\ a.vma = u.vma
        BY <2>2, <3>2, <4>1 DEF Copied
      <4>3. /\ PageAt(a, x, v) = NULL
            /\ PageAt(a, from, v) # NULL => InSome(a.vma[x], v, Pte(a, from, v).write)
        BY <2>2, <4>2 DEF PageAt, Copyable
      <4>4. \/ Oom(CopyPage(a, x, from, v))
            \/ /\ Good(CopyPage(a, x, from, v), R)
               /\ Kept(a, CopyPage(a, x, from, v), x, v)
               /\ Content(CopyPage(a, x, from, v), x, v) = Content(a, from, v)
        BY <2>2, <3>2, <4>3, PageCopied
      <4>5. CASE Oom(b)
        BY <4>5
      <4>6. CASE Good(b, R) /\ Kept(a, b, x, v) /\ Content(b, x, v) = Content(a, from, v)
        <5>1. Copied(u, b, x, from, lo, v + 1)
          BY <2>2, <3>2, <4>6, CopiedOnce
        <5> QED
          BY <2>2, <4>6, <5>1
      <4> QED
        BY <2>1, <4>4, <4>5, <4>6
    <3> QED
      BY <2>3, <3>1, <3>2
  <2> QED
    BY <2>2, <2>4 DEF b
<1>4. hi \in P
  <2> HIDE DEF P
  <2>1. \A i \in lo .. hi : i \in P
    BY <1>2, <1>3, UpTo
  <2> QED
    BY <2>1
<1> QED
  BY <1>1, <1>4

\* What lies in none of the areas is not mapped.
LEMMA NotInAreas ==
  ASSUME NEW u, NEW R, Good(u, R), NEW x \in Mm, NEW v \in VPage,
         \A a \in Elems(u.vma[x]) : ~ InArea(a, v)
  PROVE  PageAt(u, x, v) = NULL /\ Content(u, x, v) = Junk
<1>1. PageAt(u, x, v) = NULL
  <2> SUFFICES ASSUME PageAt(u, x, v) # NULL
               PROVE  FALSE
    OBVIOUS
  <2>1. InSome(u.vma[x], v, Pte(u, x, v).write)
    BY DEF Good, SpaceSound
  <2> QED
    BY <2>1 DEF InSome, Elems
<1> QED
  BY <1>1 DEF Content

\* x has the same areas as from, with the same contents.
Twin(r, x, from) ==
  /\ Elems(r.vma[x]) = Elems(r.vma[from])
  /\ \A v \in VPage : Content(r, x, v) = Content(r, from, v)

\* dup_mmap.
LEMMA AreasCopied ==
  ASSUME NEW u, NEW R, Good(u, R), NEW x \in Mm, NEW from \in Mm, from # x,
         u.dir[x] # NULL, u.vma[x] = <<>>
  PROVE  \/ Oom(DupMmap(u, x, from))
         \/ /\ Good(DupMmap(u, x, from), R) /\ Others(u, DupMmap(u, x, from), x)
            /\ DupMmap(u, x, from).dir[x] = u.dir[x]
            /\ Twin(DupMmap(u, x, from), x, from)
<1> DEFINE s == u.vma[from]
           hi == Len(s)
           Later(i) == {s[j] : j \in i + 1 .. hi}
           r == DupMmap(u, x, from)
<1>1. s \in Seq(AreaType) /\ AreasSorted(s)
  BY MemoryTypes DEF Good, SpaceSound
<1>0. s = u.vma[from]
  OBVIOUS
<1>2. PICK w : /\ r = w[0]
               /\ w[Len(u.vma[from])] = u
               /\ \A i \in 1 .. Len(u.vma[from]) :
                    w[i - 1] = CopyRange(InsertVma(w[i], x, u.vma[from][i]), x, from,
                                         u.vma[from][i].start, u.vma[from][i].end)
  <2>1. Len(u.vma[from]) \in Nat
    BY <1>1
  <2> QED
    BY <2>1, DupMmapIs
<1> HIDE DEF s, r
<1>3. /\ hi \in Nat /\ w[hi] = u
      /\ \A i \in 1 .. hi : w[i - 1] = CopyRange(InsertVma(w[i], x, s[i]), x, from,
                                                 s[i].start, s[i].end)
  BY <1>0, <1>1, <1>2
<1>4. /\ \A i \in 1 .. hi : /\ s[i] \in AreaType /\ UserAccess(s[i].start, s[i].end)
                            /\ s[i].start \in Nat /\ s[i].end \in Nat
                            /\ s[i].start < s[i].end /\ s[i].end <= USERTOP
      /\ \A i, j \in 1 .. hi : i < j => s[i].end <= s[j].start
  <2>1. \A i \in 1 .. hi : s[i] \in AreaType
    BY <1>1
  <2>3. \A a \in AreaType : a.start \in Nat /\ a.end \in Nat
    BY MemoryAssumption DEF AreaType, VPage
  <2> QED
    BY <1>1, <2>1, <2>3 DEF AreasSorted, UserAccess
<1>5. Later(hi) = {} /\ Later(0) = Elems(s)
  BY <1>3 DEF Elems
<1>6. \A i \in 1 .. hi : Later(i - 1) = Later(i) \cup {s[i]}
  <2> SUFFICES ASSUME NEW i \in 1 .. hi
               PROVE  Later(i - 1) = Later(i) \cup {s[i]}
    OBVIOUS
  <2>1. (i - 1) + 1 .. hi = (i + 1 .. hi) \cup {i}
    BY <1>3
  <2> QED
    BY <2>1
<1>7. \A i \in 1 .. hi : \A a \in Later(i) : s[i].end <= a.start
  <2> SUFFICES ASSUME NEW i \in 1 .. hi, NEW j \in i + 1 .. hi
               PROVE  s[i].end <= s[j].start
    OBVIOUS
  <2>1. j \in 1 .. hi /\ i < j
    BY <1>3
  <2> QED
    BY <1>4, <2>1
<1> DEFINE P == {i \in 0 .. hi :
                   \/ Oom(w[i])
                   \/ /\ Good(w[i], R) /\ Others(u, w[i], x) /\ w[i].dir = u.dir
                      /\ Elems(w[i].vma[x]) = Later(i)
                      /\ \A v \in VPage : (\E a \in Later(i) : InArea(a, v)) =>
                           Content(w[i], x, v) = Content(u, from, v)}
<1>8. hi \in P
  <2>1. Elems(u.vma[x]) = {}
    BY EmptyOnce
  <2>2. Others(u, u, x)
    BY OthersTwice
  <2>3. hi \in 0 .. hi
    BY <1>3
  <2> HIDE DEF Later, hi
  <2> QED
    BY <1>3, <1>5, <2>1, <2>2, <2>3
<1> HIDE DEF Later, hi
<1>9. ASSUME NEW i \in 1 .. hi, i \in P PROVE i - 1 \in P
  <2> DEFINE b == w[i]
             a == s[i]
             c == InsertVma(b, x, a)
             lo == a.start
             end == a.end
             d == CopyRange(c, x, from, lo, end)
  <2>1. w[i - 1] = d /\ i - 1 \in 0 .. hi
    BY <1>3
  <2>2. /\ a \in AreaType /\ UserAccess(a.start, a.end)
        /\ lo \in Nat /\ end \in Nat /\ lo < end /\ end <= USERTOP
    BY <1>4
  <2>3. \/ Oom(b)
        \/ /\ Good(b, R) /\ Others(u, b, x) /\ b.dir = u.dir /\ Elems(b.vma[x]) = Later(i)
           /\ \A v \in VPage : (\E e \in Later(i) : InArea(e, v)) =>
                Content(b, x, v) = Content(u, from, v)
    BY <1>9
  <2>4. \A e \in Later(i) : a.end <= e.start
    BY <1>7
  <2>5. Later(i - 1) = Later(i) \cup {a}
    BY <1>6
  <2>6. ASSUME NEW v \in VPage, PageAt(u, from, v) # NULL, InArea(a, v)
        PROVE  Pte(u, from, v).write <=> "write" \in a.flags
    <3>1. InSome(s, v, Pte(u, from, v).write)
      BY <1>0, <2>6 DEF Good, SpaceSound
    <3>2. PICK k \in 1 .. hi : InArea(s[k], v) /\ (Pte(u, from, v).write <=> "write" \in s[k].flags)
      BY <3>1 DEF InSome, hi
    <3>3. v \in Int
      BY Constants
    <3>4. ~ (k < i)
      BY <1>4, <2>2, <2>6, <3>2, <3>3 DEF InArea, lo
    <3>5. ~ (i < k)
      BY <1>4, <2>2, <2>6, <3>2, <3>3 DEF InArea, end
    <3>6. k = i
      BY <1>3, <3>4, <3>5
    <3> QED
      BY <3>2, <3>6
  <2>7. CASE Oom(b)
    <3>1. Oom(c)
      BY <2>2, <2>7, OomInsert
    <3> HIDE DEF c, lo, end, a
    <3>2. Oom(d)
      BY <2>2, <3>1, OomRanges
    <3> QED
      BY <2>1, <3>2
  <2>8. CASE /\ Good(b, R) /\ Others(u, b, x) /\ b.dir = u.dir /\ Elems(b.vma[x]) = Later(i)
             /\ \A v \in VPage : (\E e \in Later(i) : InArea(e, v)) =>
                  Content(b, x, v) = Content(u, from, v)
    <3>20. lo = a.start /\ end = a.end /\ d = CopyRange(c, x, from, lo, end)
           /\ c = InsertVma(b, x, a)
      OBVIOUS
    <3> HIDE DEF a, b, c, lo, end, d
    <3>1. ApartFrom(b.vma[x], a)
      BY <2>4, <2>8 DEF ApartFrom, Elems
    <3>2. Good(c, R) /\ AreaGained(b, c, x, a)
      BY <2>2, <2>8, <3>1, <3>20, AreaInserted
    <3>3. Others(b, c, x)
      BY <3>2 DEF AreaGained, Others
    <3>4. Others(u, c, x)
      BY <2>8, <3>3, OthersTwice
    <3>5. ASSUME NEW v \in VPage, lo <= v, v < end
          PROVE  /\ PageAt(c, x, v) = NULL
                 /\ PageAt(c, from, v) # NULL => InSome(c.vma[x], v, Pte(c, from, v).write)
      <4>1. Pte(c, x, v) = Pte(b, x, v) /\ PageAt(c, x, v) = PageAt(b, x, v)
        BY <3>2 DEF AreaGained, PageAt
      <4>2. v \in Int
        BY Constants
      <4>3. ASSUME NEW e \in Later(i) PROVE ~ InArea(e, v)
        <5>1. a.end <= e.start
          BY <2>4
        <5>2. e.start \in Int
          <6>1. e \in Elems(b.vma[x])
            BY <2>8
          <6>2. Elems(b.vma[x]) \subseteq AreaType
            BY <2>8, MemoryTypes, ElemsType DEF Good
          <6> QED
            BY <6>1, <6>2, MemoryAssumption DEF AreaType, VPage
        <5> QED
          BY <2>2, <3>5, <3>20, <4>2, <5>1, <5>2 DEF InArea
      <4>4. PageAt(b, x, v) = NULL
        BY <2>8, <4>3, NotInAreas
      <4>5. ASSUME PageAt(c, from, v) # NULL
            PROVE  InSome(c.vma[x], v, Pte(c, from, v).write)
        <5>1. Pte(c, from, v) = Pte(u, from, v)
          BY <3>4 DEF Others
        <5>2. PageAt(u, from, v) # NULL
          BY <4>5, <5>1 DEF PageAt
        <5>3. InArea(a, v)
          BY <3>5, <3>20 DEF InArea
        <5>4. Pte(u, from, v).write <=> "write" \in a.flags
          BY <2>6, <5>2, <5>3
        <5>5. a \in Elems(c.vma[x])
          BY <3>2 DEF AreaGained
        <5> QED
          BY <5>1, <5>3, <5>4, <5>5 DEF InSome, Elems
      <4> QED
        BY <4>1, <4>4, <4>5
    <3>6. \/ Oom(CopyRange(c, x, from, lo, end))
          \/ /\ Good(CopyRange(c, x, from, lo, end), R)
             /\ Copied(c, CopyRange(c, x, from, lo, end), x, from, lo, end)
      <4>1. Copyable(c, x, from, lo, end)
        BY <3>5 DEF Copyable
      <4> QED
        BY <2>2, <3>2, <4>1, RangeCopied
    <3>7. CASE Oom(d)
      BY <2>1, <3>7
    <3>8. CASE Good(d, R) /\ Copied(c, d, x, from, lo, end)
      <4>1. Others(c, d, x)
        BY <3>8 DEF Copied, Others
      <4>2. Others(u, d, x)
        BY <3>4, <4>1, OthersTwice
      <4>3. d.dir = u.dir
        BY <2>8, <3>2, <3>8 DEF Copied, AreaGained
      <4>4. Elems(d.vma[x]) = Later(i - 1)
        <5>1. d.vma = c.vma
          BY <3>8 DEF Copied
        <5>2. Elems(c.vma[x]) = Elems(b.vma[x]) \cup {a}
          BY <3>2 DEF AreaGained
        <5> QED
          BY <2>5, <2>8, <5>1, <5>2
      <4>5. ASSUME NEW v \in VPage, NEW e \in Later(i - 1), InArea(e, v)
            PROVE  Content(d, x, v) = Content(u, from, v)
        <5>1. CASE lo <= v /\ v < end
          <6>1. Content(d, x, v) = Content(c, from, v)
            BY <3>8, <5>1 DEF Copied
          <6>2. Content(c, from, v) = Content(u, from, v)
            BY <3>4 DEF Others
          <6> QED
            BY <6>1, <6>2
        <5>2. CASE ~ (lo <= v /\ v < end)
          <6>1. e \in Later(i)
            BY <2>5, <3>20, <4>5, <5>2 DEF InArea
          <6>2. Content(b, x, v) = Content(u, from, v)
            BY <2>8, <4>5, <6>1
          <6>3. Content(d, x, v) = Content(c, x, v)
            BY <3>8, <5>2 DEF Copied
          <6>4. Content(c, x, v) = Content(b, x, v)
            BY <3>2 DEF AreaGained
          <6> QED
            BY <6>2, <6>3, <6>4
        <5> QED
          BY <5>1, <5>2
      <4> QED
        BY <2>1, <3>8, <4>2, <4>3, <4>4, <4>5
    <3> QED
      BY <3>6, <3>7, <3>8, <3>20
  <2> QED
    BY <2>3, <2>7, <2>8
<1>10. 0 \in P
  <2> HIDE DEF P
  <2> QED
    BY <1>3, <1>8, <1>9, DownTo0
<1>11. CASE Oom(w[0])
  BY <1>2, <1>11 DEF r
<1>12. CASE /\ Good(w[0], R) /\ Others(u, w[0], x) /\ w[0].dir = u.dir
            /\ Elems(w[0].vma[x]) = Later(0)
            /\ \A v \in VPage : (\E a \in Later(0) : InArea(a, v)) =>
                 Content(w[0], x, v) = Content(u, from, v)
  <2> DEFINE c == w[0]
  <2>1. c.vma[from] = s /\ \A v \in VPage : Content(c, from, v) = Content(u, from, v)
    BY <1>0, <1>12 DEF Others
  <2>2. /\ Good(c, R) /\ Elems(c.vma[x]) = Elems(s)
        /\ \A v \in VPage : (\E a \in Elems(s) : InArea(a, v)) =>
                 Content(c, x, v) = Content(u, from, v)
    BY <1>5, <1>12
  <2> HIDE DEF c
  <2>3. ASSUME NEW v \in VPage PROVE Content(c, x, v) = Content(c, from, v)
    <3>1. CASE \E a \in Elems(s) : InArea(a, v)
      BY <2>1, <2>2, <3>1
    <3>2. CASE \A a \in Elems(s) : ~ InArea(a, v)
      <4>1. Content(c, x, v) = Junk
        BY <2>2, <3>2, NotInAreas
      <4>2. Content(c, from, v) = Junk
        BY <2>1, <2>2, <3>2, NotInAreas
      <4> QED
        BY <4>1, <4>2
    <3> QED
      BY <3>1, <3>2
  <2>4. Twin(c, x, from)
    BY <2>1, <2>2, <2>3 DEF Twin
  <2> QED
    BY <1>2, <1>12, <2>4 DEF r, c
<1> QED
  BY <1>10, <1>11, <1>12

\* copy_mm.
LEMMA SpaceCopied ==
  ASSUME NEW u, NEW R, Good(u, R), NEW x \in Mm, u.dir[x] = NULL,
         NEW from \in Mm, from # x
  PROVE  \/ Oom(CopyMm(u, x, from))
         \/ /\ Good(CopyMm(u, x, from), R) /\ Others(u, CopyMm(u, x, from), x)
            /\ CopyMm(u, x, from).dir[x] # NULL
            /\ Twin(CopyMm(u, x, from), x, from)
<1> DEFINE c == SetupPgdir(MmCreate(u, x), x)
           r == DupMmap(c, x, from)
<1>1. CopyMm(u, x, from) = r
  BY DEF CopyMm
<1>2. CASE Oom(c)
  <2> HIDE DEF c
  <2>1. Oom(r)
    BY <1>2, OomWhole
  <2> QED
    BY <1>1, <2>1
<1>3. CASE /\ Good(c, R) /\ Others(u, c, x) /\ c.dir[x] # NULL /\ c.vma[x] = <<>>
           /\ \A v \in VPage : PageAt(c, x, v) = NULL
  <2> HIDE DEF c
  <2>1. \/ Oom(r)
        \/ Good(r, R) /\ Others(c, r, x) /\ r.dir[x] = c.dir[x] /\ Twin(r, x, from)
    BY <1>3, AreasCopied
  <2> HIDE DEF r
  <2>2. Others(c, r, x) => Others(u, r, x)
    BY <1>3, OthersTwice
  <2> QED
    BY <1>1, <1>3, <2>1, <2>2
<1>4. \/ Oom(c)
      \/ /\ Good(c, R) /\ Others(u, c, x) /\ c.dir[x] # NULL /\ c.vma[x] = <<>>
         /\ \A v \in VPage : PageAt(c, x, v) = NULL
  BY SpaceCreated
<1> QED
  BY <1>2, <1>3, <1>4

----------------------------------------------------------------------------
(* Areas are looked up, and mapped anew.                                   *)

\* find_vma returns an area of the list that contains v, if there is one.
LEMMA VmaFound ==
  ASSUME NEW u, NEW R, Good(u, R), NEW x \in Mm, NEW v \in Int
  PROVE  \/ FindVma(u, x, v) = NULL /\ \A a \in Elems(u.vma[x]) : ~ InArea(a, v)
         \/ /\ FindVma(u, x, v) # NULL /\ FindVma(u, x, v) \in Elems(u.vma[x])
            /\ FindVma(u, x, v) \in AreaType /\ InArea(FindVma(u, x, v), v)
<1> DEFINE s == u.vma[x]
           hits == {i \in DOMAIN s : InArea(s[i], v)}
           c == u.cache[x]
<1>1. /\ s \in Seq(AreaType) /\ Elems(s) \subseteq AreaType
      /\ c # NULL => c \in Elems(s)
  <2>1. s \in Seq(AreaType)
    BY MemoryTypes DEF Good
  <2>2. Elems(s) \subseteq AreaType
    <3> HIDE DEF s
    <3> QED
      BY <2>1, ElemsType
  <2> QED
    BY <2>1, <2>2 DEF Good, SpaceSound
<1>2. NULL \notin AreaType
  BY Constants
<1>3. FindVma(u, x, v) = IF c # NULL /\ InArea(c, v) THEN c
                         ELSE IF hits = {} THEN NULL ELSE s[Min(hits)]
  BY DEF FindVma
<1>4. CASE c # NULL /\ InArea(c, v)
  <2>1. FindVma(u, x, v) = c
    BY <1>3, <1>4
  <2> QED
    BY <1>1, <1>2, <1>4, <2>1
<1> HIDE DEF c
<1>5. CASE ~ (c # NULL /\ InArea(c, v)) /\ hits = {}
  <2>1. FindVma(u, x, v) = NULL
    BY <1>3, <1>5
  <2>2. \A a \in Elems(s) : ~ InArea(a, v)
    <3>1. DOMAIN s = 1 .. Len(s)
      BY <1>1
    <3> HIDE DEF s
    <3> QED
      BY <1>5, <3>1 DEF Elems
  <2> QED
    BY <2>1, <2>2
<1>6. CASE ~ (c # NULL /\ InArea(c, v)) /\ hits # {}
  <2>1. hits \in SUBSET Nat /\ DOMAIN s = 1 .. Len(s)
    BY <1>1
  <2>2. Min(hits) \in hits
    <3> HIDE DEF hits
    <3> QED
      BY <1>6, <2>1, LeastPlace
  <2> DEFINE i == Min(hits)
  <2>3. i \in 1 .. Len(s) /\ InArea(s[i], v)
    BY <2>1, <2>2
  <2>4. FindVma(u, x, v) = s[i]
    BY <1>3, <1>6
  <2>5. s[i] \in Elems(s)
    <3> HIDE DEF s, i
    <3> QED
      BY <2>3 DEF Elems
  <2> QED
    BY <1>1, <1>2, <2>3, <2>4, <2>5
<1> QED
  BY <1>4, <1>5, <1>6

\* What FindVma finds may become the cached area.
LEMMA AreaLooked ==
  ASSUME NEW u, NEW R, Good(u, R), NEW x \in Mm, NEW v \in Int
  PROVE  /\ Good(Looked(u, x, v), R)
         /\ Looked(u, x, v).dir = u.dir /\ Looked(u, x, v).vma = u.vma
         /\ Looked(u, x, v).cr3 = u.cr3 /\ Looked(u, x, v).pt = u.pt
         /\ \A y \in Mm, z \in VPage : /\ Pte(Looked(u, x, v), y, z) = Pte(u, y, z)
                                       /\ Content(Looked(u, x, v), y, z) = Content(u, y, z)
<1> DEFINE a == FindVma(u, x, v)
           w == [u EXCEPT !.cache[x] = a]
<1>1. u \in Memories
  BY DEF Good
<1>2. CASE a = NULL
  BY <1>2 DEF Looked
<1>3. CASE a # NULL
  <2>1. Looked(u, x, v) = w
    BY <1>3 DEF Looked
  <2>2. a \in AreaType /\ a \in Elems(u.vma[x])
    BY <1>3, VmaFound
  <2> HIDE DEF a
  <2>3. /\ w.free = u.free /\ w.ref = u.ref /\ w.dir = u.dir /\ w.data = u.data /\ w.pt = u.pt
        /\ w.vma = u.vma /\ w.cache = [u.cache EXCEPT ![x] = a]
        /\ w.cr3 = u.cr3 /\ w.panic = u.panic /\ w.pte = u.pte /\ w.pra = u.pra
    BY <1>1, MemoryTypes
  <2>4. w \in Memories
    <3> DEFINE C == [u.cache EXCEPT ![x] = a]
    <3>1. C \in [Mm -> AreaType \cup {NULL}]
      BY <1>1, <2>2, MemoryTypes
    <3>2. w = [u EXCEPT !.cache = C]
      BY <1>1, MemoryTypes
    <3> HIDE DEF w, C
    <3> QED
      BY <1>1, <3>1, <3>2 DEF Memories
  <2> HIDE DEF w
  <2>5. /\ \A y, z : Pte(w, y, z) = Pte(u, y, z)
        /\ \A y, z : PageAt(w, y, z) = PageAt(u, y, z)
        /\ FrameOf(w) = FrameOf(u)
    BY <2>3, SameTables
  <2>6. Referenced(w, R)
    BY <2>3, <2>5 DEF Good, Referenced
  <2>7. \A y \in Mm : w.cache[y] = IF y = x THEN a ELSE u.cache[y]
    BY <1>1, <2>3, MemoryTypes
  <2>8. \A y \in Mm : SpaceSound(w, y)
    BY <2>2, <2>3, <2>5, <2>7 DEF Good, SpaceSound
  <2>9. Good(w, R)
    BY <2>3, <2>4, <2>5, <2>6, <2>8 DEF Good
  <2>10. \A y \in Mm, z \in VPage : Content(w, y, z) = Content(u, y, z)
    BY <2>3, <2>5 DEF Content
  <2> QED
    BY <2>1, <2>3, <2>5, <2>9, <2>10
<1> QED
  BY <1>2, <1>3

\* mm_map is careful enough when all areas start below the new one.
LEMMA MayMapApart ==
  ASSUME NEW u, NEW R, Good(u, R), NEW x \in Mm, NEW lo \in Nat, NEW hi \in Nat,
         NEW flags \in SUBSET {"read", "write", "exec", "stack"},
         MayMap(u, x, lo, hi), \A b \in Elems(u.vma[x]) : b.start <= lo
  PROVE  ApartFrom(u.vma[x], Area(lo, hi, flags))
<1> DEFINE s == u.vma[x]
           a == Area(lo, hi, flags)
<1>1. FindVma(u, x, lo) = NULL
  BY DEF MayMap
<1>2. \A b \in Elems(s) : ~ InArea(b, lo)
  BY <1>1, VmaFound
<1>3. a.start = lo
  BY DEF Area
<1>4. \A i \in 1 .. Len(s) : s[i].start \in Int /\ s[i].end \in Int
  <2>1. s \in Seq(AreaType)
    BY MemoryTypes DEF Good
  <2>2. \A i \in 1 .. Len(s) : s[i] \in AreaType
    <3> HIDE DEF s
    <3> QED
      BY <2>1
  <2> QED
    BY <2>2, MemoryAssumption DEF AreaType, VPage
<1>5. \A b \in Elems(s) : b.start <= lo
  OBVIOUS
<1> HIDE DEF s, a
<1>6. \A i \in 1 .. Len(s) : s[i].end <= a.start
  BY <1>2, <1>3, <1>4, <1>5 DEF Elems, InArea
<1> QED
  BY <1>6 DEF ApartFrom, s, a

\* Pages of the area a, none of them twice, with what they are to hold.
PagesOf(pages, a) ==
  /\ Len(pages) \in Nat
  /\ \A i \in 1 .. Len(pages) :
       pages[i][1] \in VPage /\ InArea(a, pages[i][1]) /\ pages[i][2] \in Int
  /\ \A i, j \in 1 .. Len(pages) : pages[i][1] = pages[j][1] => i = j

\* The first i pages are there, x has the area a, and the rest is as it was.
PagesIn(u, r, x, a, pages, i) ==
  /\ Others(u, r, x) /\ r.dir = u.dir
  /\ Elems(r.vma[x]) = Elems(u.vma[x]) \cup {a}
  /\ \A j \in 1 .. Len(pages) :
       IF j <= i THEN Content(r, x, pages[j][1]) = pages[j][2]
                 ELSE PageAt(r, x, pages[j][1]) = NULL
  /\ \A z \in VPage : (\A j \in 1 .. Len(pages) : z # pages[j][1]) =>
       Content(r, x, z) = Content(u, x, z)

\* One page more.
LEMMA PagesInOnce ==
  ASSUME NEW u, NEW w, NEW r, NEW x \in Mm, NEW a, NEW pages, PagesOf(pages, a),
         NEW i \in 1 .. Len(pages), PagesIn(u, w, x, a, pages, i - 1),
         Kept(w, r, x, pages[i][1]), Content(r, x, pages[i][1]) = pages[i][2]
  PROVE  PagesIn(u, r, x, a, pages, i)
<1> DEFINE v == pages[i][1]
<1>0. v \in VPage /\ Len(pages) \in Nat
  BY DEF PagesOf
<1>1. Others(u, r, x) /\ r.dir = u.dir /\ r.vma = w.vma
  <2>1. Others(w, r, x)
    BY <1>0, OthersTwice
  <2> QED
    BY <2>1, OthersTwice DEF PagesIn, Kept
<1>2. \A z \in VPage : z # v => Content(r, x, z) = Content(w, x, z) /\ Pte(r, x, z) = Pte(w, x, z)
  BY DEF Kept
<1>3. ASSUME NEW j \in 1 .. Len(pages)
      PROVE  IF j <= i THEN Content(r, x, pages[j][1]) = pages[j][2]
                       ELSE PageAt(r, x, pages[j][1]) = NULL
  <2>1. CASE j = i
    BY <1>0, <2>1
  <2>2. CASE j # i
    <3>1. pages[j][1] # v /\ pages[j][1] \in VPage
      BY <2>2 DEF PagesOf
    <3>2. /\ Content(r, x, pages[j][1]) = Content(w, x, pages[j][1])
          /\ PageAt(r, x, pages[j][1]) = PageAt(w, x, pages[j][1])
      BY <1>2, <3>1 DEF PageAt
    <3>3. j <= i <=> j <= i - 1
      BY <1>0, <2>2
    <3>4. IF j <= i - 1 THEN Content(w, x, pages[j][1]) = pages[j][2]
                        ELSE PageAt(w, x, pages[j][1]) = NULL
      BY DEF PagesIn
    <3> QED
      BY <3>2, <3>3, <3>4
  <2> QED
    BY <2>1, <2>2
<1>4. ASSUME NEW z \in VPage, \A j \in 1 .. Len(pages) : z # pages[j][1]
      PROVE  Content(r, x, z) = Content(u, x, z)
  <2>1. z # v
    BY <1>4
  <2>2. Content(w, x, z) = Content(u, x, z)
    BY <1>4 DEF PagesIn
  <2> QED
    BY <1>2, <2>1, <2>2
<1>5. Elems(r.vma[x]) = Elems(u.vma[x]) \cup {a}
  BY <1>1 DEF PagesIn
<1> QED
  BY <1>1, <1>3, <1>4, <1>5 DEF PagesIn

\* mm_map, and the pages that load_icode allocates then.
LEMMA PagesMapped ==
  ASSUME NEW u, NEW R, Good(u, R), NEW x \in Mm, u.dir[x] # NULL,
         NEW lo, NEW hi, NEW flags, NEW a, a = Area(lo, hi, flags), a \in AreaType,
         UserAccess(lo, hi), ApartFrom(u.vma[x], a), NEW pages, PagesOf(pages, a)
  PROVE  \/ Oom(MapPages(u, x, lo, hi, flags, pages))
         \/ /\ Good(MapPages(u, x, lo, hi, flags, pages), R)
            /\ PagesIn(u, MapPages(u, x, lo, hi, flags, pages), x, a, pages, Len(pages))
<1> DEFINE n == Len(pages)
           f == "write" \in flags
           c == InsertVma(u, x, a)
<1>1. n \in Nat
  BY DEF PagesOf
<1>2. a.start = lo /\ a.end = hi /\ a.flags = flags
  BY DEF Area
<1>3. PICK w : /\ MapPages(u, x, lo, hi, flags, pages) = w[Len(pages)]
               /\ w[0] = c
               /\ \A i \in 1 .. Len(pages) :
                    w[i] = PgdirAllocPage(w[i - 1], x, pages[i][1], f, pages[i][2])
  BY <1>1, MapPagesIs
<1>4. Good(c, R) /\ AreaGained(u, c, x, a)
  <2>1. UserAccess(a.start, a.end)
    BY <1>2
  <2> QED
    BY <2>1, AreaInserted
<1> HIDE DEF c
<1>5. \A z \in VPage : InArea(a, z) => PageAt(u, x, z) = NULL
  <2> SUFFICES ASSUME NEW z \in VPage, InArea(a, z)
               PROVE  PageAt(u, x, z) = NULL
    OBVIOUS
  <2> DEFINE s == u.vma[x]
  <2>1. s \in Seq(AreaType)
    BY MemoryTypes DEF Good
  <2> HIDE DEF s
  <2>2. \A i \in 1 .. Len(s) : s[i] \in AreaType
    BY <2>1
  <2>3. \A b \in AreaType : b.start \in Int /\ b.end \in Int
    BY MemoryAssumption DEF AreaType, VPage
  <2>4. z \in Int
    BY Constants
  <2>5. \A i \in 1 .. Len(s) : s[i].end <= a.start \/ a.end <= s[i].start
    BY DEF ApartFrom, s
  <2>6. \A i \in 1 .. Len(s) : ~ InArea(s[i], z)
    BY <2>2, <2>3, <2>4, <2>5 DEF InArea
  <2>7. \A b \in Elems(s) : ~ InArea(b, z)
    BY <2>6 DEF Elems
  <2> QED
    BY <2>7, NotInAreas DEF s
<1> DEFINE P == {i \in 0 .. n :
                   Oom(w[i]) \/ (Good(w[i], R) /\ PagesIn(u, w[i], x, a, pages, i))}
<1>6. 0 \in P
  <2>1. Others(u, c, x) /\ c.dir = u.dir /\ Elems(c.vma[x]) = Elems(u.vma[x]) \cup {a}
    BY <1>4 DEF AreaGained, Others
  <2>2. ASSUME NEW j \in 1 .. n PROVE ~ (j <= 0) /\ PageAt(c, x, pages[j][1]) = NULL
    <3>1. pages[j][1] \in VPage /\ PageAt(u, x, pages[j][1]) = NULL
      BY <1>5 DEF PagesOf
    <3>2. PageAt(c, x, pages[j][1]) = PageAt(u, x, pages[j][1])
      BY <1>4, <3>1 DEF AreaGained, PageAt
    <3>3. ~ (j <= 0)
      BY <1>1
    <3> QED
      BY <3>1, <3>2, <3>3
  <2>3. \A z \in VPage : Content(c, x, z) = Content(u, x, z)
    BY <1>4 DEF AreaGained
  <2>4. PagesIn(u, c, x, a, pages, 0)
    BY <2>1, <2>2, <2>3 DEF PagesIn
  <2> QED
    BY <1>1, <1>3, <1>4, <2>4
<1>7. ASSUME NEW i \in 1 .. n, i - 1 \in P PROVE i \in P
  <2> DEFINE b == w[i - 1]
             d == w[i]
             v == pages[i][1]
             val == pages[i][2]
  <2>1. d = PgdirAllocPage(b, x, v, f, val) /\ i \in 0 .. n
    BY <1>1, <1>3
  <2>2. v \in VPage /\ InArea(a, v) /\ val \in Int /\ f \in BOOLEAN
    BY DEF PagesOf
  <2>3. Oom(b) \/ (Good(b, R) /\ PagesIn(u, b, x, a, pages, i - 1))
    BY <1>7
  <2>4. CASE Oom(b)
    <3>1. Oom(PgdirAllocPage(b, x, v, f, val))
      BY <2>4, OomPages
    <3> QED
      BY <2>1, <3>1
  <2>5. CASE Good(b, R) /\ PagesIn(u, b, x, a, pages, i - 1)
    <3>1. PageAt(b, x, v) = NULL
      <4>1. ~ (i <= i - 1)
        BY <1>1
      <4> QED
        BY <2>5, <4>1 DEF PagesIn
    <3>2. InSome(b.vma[x], v, f)
      <4>1. a \in Elems(b.vma[x])
        BY <2>5 DEF PagesIn
      <4> QED
        BY <1>2, <2>2, <4>1 DEF InSome, Elems
    <3>20. v = pages[i][1] /\ val = pages[i][2]
      OBVIOUS
    <3> HIDE DEF b, d, v, val, f
    <3>3. \/ Oom(d)
          \/ Good(d, R) /\ Kept(b, d, x, v) /\ Content(d, x, v) = val
      BY <2>1, <2>2, <2>5, <3>1, <3>2, PageAllocated
    <3>4. Kept(b, d, x, v) /\ Content(d, x, v) = val => PagesIn(u, d, x, a, pages, i)
      BY <2>5, <3>20, PagesInOnce
    <3> QED
      BY <2>1, <3>3, <3>4 DEF d
  <2> QED
    BY <2>3, <2>4, <2>5
<1>8. n \in P
  <2> HIDE DEF P, n
  <2> QED
    BY <1>1, <1>6, <1>7, UpFrom0
<1> QED
  BY <1>3, <1>8

\* Without memory the pages are not there.
LEMMA OomMapped ==
  ASSUME NEW u, Oom(u), NEW x \in Mm, NEW lo, NEW hi, NEW flags,
         NEW a, a = Area(lo, hi, flags), a \in AreaType,
         UserAccess(lo, hi), NEW pages, Len(pages) \in Nat
  PROVE  Oom(MapPages(u, x, lo, hi, flags, pages))
<1> DEFINE n == Len(pages)
           f == "write" \in flags
           c == InsertVma(u, x, a)
<1>1. PICK w : /\ MapPages(u, x, lo, hi, flags, pages) = w[Len(pages)]
               /\ w[0] = c
               /\ \A i \in 1 .. Len(pages) :
                    w[i] = PgdirAllocPage(w[i - 1], x, pages[i][1], f, pages[i][2])
  BY MapPagesIs
<1>2. Oom(w[0])
  <2>1. a.start < a.end
    BY DEF Area, UserAccess
  <2> QED
    BY <1>1, <2>1, OomInsert
<1> DEFINE P == {i \in 0 .. n : Oom(w[i])}
<1>3. ASSUME NEW i \in 1 .. n, i - 1 \in P PROVE i \in P
  <2> DEFINE b == w[i - 1]
             v == pages[i][1]
             val == pages[i][2]
  <2>1. Oom(b) /\ i \in 0 .. n
    BY <1>3
  <2>2. w[i] = PgdirAllocPage(b, x, v, f, val)
    BY <1>1
  <2> HIDE DEF b, v, val, f
  <2>3. Oom(PgdirAllocPage(b, x, v, f, val))
    BY <2>1, OomPages
  <2> QED
    BY <2>1, <2>2, <2>3
<1>4. n \in P
  <2>1. n \in Nat /\ 0 \in P
    BY <1>2
  <2> HIDE DEF P, n
  <2> QED
    BY <1>3, <2>1, UpFrom0
<1> QED
  BY <1>1, <1>4

----------------------------------------------------------------------------
(* Programs are loaded.                                                    *)

SegArea(seg) == Area(seg.va, seg.va + seg.memsz, seg.flags)
SegPages(seg) ==
  [i \in 1 .. seg.memsz |-> <<seg.va + i - 1, SegmentValue(seg, i)>>]
StackArea == Area(USERTOP - STACKPAGES, USERTOP, {"read", "write", "stack"})
StackPages == [i \in 1 .. EAGER |-> <<USERTOP - i, Junk>>]

\* The segments G, and nothing else, are in the memory of x, but for the stack.
SegmentsIn(w, x, G) ==
  \A seg \in G, v \in VPage : InArea(SegArea(seg), v) =>
    Content(w, x, v) = IF v < seg.va + seg.filesz THEN FileValue ELSE 0

\* r is what load_icode has, coming from the memory u, when the segments G are
\* there.
Loading(u, r, x, R, G) ==
  /\ r = [mem |-> r.mem, ok |-> r.ok] /\ r.ok \in BOOLEAN
  /\ \/ Oom(r.mem)
     \/ /\ ~ Oom(u)
        /\ Good(r.mem, R) /\ Others(u, r.mem, x) /\ r.mem.dir[x] # NULL
        /\ r.ok => /\ Elems(r.mem.vma[x]) = {SegArea(seg) : seg \in G}
                   /\ SegmentsIn(r.mem, x, G)

\* The pages of a segment, and of the stack.
LEMMA SegmentPages ==
  ASSUME NEW seg \in Segment, UserAccess(seg.va, seg.va + seg.memsz)
  PROVE  /\ SegArea(seg) \in AreaType /\ PagesOf(SegPages(seg), SegArea(seg))
         /\ Len(SegPages(seg)) = seg.memsz
         /\ seg.va \in Nat /\ seg.memsz \in Nat /\ seg.filesz \in Nat
         /\ SegArea(seg).start = seg.va /\ SegArea(seg).end = seg.va + seg.memsz
         /\ SegArea(seg).flags = seg.flags
<1> DEFINE p == SegPages(seg)
           n == seg.memsz
<1>1. /\ seg.va \in Nat /\ n \in Nat /\ seg.filesz \in Nat
      /\ seg.flags \in SUBSET {"read", "write", "exec", "stack"}
  BY DEF Segment
<1>2. /\ SegArea(seg).start = seg.va /\ SegArea(seg).end = seg.va + seg.memsz
      /\ SegArea(seg).flags = seg.flags
  BY DEF SegArea, Area
<1>3. seg.va + n <= USERTOP /\ USERTOP \in Nat /\ seg.va < seg.va + n
  BY MemoryAssumption DEF UserAccess
<1>4. SegArea(seg) \in AreaType
  <2>1. seg.va \in VPage /\ seg.va + seg.memsz \in 0 .. USERTOP
    BY <1>1, <1>3 DEF VPage
  <2> QED
    BY <1>1, <2>1 DEF AreaType, SegArea, Area
<1>5. Len(p) = n /\ \A i \in 1 .. n : p[i] = <<seg.va + i - 1, SegmentValue(seg, i)>>
  BY <1>1 DEF SegPages
<1> HIDE DEF p
<1>6. \A i \in 1 .. n : p[i][1] = seg.va + i - 1 /\ p[i][2] = SegmentValue(seg, i)
  BY <1>5
<1>7. \A i \in 1 .. n : SegmentValue(seg, i) \in Int
  BY DEF SegmentValue, FileValue
<1>8. \A i \in 1 .. n : seg.va + i - 1 \in VPage /\ InArea(SegArea(seg), seg.va + i - 1)
  BY <1>1, <1>2, <1>3 DEF VPage, InArea
<1>9. \A i, j \in 1 .. n : p[i][1] = p[j][1] => i = j
  BY <1>1, <1>6
<1>10. PagesOf(p, SegArea(seg))
  BY <1>1, <1>5, <1>6, <1>7, <1>8, <1>9 DEF PagesOf
<1> QED
  BY <1>1, <1>2, <1>4, <1>5, <1>10 DEF p

\* The area of the stack, and the pages of it that are allocated.
LEMMA StackIs ==
  ASSUME UserAccess(USERTOP - STACKPAGES, USERTOP)
  PROVE  /\ StackArea \in AreaType /\ PagesOf(StackPages, StackArea)
         /\ Len(StackPages) = EAGER
         /\ StackArea.start = USERTOP - STACKPAGES /\ StackArea.end = USERTOP
         /\ USERTOP - STACKPAGES \in Nat /\ USERTOP \in Nat
<1> DEFINE p == StackPages
           lo == USERTOP - STACKPAGES
<1>1. /\ lo \in Nat /\ USERTOP \in Nat /\ lo < USERTOP /\ STACKPAGES \in Nat
      /\ EAGER \in Nat /\ EAGER <= STACKPAGES
  BY MemoryAssumption, AddressSpaceAssumption DEF UserAccess
<1>2. StackArea.start = lo /\ StackArea.end = USERTOP
  BY DEF StackArea, Area
<1>3. StackArea \in AreaType
  BY <1>1 DEF AreaType, StackArea, Area, VPage
<1>4. Len(p) = EAGER /\ \A i \in 1 .. EAGER : p[i] = <<USERTOP - i, Junk>>
  BY <1>1 DEF StackPages
<1> HIDE DEF p
<1>5. \A i \in 1 .. EAGER : p[i][1] = USERTOP - i /\ p[i][2] = Junk
  BY <1>4
<1>6. \A i \in 1 .. EAGER : USERTOP - i \in VPage /\ InArea(StackArea, USERTOP - i)
  <2> SUFFICES ASSUME NEW i \in 1 .. EAGER
               PROVE  USERTOP - i \in VPage /\ InArea(StackArea, USERTOP - i)
    OBVIOUS
  <2>1. i \in Nat /\ 1 <= i /\ i <= STACKPAGES
    BY <1>1
  <2>2. lo <= USERTOP - i /\ USERTOP - i < USERTOP /\ USERTOP - i \in Int
    BY <1>1, <2>1
  <2> QED
    BY <1>1, <1>2, <2>2 DEF VPage, InArea
<1>7. \A i, j \in 1 .. EAGER : p[i][1] = p[j][1] => i = j
  BY <1>1, <1>5
<1>8. Junk \in Int
  BY Constants
<1>9. PagesOf(p, StackArea)
  BY <1>1, <1>4, <1>5, <1>6, <1>7, <1>8 DEF PagesOf
<1> QED
  BY <1>1, <1>2, <1>3, <1>4, <1>9 DEF p

\* More pages are in memory, and those in other areas are as they were.
LEMMA SegmentsKept ==
  ASSUME NEW u, NEW r, NEW x \in Mm, NEW G, SegmentsIn(u, x, G), NEW a \in AreaType,
         NEW pages, PagesOf(pages, a), PagesIn(u, r, x, a, pages, Len(pages)),
         \A seg \in G : SegArea(seg) \in Elems(u.vma[x]),
         Elems(u.vma[x]) \subseteq AreaType, ApartFrom(u.vma[x], a)
  PROVE  SegmentsIn(r, x, G)
<1> SUFFICES ASSUME NEW seg \in G, NEW v \in VPage, InArea(SegArea(seg), v)
             PROVE  Content(r, x, v) = IF v < seg.va + seg.filesz THEN FileValue ELSE 0
  BY DEF SegmentsIn
<1> DEFINE b == SegArea(seg)
<1>1. Content(u, x, v) = IF v < seg.va + seg.filesz THEN FileValue ELSE 0
  BY DEF SegmentsIn
<1>2. b.end <= a.start \/ a.end <= b.start
  BY DEF ApartFrom, Elems
<1>3. /\ b.start \in Int /\ b.end \in Int /\ a.start \in Int /\ a.end \in Int /\ v \in Int
  <2>1. b \in AreaType
    OBVIOUS
  <2> HIDE DEF b
  <2> QED
    BY <2>1, Constants, MemoryAssumption DEF AreaType, VPage
<1>4. ~ InArea(a, v)
  <2>1. InArea(b, v)
    OBVIOUS
  <2> HIDE DEF b
  <2> QED
    BY <1>2, <1>3, <2>1 DEF InArea
<1>5. \A j \in 1 .. Len(pages) : v # pages[j][1]
  BY <1>4 DEF PagesOf
<1>6. Content(r, x, v) = Content(u, x, v)
  BY <1>5 DEF PagesIn
<1> QED
  BY <1>1, <1>6

\* A result of which the memory changes.
LEMMA ResultChanged ==
  ASSUME NEW w, NEW k, NEW r, r = [mem |-> w, ok |-> k], NEW c
  PROVE  [r EXCEPT !.mem = c] = [mem |-> c, ok |-> k]
<1>1. [r EXCEPT !.mem = c] = [[mem |-> w, ok |-> k] EXCEPT !.mem = c]
  OBVIOUS
<1>2. [[mem |-> w, ok |-> k] EXCEPT !.mem = c] = [mem |-> c, ok |-> k]
  OBVIOUS
<1> QED
  BY <1>1, <1>2

\* One program header.
LEMMA SegmentLoaded ==
  ASSUME NEW u, NEW x \in Mm, NEW R, NEW G \in SUBSET Segment, NEW r, Loading(u, r, x, R, G),
         NEW seg \in Segment, \A g \in G : g.va <= seg.va
  PROVE  Loading(u, LoadSegment(r, x, seg), x, R,
                 IF seg.filesz > 0 THEN G \cup {seg} ELSE G)
<1> DEFINE lo == seg.va
           hi == seg.va + seg.memsz
           w == r.mem
           a == SegArea(seg)
           pages == SegPages(seg)
           c == MapPages(w, x, lo, hi, seg.flags, pages)
           s == LoadSegment(r, x, seg)
           H == IF seg.filesz > 0 THEN G \cup {seg} ELSE G
<1>1. r = [mem |-> w, ok |-> r.ok] /\ r.ok \in BOOLEAN
  BY DEF Loading
<1>2. \/ Oom(w)
      \/ /\ ~ Oom(u) /\ Good(w, R) /\ Others(u, w, x) /\ w.dir[x] # NULL
         /\ r.ok => /\ Elems(w.vma[x]) = {SegArea(g) : g \in G}
                    /\ SegmentsIn(w, x, G)
  BY DEF Loading
<1>3. s = IF ~ r.ok THEN r
          ELSE IF seg.filesz > seg.memsz THEN [mem |-> w, ok |-> FALSE]
          ELSE IF seg.filesz = 0 THEN r
          ELSE IF ~ MayMap(w, x, lo, hi) THEN [mem |-> w, ok |-> FALSE]
          ELSE [r EXCEPT !.mem = c]
  BY DEF LoadSegment, SegPages
<1>4. [r EXCEPT !.mem = c] = [mem |-> c, ok |-> r.ok]
  <2> DEFINE k == r.ok
  <2>1. r = [mem |-> w, ok |-> k]
    BY <1>1
  <2> HIDE DEF w, k, c
  <2>2. [r EXCEPT !.mem = c] = [mem |-> c, ok |-> k]
    BY <2>1, ResultChanged
  <2> QED
    BY <2>2 DEF k
<1>6. Loading(u, [mem |-> w, ok |-> FALSE], x, R, H)
  <2> DEFINE q == [mem |-> w, ok |-> FALSE]
  <2>1. q.mem = w /\ q.ok = FALSE
    OBVIOUS
  <2> HIDE DEF w
  <2> QED
    BY <1>2, <2>1 DEF Loading
<1>7. CASE ~ r.ok
  <2>1. s = [mem |-> w, ok |-> FALSE]
    BY <1>1, <1>3, <1>7
  <2> QED
    BY <1>6, <2>1
<1>8. CASE r.ok /\ (seg.filesz > seg.memsz)
  BY <1>3, <1>4, <1>6, <1>8
<1>9. CASE r.ok /\ ~ (seg.filesz > seg.memsz) /\ seg.filesz = 0
  <2>1. s = r /\ H = G
    BY <1>3, <1>9
  <2> QED
    BY <2>1
<1>10. CASE r.ok /\ ~ (seg.filesz > seg.memsz) /\ seg.filesz # 0 /\ ~ MayMap(w, x, lo, hi)
  BY <1>3, <1>4, <1>6, <1>10
<1>11. CASE r.ok /\ ~ (seg.filesz > seg.memsz) /\ seg.filesz # 0 /\ MayMap(w, x, lo, hi)
  <2>1. s = [mem |-> c, ok |-> r.ok]
    BY <1>3, <1>4, <1>11
  <2>2. UserAccess(lo, hi)
    BY <1>11 DEF MayMap
  <2>3. /\ a \in AreaType /\ PagesOf(pages, a) /\ Len(pages) = seg.memsz
        /\ lo \in Nat /\ seg.memsz \in Nat /\ seg.filesz \in Nat
        /\ a.start = lo /\ a.end = hi /\ a.flags = seg.flags /\ hi \in Nat
    BY <2>2, SegmentPages
  <2>4. H = G \cup {seg}
    BY <1>11, <2>3
  <2>5. a = Area(lo, hi, seg.flags) /\ seg.flags \in SUBSET {"read", "write", "exec", "stack"}
    BY DEF SegArea, Segment
  <2>6. Len(pages) \in Nat
    BY <2>3
  <2>20. pages = SegPages(seg) /\ a = SegArea(seg) /\ w = r.mem
    OBVIOUS
  <2> DEFINE fl == seg.flags
  <2>21. /\ c = MapPages(w, x, lo, hi, fl, pages) /\ a = Area(lo, hi, fl) /\ MayMap(w, x, lo, hi)
         /\ fl \in SUBSET {"read", "write", "exec", "stack"} /\ hi = seg.va + seg.memsz
         /\ lo = seg.va
    BY <1>11, <2>5
  <2> HIDE DEF pages, a, lo, hi, c, w, fl
  <2>7. CASE Oom(w)
    <3>1. Oom(c)
      BY <2>2, <2>3, <2>6, <2>7, <2>21, OomMapped
    <3> QED
      BY <1>1, <2>1, <3>1 DEF Loading
  <2>8. CASE /\ ~ Oom(u) /\ Good(w, R) /\ Others(u, w, x) /\ w.dir[x] # NULL
             /\ Elems(w.vma[x]) = {SegArea(g) : g \in G}
             /\ SegmentsIn(w, x, G)
    <3>1. \A b \in Elems(w.vma[x]) : b.start <= lo
      <4>1. \A g \in G : SegArea(g).start = g.va
        BY DEF SegArea, Area
      <4> QED
        BY <2>8, <2>21, <4>1
    <3>2. ApartFrom(w.vma[x], Area(lo, hi, fl))
      BY <2>3, <2>8, <2>21, <3>1, MayMapApart
    <3>3. ApartFrom(w.vma[x], a)
      BY <2>21, <3>2
    <3>4. \/ Oom(c)
          \/ Good(c, R) /\ PagesIn(w, c, x, a, pages, Len(pages))
      BY <2>2, <2>3, <2>8, <2>21, <3>3, PagesMapped
    <3>5. CASE Oom(c)
      BY <1>1, <2>1, <3>5 DEF Loading
    <3>6. CASE Good(c, R) /\ PagesIn(w, c, x, a, pages, Len(pages))
      <4>1. Others(u, c, x) /\ c.dir[x] # NULL
        <5>1. Others(w, c, x) /\ c.dir = w.dir
          BY <3>6 DEF PagesIn
        <5> QED
          BY <2>8, <5>1, OthersTwice
      <4>2. Elems(c.vma[x]) = {SegArea(g) : g \in G \cup {seg}}
        BY <2>8, <2>20, <3>6 DEF PagesIn
      <4>3. Elems(w.vma[x]) \subseteq AreaType
        <5> DEFINE t == w.vma[x]
        <5>1. t \in Seq(AreaType)
          BY <2>8, MemoryTypes DEF Good
        <5> HIDE DEF t
        <5>2. Elems(t) \subseteq AreaType
          BY <5>1, ElemsType
        <5> QED
          BY <5>2 DEF t
      <4>4. \A g \in G : SegArea(g) \in Elems(w.vma[x])
        BY <2>8
      <4>5. SegmentsIn(c, x, G)
        BY <2>3, <2>8, <3>3, <3>6, <4>3, <4>4, SegmentsKept
      <4>6. ASSUME NEW v \in VPage, InArea(SegArea(seg), v)
            PROVE  Content(c, x, v) = IF v < seg.va + seg.filesz THEN FileValue ELSE 0
        <5> DEFINE i == v - lo + 1
        <5>1. v \in Int /\ lo <= v /\ v < hi
          BY <2>3, <2>20, <4>6, Constants DEF InArea
        <5>2. i \in 1 .. seg.memsz /\ v = lo + i - 1 /\ (i <= seg.filesz <=> v < lo + seg.filesz)
          BY <2>3, <2>21, <5>1
        <5>3. pages[i] = <<seg.va + i - 1, SegmentValue(seg, i)>>
          BY <2>20, <5>2 DEF SegPages
        <5> HIDE DEF i
        <5>4. pages[i][1] = v /\ pages[i][2] = SegmentValue(seg, i)
          BY <2>21, <5>2, <5>3
        <5>5. i \in 1 .. Len(pages) /\ i <= Len(pages)
          BY <2>3, <5>2
        <5>6. Content(c, x, v) = SegmentValue(seg, i)
          BY <3>6, <5>4, <5>5 DEF PagesIn
        <5> QED
          BY <2>21, <5>2, <5>6 DEF SegmentValue
      <4>7. SegmentsIn(c, x, G \cup {seg})
        BY <4>5, <4>6 DEF SegmentsIn
      <4> HIDE DEF s, H
      <4>8. s.mem = c /\ s.ok = r.ok /\ s = [mem |-> s.mem, ok |-> s.ok]
        BY <2>1
      <4>9. Loading(u, s, x, R, H)
        BY <1>1, <2>4, <2>8, <3>6, <4>1, <4>2, <4>7, <4>8 DEF Loading
      <4> QED
        BY <4>9 DEF s, H
    <3> QED
      BY <3>4, <3>5, <3>6
  <2> QED
    BY <1>2, <1>11, <2>7, <2>8 DEF w
<1> QED
  BY <1>7, <1>8, <1>9, <1>10, <1>11

\* The segments that have a part in the file.
Wanted(segs, i) == {segs[j] : j \in {k \in 1 .. i : segs[k].filesz > 0}}

\* All program headers.
LEMMA SegmentsLoaded ==
  ASSUME NEW u, NEW x \in Mm, NEW R, NEW r, Loading(u, r, x, R, {}),
         NEW segs \in Seq(Segment),
         \A i, j \in 1 .. Len(segs) : i < j => segs[i].va <= segs[j].va
  PROVE  Loading(u, LoadSegments(r, x, segs), x, R, Wanted(segs, Len(segs)))
<1> DEFINE n == Len(segs)
<1>1. n \in Nat /\ \A i \in 1 .. n : segs[i] \in Segment
  OBVIOUS
<1>2. PICK w : /\ LoadSegments(r, x, segs) = w[n]
               /\ w[0] = r
               /\ \A i \in 1 .. n : w[i] = LoadSegment(w[i - 1], x, segs[i])
  BY <1>1, LoadSegmentsIs
<1> DEFINE P == {i \in 0 .. n : Loading(u, w[i], x, R, Wanted(segs, i))}
<1>3. 0 \in P
  <2>1. Wanted(segs, 0) = {}
    BY DEF Wanted
  <2>2. Loading(u, w[0], x, R, Wanted(segs, 0))
    BY <1>2, <2>1, Zenon
  <2>3. 0 \in 0 .. n
    BY <1>1
  <2> QED
    BY <2>2, <2>3
<1>4. ASSUME NEW i \in 1 .. n, i - 1 \in P PROVE i \in P
  <2> DEFINE a == w[i - 1]
             seg == segs[i]
             G == Wanted(segs, i - 1)
  <2>1. Loading(u, a, x, R, G) /\ w[i] = LoadSegment(a, x, seg) /\ i \in 0 .. n
    BY <1>1, <1>2, <1>4
  <2>2. seg \in Segment /\ G \in SUBSET Segment /\ \A g \in G : g.va <= seg.va
    <3>1. \A j \in 1 .. i - 1 : j \in 1 .. n /\ j < i
      BY <1>1
    <3> QED
      BY <1>1, <3>1 DEF Wanted
  <2>3. Wanted(segs, i) = IF seg.filesz > 0 THEN G \cup {seg} ELSE G
    <3>1. 1 .. i = (1 .. i - 1) \cup {i}
      BY <1>1
    <3> QED
      BY <3>1 DEF Wanted
  <2> HIDE DEF a, seg, G
  <2>4. Loading(u, LoadSegment(a, x, seg), x, R, IF seg.filesz > 0 THEN G \cup {seg} ELSE G)
    BY <2>1, <2>2, SegmentLoaded
  <2> QED
    BY <2>1, <2>3, <2>4
<1>5. n \in P
  <2> HIDE DEF P, n
  <2> QED
    BY <1>1, <1>3, <1>4, UpFrom0
<1> QED
  BY <1>2, <1>5

\* What load_icode leaves in memory when it succeeds.
ImageIn(w, x, image) ==
  LET G == Wanted(image.segs, Len(image.segs))
  IN  /\ Elems(w.vma[x]) = {SegArea(seg) : seg \in G} \cup {StackArea}
      /\ SegmentsIn(w, x, G)
      /\ \A v \in VPage : InArea(StackArea, v) => Content(w, x, v) = Junk
      /\ \A seg \in G, v \in VPage : ~ (InArea(SegArea(seg), v) /\ InArea(StackArea, v))

\* r is what load_icode has in the end, before it switches to the new memory or
\* gives it up.
Loaded(u, r, x, R, image) ==
  /\ r = [mem |-> r.mem, ok |-> r.ok] /\ r.ok \in BOOLEAN
  /\ \/ Oom(r.mem)
     \/ /\ ~ Oom(u)
        /\ Good(r.mem, R) /\ Others(u, r.mem, x) /\ r.mem.dir[x] # NULL
        /\ r.ok => ImageIn(r.mem, x, image)

\* The stack, last.
LEMMA StackLoaded ==
  ASSUME NEW u, NEW x \in Mm, NEW R, NEW image \in Images, NEW r,
         Loading(u, r, x, R, Wanted(image.segs, Len(image.segs)))
  PROVE  Loaded(u, LoadStack(r, x), x, R, image)
<1> DEFINE lo == USERTOP - STACKPAGES
           hi == USERTOP
           w == r.mem
           a == StackArea
           pages == StackPages
           fl == {"read", "write", "stack"}
           c == MapPages(w, x, lo, hi, fl, pages)
           s == LoadStack(r, x)
           segs == image.segs
           G == Wanted(segs, Len(segs))
<1>1. r = [mem |-> w, ok |-> r.ok] /\ r.ok \in BOOLEAN
  BY DEF Loading
<1>2. \/ Oom(w)
      \/ /\ ~ Oom(u) /\ Good(w, R) /\ Others(u, w, x) /\ w.dir[x] # NULL
         /\ r.ok => /\ Elems(w.vma[x]) = {SegArea(g) : g \in G}
                    /\ SegmentsIn(w, x, G)
  BY DEF Loading
<1>3. s = IF ~ r.ok THEN r
          ELSE IF ~ MayMap(w, x, lo, hi) THEN [mem |-> w, ok |-> FALSE]
          ELSE [r EXCEPT !.mem = c]
  BY DEF LoadStack, StackPages
<1>4. [r EXCEPT !.mem = c] = [mem |-> c, ok |-> r.ok]
  <2> DEFINE k == r.ok
  <2>1. r = [mem |-> w, ok |-> k]
    BY <1>1
  <2> HIDE DEF w, k, c
  <2>2. [r EXCEPT !.mem = c] = [mem |-> c, ok |-> k]
    BY <2>1, ResultChanged
  <2> QED
    BY <2>2 DEF k
<1>5. Loaded(u, [mem |-> w, ok |-> FALSE], x, R, image)
  <2> DEFINE q == [mem |-> w, ok |-> FALSE]
  <2>1. q.mem = w /\ q.ok = FALSE
    OBVIOUS
  <2> HIDE DEF w
  <2> QED
    BY <1>2, <2>1 DEF Loaded
<1>6. CASE ~ r.ok
  <2>1. s = [mem |-> w, ok |-> FALSE]
    BY <1>1, <1>3, <1>6
  <2> QED
    BY <1>5, <2>1
<1>7. CASE r.ok /\ ~ MayMap(w, x, lo, hi)
  BY <1>3, <1>4, <1>5, <1>7
<1>8. CASE r.ok /\ MayMap(w, x, lo, hi)
  <2>1. s = [mem |-> c, ok |-> r.ok]
    BY <1>3, <1>4, <1>8
  <2>2. UserAccess(lo, hi)
    BY <1>8 DEF MayMap
  <2>3. /\ a \in AreaType /\ PagesOf(pages, a) /\ Len(pages) = EAGER
        /\ a.start = lo /\ a.end = hi /\ lo \in Nat /\ hi \in Nat
    BY <2>2, StackIs
  <2>4. EAGER \in Nat
    BY AddressSpaceAssumption
  <2>5. \A g \in G : g.va <= lo
    <3>1. \A i \in 1 .. Len(segs) : segs[i].va <= lo
      BY AddressSpaceAssumption
    <3> QED
      BY <3>1 DEF Wanted
  <2>6. a = Area(lo, hi, fl) /\ fl \in SUBSET {"read", "write", "exec", "stack"}
    BY DEF StackArea
  <2>7. c = MapPages(w, x, lo, hi, fl, pages) /\ MayMap(w, x, lo, hi) /\ w = r.mem
    BY <1>8
  <2>20. pages = StackPages /\ a = StackArea /\ G = Wanted(image.segs, Len(image.segs))
    OBVIOUS
  <2> HIDE DEF pages, a, lo, hi, c, w, fl, G, s
  <2>8. s.mem = c /\ s.ok = r.ok /\ s = [mem |-> s.mem, ok |-> s.ok]
    BY <2>1
  <2>9. CASE Oom(w)
    <3>1. Oom(c)
      BY <2>2, <2>3, <2>4, <2>6, <2>7, <2>9, OomMapped
    <3> QED
      BY <1>1, <2>8, <3>1 DEF Loaded, s
  <2>10. CASE /\ ~ Oom(u) /\ Good(w, R) /\ Others(u, w, x) /\ w.dir[x] # NULL
              /\ Elems(w.vma[x]) = {SegArea(g) : g \in G}
              /\ SegmentsIn(w, x, G)
    <3>1. \A b \in Elems(w.vma[x]) : b.start <= lo
      <4>1. \A g \in G : SegArea(g).start = g.va
        BY DEF SegArea, Area
      <4> QED
        BY <2>5, <2>10, <4>1
    <3>2. ApartFrom(w.vma[x], Area(lo, hi, fl))
      BY <2>3, <2>6, <2>7, <2>10, <3>1, MayMapApart
    <3>3. ApartFrom(w.vma[x], a)
      BY <2>6, <3>2
    <3>4. \/ Oom(c)
          \/ Good(c, R) /\ PagesIn(w, c, x, a, pages, Len(pages))
      BY <2>2, <2>3, <2>6, <2>7, <2>10, <3>3, PagesMapped
    <3>5. CASE Oom(c)
      BY <1>1, <2>8, <3>5 DEF Loaded, s
    <3>6. CASE Good(c, R) /\ PagesIn(w, c, x, a, pages, Len(pages))
      <4>1. Others(u, c, x) /\ c.dir[x] # NULL
        <5>1. Others(w, c, x) /\ c.dir = w.dir
          BY <3>6 DEF PagesIn
        <5> QED
          BY <2>10, <5>1, OthersTwice
      <4>2. Elems(c.vma[x]) = {SegArea(g) : g \in G} \cup {a}
        BY <2>10, <3>6 DEF PagesIn
      <4>3. Elems(w.vma[x]) \subseteq AreaType
        <5> DEFINE t == w.vma[x]
        <5>1. t \in Seq(AreaType)
          BY <2>10, MemoryTypes DEF Good
        <5> HIDE DEF t
        <5>2. Elems(t) \subseteq AreaType
          BY <5>1, ElemsType
        <5> QED
          BY <5>2 DEF t
      <4>4. \A g \in G : SegArea(g) \in Elems(w.vma[x])
        BY <2>10
      <4>5. SegmentsIn(c, x, G)
        BY <2>3, <2>10, <3>3, <3>6, <4>3, <4>4, SegmentsKept
      <4>6. ASSUME NEW v \in VPage, InArea(a, v)
            PROVE  /\ Content(c, x, v) = Junk
                   /\ \A g \in G : ~ InArea(SegArea(g), v)
        <5>0. \A b \in Elems(w.vma[x]) : ~ InArea(b, v)
          <6> SUFFICES ASSUME NEW b \in Elems(w.vma[x])
                       PROVE  ~ InArea(b, v)
            OBVIOUS
          <6>1. b.end <= a.start \/ a.end <= b.start
            BY <3>3 DEF ApartFrom, Elems
          <6>2. b \in AreaType
            BY <4>3
          <6>3. /\ b.start \in Int /\ b.end \in Int /\ a.start \in Int /\ a.end \in Int
                /\ v \in Int
            BY <2>3, <6>2, Constants, MemoryAssumption DEF AreaType, VPage
          <6> QED
            BY <4>6, <6>1, <6>3 DEF InArea
        <5>1. Content(w, x, v) = Junk
          BY <2>10, <5>0, NotInAreas
        <5>2. \A j \in 1 .. Len(pages) : pages[j][2] = Junk
          <6>1. \A j \in 1 .. EAGER : pages[j] = <<USERTOP - j, Junk>>
            BY <2>20 DEF StackPages
          <6> QED
            BY <2>3, <6>1
        <5>3. Content(c, x, v) = Junk
          <6>1. CASE \E j \in 1 .. Len(pages) : v = pages[j][1]
            <7>1. PICK j \in 1 .. Len(pages) : v = pages[j][1]
              BY <6>1
            <7>2. j <= Len(pages)
              BY <2>3, <2>4
            <7> QED
              BY <3>6, <5>2, <7>1, <7>2 DEF PagesIn
          <6>2. CASE \A j \in 1 .. Len(pages) : v # pages[j][1]
            BY <3>6, <5>1, <6>2 DEF PagesIn
          <6> QED
            BY <6>1, <6>2
        <5> QED
          BY <4>4, <5>0, <5>3
      <4>7. ImageIn(c, x, image)
        BY <2>20, <4>2, <4>5, <4>6 DEF ImageIn
      <4> QED
        BY <1>1, <2>8, <2>10, <3>6, <4>1, <4>7 DEF Loaded, s
    <3> QED
      BY <3>4, <3>5, <3>6
  <2> QED
    BY <1>2, <1>8, <2>9, <2>10, <2>20 DEF w, s, G
<1> QED
  BY <1>6, <1>7, <1>8

\* Another page directory in CR3.
CrSet(u, y) == [u EXCEPT !.cr3 = y]

\* Nothing but CR3 differs.
AllElse(u, r) ==
  /\ r.dir = u.dir /\ r.vma = u.vma
  /\ \A y \in Mm, z \in VPage :
       Pte(r, y, z) = Pte(u, y, z) /\ Content(r, y, z) = Content(u, y, z)

\* lcr3.
LEMMA CrChanged ==
  ASSUME NEW u, NEW R, Good(u, R), NEW y \in Mm \cup {NULL}
  PROVE  Good(CrSet(u, y), R) /\ AllElse(u, CrSet(u, y)) /\ CrSet(u, y).cr3 = y
<1> DEFINE w == CrSet(u, y)
<1>1. u \in Memories
  BY DEF Good
<1>2. /\ w.free = u.free /\ w.ref = u.ref /\ w.dir = u.dir /\ w.data = u.data /\ w.pt = u.pt
      /\ w.vma = u.vma /\ w.cache = u.cache
      /\ w.cr3 = y /\ w.panic = u.panic /\ w.pte = u.pte /\ w.pra = u.pra
  BY <1>1, MemoryTypes DEF CrSet
<1>3. w \in Memories
  BY <1>1 DEF Memories, CrSet
<1> HIDE DEF w
<1>4. /\ \A x, z : Pte(w, x, z) = Pte(u, x, z)
      /\ \A x, z : PageAt(w, x, z) = PageAt(u, x, z)
      /\ FrameOf(w) = FrameOf(u)
  BY <1>2, SameTables
<1>5. Referenced(w, R)
  BY <1>2, <1>4 DEF Good, Referenced
<1>6. \A x \in Mm : SpaceSound(w, x)
  BY <1>2, SameSpace DEF Good
<1>7. Good(w, R)
  BY <1>2, <1>3, <1>4, <1>5, <1>6 DEF Good
<1>8. AllElse(u, w)
  BY <1>2, <1>4 DEF AllElse, Content
<1> QED
  BY <1>2, <1>7, <1>8 DEF w

\* Memory that is used up is so whatever CR3 holds.
LEMMA CrOom ==
  ASSUME NEW u, Oom(u), NEW y
  PROVE  Oom(CrSet(u, y))
BY DEF Oom, CrSet

\* The address spaces other than x are as they were, but CR3 may differ.
Elsewhere(u, r, x) ==
  \A y \in Mm : y # x =>
    /\ r.dir[y] = u.dir[y] /\ r.vma[y] = u.vma[y]
    /\ \A z \in VPage : Content(r, y, z) = Content(u, y, z)

\* load_icode of a process that has no memory, or has just lost it.
LEMMA IcodeLoaded ==
  ASSUME NEW u, NEW R, NEW x \in Mm, NEW image \in Images,
         Oom(u) \/ (Good(u, R) /\ u.dir[x] = NULL)
  PROVE  \/ Oom(LoadIcode(u, x, image).mem)
         \/ /\ LoadIcode(u, x, image).ok /\ ~ Oom(u)
            /\ Good(LoadIcode(u, x, image).mem, R) /\ LoadIcode(u, x, image).mem.dir[x] # NULL
            /\ ImageIn(LoadIcode(u, x, image).mem, x, image)
            /\ LoadIcode(u, x, image).mem.cr3 = x
            /\ Elsewhere(u, LoadIcode(u, x, image).mem, x)
         \/ /\ ~ LoadIcode(u, x, image).ok /\ ~ Oom(u)
            /\ Good(LoadIcode(u, x, image).mem, R) /\ LoadIcode(u, x, image).mem.dir[x] = NULL
            /\ Others(u, LoadIcode(u, x, image).mem, x)
<1> DEFINE c == SetupPgdir(MmCreate(u, x), x)
           magic == image.magic
           segs == image.segs
           fresh == [mem |-> c, ok |-> magic]
           q == LoadSegments(fresh, x, segs)
           r == LoadStack(q, x)
           w == r.mem
           s == LoadIcode(u, x, image)
<1>1. /\ magic \in BOOLEAN /\ segs \in Seq(Segment)
      /\ \A i, j \in 1 .. Len(segs) : i < j => segs[i].va <= segs[j].va
  BY AddressSpaceAssumption
<1>2. s = IF r.ok THEN [r EXCEPT !.mem.cr3 = x] ELSE [r EXCEPT !.mem = DropMm(w, x)]
  BY DEF LoadIcode, LoadFailed
<1>3. Loading(u, fresh, x, R, {})
  <2>1. \/ Oom(c)
        \/ /\ ~ Oom(u)
           /\ Good(c, R) /\ Others(u, c, x) /\ c.dir[x] # NULL /\ c.vma[x] = <<>>
    <3>1. CASE Oom(u)
      BY <3>1, OomPages
    <3>2. CASE Good(u, R) /\ u.dir[x] = NULL
      <4>1. ~ Oom(u)
        BY <3>2 DEF Good, Oom
      <4> QED
        BY <3>2, <4>1, SpaceCreated
    <3> QED
      BY <3>1, <3>2
  <2>2. fresh.mem = c /\ fresh.ok = magic /\ fresh = [mem |-> fresh.mem, ok |-> fresh.ok]
    OBVIOUS
  <2> HIDE DEF c, magic, fresh
  <2>3. SegmentsIn(c, x, {})
    BY DEF SegmentsIn
  <2>4. c.vma[x] = <<>> => Elems(c.vma[x]) = {SegArea(seg) : seg \in {}}
    BY EmptyOnce
  <2> QED
    BY <1>1, <2>1, <2>2, <2>3, <2>4 DEF Loading
<1>20. segs = image.segs
  OBVIOUS
<1> HIDE DEF fresh, segs
<1>4. Loading(u, q, x, R, Wanted(segs, Len(segs)))
  BY <1>1, <1>3, SegmentsLoaded
<1> HIDE DEF q
<1>5. Loaded(u, r, x, R, image)
  <2>1. Loading(u, q, x, R, Wanted(image.segs, Len(image.segs)))
    BY <1>4, <1>20
  <2> QED
    BY <2>1, StackLoaded
<1> HIDE DEF r, s
<1>6. /\ r = [mem |-> w, ok |-> r.ok] /\ r.ok \in BOOLEAN
      /\ \/ Oom(w)
         \/ /\ ~ Oom(u)
            /\ Good(w, R) /\ Others(u, w, x) /\ w.dir[x] # NULL
            /\ r.ok => ImageIn(w, x, image)
  BY <1>5 DEF Loaded
<1>7. CASE r.ok
  <2> DEFINE d == CrSet(w, x)
             k == r.ok
  <2>1. s = [mem |-> d, ok |-> k]
    <3>1. s = [r EXCEPT !.mem = d]
      BY <1>2, <1>7 DEF CrSet
    <3>2. r = [mem |-> w, ok |-> k]
      BY <1>6
    <3> HIDE DEF d, k, w
    <3> QED
      BY <3>1, <3>2, ResultChanged
  <2>2. s.mem = d /\ s.ok = r.ok
    BY <2>1
  <2>20. d = CrSet(w, x)
    OBVIOUS
  <2> HIDE DEF d, w
  <2>3. CASE Oom(w)
    <3>1. Oom(d)
      BY <2>3, <2>20, CrOom
    <3> QED
      BY <2>2, <3>1 DEF s
  <2>4. CASE /\ ~ Oom(u) /\ Good(w, R) /\ Others(u, w, x) /\ w.dir[x] # NULL
             /\ ImageIn(w, x, image)
    <3>1. Good(d, R) /\ AllElse(w, d) /\ d.cr3 = x
      BY <2>4, <2>20, CrChanged
    <3>2. d.dir[x] # NULL
      BY <2>4, <3>1 DEF AllElse
    <3>3. Elsewhere(u, d, x)
      BY <2>4, <3>1 DEF AllElse, Others, Elsewhere
    <3>4. ImageIn(d, x, image)
      <4>1. d.vma = w.vma /\ \A v \in VPage : Content(d, x, v) = Content(w, x, v)
        BY <3>1 DEF AllElse
      <4> QED
        BY <2>4, <4>1 DEF ImageIn, SegmentsIn
    <3> QED
      BY <1>7, <2>2, <2>4, <3>1, <3>2, <3>3, <3>4 DEF s
  <2> QED
    BY <1>6, <1>7, <2>3, <2>4
<1>8. CASE ~ r.ok
  <2> DEFINE d == DropMm(w, x)
             k == r.ok
  <2>1. s = [mem |-> d, ok |-> k]
    <3>1. s = [r EXCEPT !.mem = d]
      BY <1>2, <1>8
    <3>2. r = [mem |-> w, ok |-> k]
      BY <1>6
    <3> HIDE DEF d, k, w
    <3> QED
      BY <3>1, <3>2, ResultChanged
  <2>2. s.mem = d /\ s.ok = r.ok
    BY <2>1
  <2>20. d = DropMm(w, x)
    OBVIOUS
  <2> HIDE DEF d, w
  <2>3. CASE Oom(w)
    <3>1. Oom(d)
      BY <2>3, <2>20, OomWhole
    <3> QED
      BY <2>2, <3>1 DEF s
  <2>4. CASE ~ Oom(u) /\ Good(w, R) /\ Others(u, w, x) /\ w.dir[x] # NULL
    <3>1. Good(d, R) /\ Others(w, d, x) /\ d.dir[x] = NULL
      BY <2>4, <2>20, SpaceDropped
    <3>2. Others(u, d, x)
      BY <2>4, <3>1, OthersTwice
    <3> QED
      BY <1>8, <2>2, <2>4, <3>1, <3>2 DEF s
  <2> QED
    BY <1>6, <1>8, <2>3, <2>4
<1> QED
  BY <1>7, <1>8

----------------------------------------------------------------------------
(* Page faults.                                                            *)

\* Two areas of a sorted list that share a page are one.
LEMMA UniqueArea ==
  ASSUME NEW s \in Seq(AreaType), AreasSorted(s), NEW a \in Elems(s), NEW b \in Elems(s),
         NEW v \in Int, InArea(a, v), InArea(b, v)
  PROVE  a = b
<1>1. PICK i \in 1 .. Len(s), j \in 1 .. Len(s) : a = s[i] /\ b = s[j]
  BY DEF Elems
<1>2. /\ a.start \in Int /\ a.end \in Int /\ b.start \in Int /\ b.end \in Int
  <2>1. a \in AreaType /\ b \in AreaType
    BY <1>1
  <2> QED
    BY <2>1, MemoryAssumption DEF AreaType, VPage
<1>3. ~ (i < j)
  BY <1>1, <1>2 DEF AreasSorted, InArea
<1>4. ~ (j < i)
  BY <1>1, <1>2 DEF AreasSorted, InArea
<1>5. i = j
  BY <1>3, <1>4
<1> QED
  BY <1>1, <1>5

\* A page table does not change what is mapped, whether there is memory for it
\* or not.
LEMMA GetPteKeeps ==
  ASSUME NEW u, NEW R, Good(u, R), NEW x \in Mm, NEW v \in VPage
  PROVE  PageAt(u, x, v) = NULL => Pte(GetPte(u, x, v), x, v) = Absent
<1> SUFFICES ASSUME PageAt(u, x, v) = NULL
             PROVE  Pte(GetPte(u, x, v), x, v) = Absent
  OBVIOUS
<1> DEFINE a == Alloc(u, 1)
           d == PDX(v)
<1>1. u \in Memories
  BY DEF Good
<1>2. Pte(u, x, v) = Absent
  BY <1>1, EntryFound
<1>3. CASE u.pt[x][d] # NULL
  BY <1>2, <1>3 DEF GetPte
<1>4. CASE u.pt[x][d] = NULL
  <2>1. GetPte(u, x, v) = WithTable(a, x, v)
    BY <1>4 DEF GetPte
  <2>2. a.mem.pt = u.pt /\ a.mem.pte = u.pte /\ "pt" \in DOMAIN a.mem /\ "pte" \in DOMAIN a.mem
    <3> DEFINE w == MakeRoom(u, 1)
    <3>1. w.pt = u.pt /\ w.pte = u.pte /\ "pt" \in DOMAIN w /\ "pte" \in DOMAIN w
      <4>1. u.check = NULL
        BY <1>1, MemoryTypes
      <4> QED
        BY <1>1, <4>1, MemoryTypes DEF MakeRoom, SwapOut, Panic
    <3> HIDE DEF w
    <3> QED
      BY <3>1 DEF Alloc, TakeFirst, w
  <2> HIDE DEF a
  <2>3. CASE a.page = NULL
    BY <1>4, <2>1, <2>2, <2>3 DEF WithTable, Pte
  <2>4. CASE a.page # NULL
    <3> DEFINE e == [w \in VPage |-> IF PDX(w) = PDX(v) THEN Absent ELSE a.mem.pte[x][w]]
               g == TableSet(a.mem, x, d, a.page, e)
    <3>1. WithTable(a, x, v) = g
      BY <2>4 DEF WithTable, TableSet
    <3>2. e[v] = Absent
      OBVIOUS
    <3> HIDE DEF e
    <3>3. g.pte[x] = e
      BY <1>1, <2>2, MemoryTypes DEF TableSet
    <3> HIDE DEF g
    <3>4. Pte(g, x, v) = Absent
      BY <3>2, <3>3 DEF Pte
    <3> QED
      BY <2>1, <3>1, <3>4
  <2> QED
    BY <2>3, <2>4
<1> QED
  BY <1>3, <1>4

\* Nothing that a program sees differs, but for pages that nobody has touched.
SameSeen(u, r) ==
  /\ r.dir = u.dir /\ r.vma = u.vma /\ r.cr3 = u.cr3
  /\ \A y \in Mm, z \in VPage : Content(r, y, z) = Content(u, y, z)

\* Nothing that a program sees differs after two steps either.
LEMMA SeenTwice ==
  ASSUME NEW u, NEW w, NEW r
  PROVE  /\ SameSeen(u, u)
         /\ SameSeen(u, w) /\ SameSeen(w, r) => SameSeen(u, r)
         /\ KeptAll(u, r) => SameSeen(u, r)
<1>1. SameSeen(u, u)
  BY DEF SameSeen
<1>2. SameSeen(u, w) /\ SameSeen(w, r) => SameSeen(u, r)
  BY DEF SameSeen
<1>3. KeptAll(u, r) => SameSeen(u, r)
  BY DEF SameSeen, KeptAll
<1> QED
  BY <1>1, <1>2, <1>3

\* What do_pgfault does for page v of an area.
Brought(u, x, v) ==
  BringIn(GetPte(Looked(u, x, v), x, v), x, v, "write" \in FindVma(u, x, v).flags)

\* A page that is not there, but in an area, is allocated.
LEMMA BroughtIn ==
  ASSUME NEW u, NEW R, Good(u, R), NEW x \in Mm, NEW v \in VPage, PageAt(u, x, v) = NULL,
         FindVma(u, x, v) # NULL
  PROVE  \/ Oom(Brought(u, x, v))
         \/ /\ Good(Brought(u, x, v), R) /\ SameSeen(u, Brought(u, x, v))
            /\ PageAt(Brought(u, x, v), x, v) # NULL
<1> DEFINE a == FindVma(u, x, v)
           w == Looked(u, x, v)
           g == GetPte(w, x, v)
           f == "write" \in a.flags
           r == PgdirAllocPage(g, x, v, f, Junk)
<1>0. v \in Int
  BY Constants
<1>1. a \in Elems(u.vma[x]) /\ a \in AreaType /\ InArea(a, v)
  BY <1>0, VmaFound
<1>2. /\ Good(w, R) /\ w.vma = u.vma /\ SameSeen(u, w)
      /\ Pte(w, x, v) = Pte(u, x, v)
  BY <1>0, AreaLooked DEF SameSeen
<1>3. PageAt(w, x, v) = NULL
  BY <1>2 DEF PageAt
<1>4. InSome(w.vma[x], v, f)
  BY <1>1, <1>2 DEF InSome, Elems
<1>20. f \in BOOLEAN /\ Brought(u, x, v) = BringIn(g, x, v, f)
  BY DEF Brought
<1> HIDE DEF w, f
<1>5. TableInSome(w.vma[x], PDX(v))
  <2> DEFINE s == w.vma[x]
  <2>1. s \in Seq(AreaType) /\ InSome(s, v, f)
    BY <1>2, <1>4, MemoryTypes DEF Good
  <2> HIDE DEF s
  <2>2. TableInSome(s, PDX(v))
    BY <2>1, TableOfPage
  <2> QED
    BY <2>2 DEF s
<1>6. \/ Oom(g)
      \/ Good(g, R) /\ KeptAll(w, g)
  BY <1>2, <1>5, GetPteGood
<1>7. Pte(g, x, v) = Absent
  BY <1>2, <1>3, GetPteKeeps
<1>8. Brought(u, x, v) = r
  <2>1. Pte(g, x, v).is = "absent"
    BY <1>7, Constants
  <2> HIDE DEF g
  <2> QED
    BY <1>20, <2>1 DEF BringIn
<1>9. PageAt(g, x, v) = NULL
  BY <1>7, Constants DEF PageAt
<1> HIDE DEF g
<1>10. CASE Oom(g)
  <2>1. Oom(r)
    BY <1>10, OomPages
  <2> QED
    BY <1>8, <2>1
<1>11. CASE Good(g, R) /\ KeptAll(w, g)
  <2>1. SameSeen(u, g) /\ g.vma = w.vma
    <3>1. SameSeen(w, g)
      BY <1>11, SeenTwice
    <3> QED
      BY <1>2, <1>11, <3>1, SeenTwice DEF KeptAll
  <2>2. InSome(g.vma[x], v, f)
    BY <1>4, <2>1
  <2>3. Junk \in Int
    BY Constants
  <2> DEFINE j == Junk
             b == PgdirAllocPage(g, x, v, f, j)
  <2>20. r = b /\ j \in Int /\ j = Junk
    BY <2>3
  <2> HIDE DEF j, r
  <2>4. \/ Oom(b)
        \/ Good(b, R) /\ Kept(g, b, x, v) /\ PageAt(b, x, v) # NULL /\ Content(b, x, v) = j
    BY <1>9, <1>11, <1>20, <2>2, <2>20, PageAllocated
  <2> HIDE DEF b
  <2>5. Content(g, x, v) = Junk
    BY <1>9 DEF Content
  <2>6. Kept(g, b, x, v) /\ Content(b, x, v) = j => SameSeen(g, b)
    <3> SUFFICES ASSUME Kept(g, b, x, v), Content(b, x, v) = j
                 PROVE  SameSeen(g, b)
      OBVIOUS
    <3>1. \A y \in Mm, z \in VPage : Content(b, y, z) = Content(g, y, z)
      BY <2>5, <2>20 DEF Kept
    <3> QED
      BY <3>1 DEF Kept, SameSeen
  <2>7. SameSeen(g, b) => SameSeen(u, b)
    BY <2>1, SeenTwice
  <2> QED
    BY <1>8, <2>4, <2>6, <2>7, <2>20
<1> QED
  BY <1>6, <1>10, <1>11

\* The program stores a value in page v.
DataSet(u, x, v, value) == [u EXCEPT !.data[Pte(u, x, v).page] = value]

\* What page v of x holds may differ, nothing else does.
Stores(u, r, x, v, value) ==
  /\ r.dir = u.dir /\ r.vma = u.vma /\ r.cr3 = u.cr3
  /\ \A y \in Mm, z \in VPage : ~ (y = x /\ z = v) => Content(r, y, z) = Content(u, y, z)
  /\ Content(r, x, v) = value

\* A store to a page that is mapped, and to no other.
LEMMA Stored ==
  ASSUME NEW u, NEW R, Good(u, R), NEW x \in Mm, NEW v \in VPage, PageAt(u, x, v) # NULL,
         NEW value \in Int
  PROVE  Good(DataSet(u, x, v, value), R) /\ Stores(u, DataSet(u, x, v, value), x, v, value)
<1> DEFINE f == PageAt(u, x, v)
           w == DataSet(u, x, v, value)
<1>1. u \in Memories
  BY DEF Good
<1>2. Pte(u, x, v).page = f /\ f \in Frame
  BY <1>1, EntryFound
<1>20. f = PageAt(u, x, v)
  OBVIOUS
<1>21. w = [u EXCEPT !.data[f] = value]
  BY <1>2 DEF DataSet
<1> HIDE DEF f, w
<1>3. /\ w.free = u.free /\ w.ref = u.ref /\ w.dir = u.dir /\ w.pt = u.pt
      /\ w.vma = u.vma /\ w.cache = u.cache /\ w.data = [u.data EXCEPT ![f] = value]
      /\ w.cr3 = u.cr3 /\ w.panic = u.panic /\ w.pte = u.pte /\ w.pra = u.pra
  BY <1>1, <1>21, MemoryTypes
<1>4. w \in Memories
  <2> DEFINE D == [u.data EXCEPT ![f] = value]
  <2>1. D \in [Frame -> Int]
    BY <1>1, <1>2, MemoryTypes
  <2>2. w = [u EXCEPT !.data = D]
    BY <1>1, <1>21, MemoryTypes
  <2> HIDE DEF D
  <2> QED
    BY <1>1, <2>1, <2>2 DEF Memories
<1>5. /\ \A y, z : Pte(w, y, z) = Pte(u, y, z)
      /\ \A y, z : PageAt(w, y, z) = PageAt(u, y, z)
      /\ FrameOf(w) = FrameOf(u)
  BY <1>3, SameTables
<1>6. Referenced(w, R)
  BY <1>3, <1>5 DEF Good, Referenced
<1>7. \A y \in Mm : SpaceSound(w, y)
  BY <1>3, SameSpace DEF Good
<1>8. Good(w, R)
  BY <1>3, <1>4, <1>5, <1>6, <1>7 DEF Good
<1>9. \A k \in Frame : w.data[k] = IF k = f THEN value ELSE u.data[k]
  BY <1>1, <1>2, <1>3, MemoryTypes
<1>10. ASSUME NEW y \in Mm, NEW z \in VPage, ~ (y = x /\ z = v)
       PROVE  Content(w, y, z) = Content(u, y, z)
  <2>1. CASE PageAt(u, y, z) = NULL
    BY <1>5, <2>1 DEF Content
  <2>2. CASE PageAt(u, y, z) # NULL
    <3>1. PageAt(u, y, z) \in Frame
      BY <2>2, MappedApart
    <3>2. PageAt(u, y, z) # f
      <4> DEFINE o == <<"page", y, z>>
                 q == <<"page", x, v>>
      <4>1. o \in Owner /\ q \in Owner /\ o # q
        BY <1>10, Owners
      <4>2. FrameOf(u)[o] = PageAt(u, y, z) /\ FrameOf(u)[q] = f
        BY <1>20, Owners
      <4> HIDE DEF o, q
      <4>3. Accounted(FrameOf(u), u.free, R)
        BY DEF Good
      <4> QED
        BY <2>2, <4>1, <4>2, <4>3 DEF Accounted
    <3> QED
      BY <1>5, <1>9, <2>2, <3>1, <3>2 DEF Content
  <2> QED
    BY <2>1, <2>2
<1>11. Content(w, x, v) = value
  BY <1>2, <1>5, <1>9, <1>20 DEF Content
<1>12. Stores(u, w, x, v, value)
  BY <1>3, <1>10, <1>11 DEF Stores
<1> QED
  BY <1>8, <1>12 DEF w

\* A panic is noticed.
LEMMA Panicked ==
  ASSUME NEW u, NEW R, Good(u, R), NEW why
  PROVE  Panic(u, why).panic = why
<1>1. u \in Memories /\ u.panic = "no"
  BY DEF Good
<1> QED
  BY <1>1, MemoryTypes DEF Panic

\* Some area of x that allows it contains v.
Allowed(u, x, v, flag) == \E a \in Elems(u.vma[x]) : InArea(a, v) /\ flag \in a.flags

\* A page is read.  The fault, if there is one, fails only outside the areas
\* that can be read.
LEMMA Read ==
  ASSUME NEW u, NEW R, Good(u, R), NEW x \in Mm, NEW v \in VPage, NEW value, NEW why
  PROVE  \/ Oom(Access(u, x, v, FALSE, value, why))
         \/ Access(u, x, v, FALSE, value, why).panic = why /\ ~ Allowed(u, x, v, "read")
         \/ /\ Good(Access(u, x, v, FALSE, value, why), R)
            /\ SameSeen(u, Access(u, x, v, FALSE, value, why))
<1> DEFINE a == FindVma(u, x, v)
           w == Looked(u, x, v)
           r == Access(u, x, v, FALSE, value, why)
           e == Pte(u, x, v)
<1>0. v \in Int /\ u \in Memories
  BY Constants DEF Good
<1>1. e.is = "present" <=> PageAt(u, x, v) # NULL
  BY <1>0, EntryFound
<1>2. CASE PageAt(u, x, v) # NULL
  <2>1. r = u
    BY <1>1, <1>2 DEF Access, Faults
  <2> QED
    BY <2>1, SeenTwice
<1>3. CASE PageAt(u, x, v) = NULL
  <2>1. r = Check(DoPgfault(u, x, v, FALSE).mem, DoPgfault(u, x, v, FALSE).ok, why)
    BY <1>1, <1>3 DEF Access, Faults
  <2>2. CASE a = NULL \/ a.flags \intersect {"read", "exec"} = {}
    <3>1. r = Panic(w, why)
      BY <1>1, <1>3, <2>1, <2>2 DEF DoPgfault, FaultAllowed, Check
    <3>2. Good(w, R)
      BY <1>0, AreaLooked
    <3> HIDE DEF w, r, a
    <3>3. r.panic = why
      BY <3>1, <3>2, Panicked
    <3>4. ~ Allowed(u, x, v, "read")
      <4> SUFFICES ASSUME NEW b \in Elems(u.vma[x]), InArea(b, v), "read" \in b.flags
                   PROVE  FALSE
        BY DEF Allowed
      <4>1. a # NULL /\ a \in Elems(u.vma[x]) /\ InArea(a, v)
        BY <1>0, VmaFound DEF a
      <4> DEFINE s == u.vma[x]
      <4>2. s \in Seq(AreaType) /\ AreasSorted(s) /\ a \in Elems(s) /\ b \in Elems(s)
        BY <1>0, <4>1, MemoryTypes DEF Good, SpaceSound
      <4> HIDE DEF s
      <4>3. a = b
        BY <1>0, <4>1, <4>2, UniqueArea
      <4> QED
        BY <2>2, <4>1, <4>3
    <3> QED
      BY <3>3, <3>4 DEF r
  <2>3. CASE a # NULL /\ a.flags \intersect {"read", "exec"} # {}
    <3>1. r = Brought(u, x, v)
      BY <1>1, <1>3, <2>1, <2>3 DEF DoPgfault, FaultAllowed, Check, Brought
    <3>2. \/ Oom(Brought(u, x, v))
          \/ Good(Brought(u, x, v), R) /\ SameSeen(u, Brought(u, x, v))
      BY <1>3, <2>3, BroughtIn
    <3> QED
      BY <3>1, <3>2
  <2> QED
    BY <2>2, <2>3
<1> QED
  BY <1>2, <1>3

\* How a store can end, for the reason why if it may not be done.
WriteEnds(u, r, R, x, v, value, why) ==
  \/ Oom(r)
  \/ r.panic = why /\ ~ Allowed(u, x, v, "write")
  \/ Good(r, R) /\ Stores(u, r, x, v, value) /\ Allowed(u, x, v, "write")

\* A page is written.
LEMMA Written ==
  ASSUME NEW u, NEW R, Good(u, R), NEW x \in Mm, NEW v \in VPage, NEW value \in Int,
         NEW why, why # "no"
  PROVE  WriteEnds(u, Access(u, x, v, TRUE, value, why), R, x, v, value, why)
<1> SUFFICES
         \/ Oom(Access(u, x, v, TRUE, value, why))
         \/ Access(u, x, v, TRUE, value, why).panic = why /\ ~ Allowed(u, x, v, "write")
         \/ /\ Good(Access(u, x, v, TRUE, value, why), R)
            /\ Stores(u, Access(u, x, v, TRUE, value, why), x, v, value)
            /\ Allowed(u, x, v, "write")
  BY DEF WriteEnds
<1> DEFINE a == FindVma(u, x, v)
           w == Looked(u, x, v)
           r == Access(u, x, v, TRUE, value, why)
           e == Pte(u, x, v)
           s == u.vma[x]
<1>0. v \in Int /\ u \in Memories
  BY Constants DEF Good
<1>1. e.is = "present" <=> PageAt(u, x, v) # NULL
  BY <1>0, EntryFound
<1>2. s \in Seq(AreaType) /\ AreasSorted(s)
  BY <1>0, MemoryTypes DEF Good, SpaceSound
<1>20. s = u.vma[x]
  OBVIOUS
<1> HIDE DEF s
<1>3. ASSUME NEW b \in Elems(s), InArea(b, v)
      PROVE  a # NULL /\ a = b
  <2>1. a # NULL /\ a \in Elems(s) /\ InArea(a, v)
    BY <1>0, <1>3, <1>20, VmaFound
  <2> HIDE DEF a
  <2>2. a = b
    BY <1>0, <1>2, <1>3, <2>1, UniqueArea
  <2> QED
    BY <2>1, <2>2
<1>4. CASE PageAt(u, x, v) # NULL /\ e.write
  <2>1. r = DataSet(u, x, v, value)
    <3>1. u.panic = "no"
      BY DEF Good
    <3> QED
      BY <1>1, <1>4, <3>1 DEF Access, Faults, DataSet
  <2>2. Good(DataSet(u, x, v, value), R) /\ Stores(u, DataSet(u, x, v, value), x, v, value)
    BY <1>4, Stored
  <2>3. Allowed(u, x, v, "write")
    <3>1. InSome(s, v, e.write)
      BY <1>4, <1>20 DEF Good, SpaceSound
    <3> QED
      BY <1>4, <1>20, <3>1 DEF InSome, Allowed, Elems
  <2> QED
    BY <2>1, <2>2, <2>3
<1>5. CASE ~ (PageAt(u, x, v) # NULL /\ e.write)
  <2> DEFINE d == Check(DoPgfault(u, x, v, TRUE).mem, DoPgfault(u, x, v, TRUE).ok, why)
  <2>1. r = IF d.panic # "no" THEN d ELSE DataSet(d, x, v, value)
    BY <1>1, <1>5 DEF Access, Faults, DataSet
  <2>2. CASE a = NULL \/ "write" \notin a.flags
    <3>1. d = Panic(w, why)
      BY <2>2 DEF DoPgfault, FaultAllowed, Check
    <3>2. Good(w, R)
      BY <1>0, AreaLooked
    <3> HIDE DEF w, d
    <3>3. d.panic = why
      BY <3>1, <3>2, Panicked
    <3> HIDE DEF r
    <3>4. r.panic = why
      BY <2>1, <3>3
    <3>5. ~ Allowed(u, x, v, "write")
      BY <1>3, <1>20, <2>2 DEF Allowed
    <3> QED
      BY <3>4, <3>5 DEF r
  <2>3. CASE a # NULL /\ "write" \in a.flags
    <3>1. d = Brought(u, x, v)
      BY <2>3 DEF DoPgfault, FaultAllowed, Check, Brought
    <3>2. a \in Elems(s) /\ InArea(a, v)
      BY <1>0, <1>20, <2>3, VmaFound
    <3>3. PageAt(u, x, v) = NULL
      <4> SUFFICES ASSUME PageAt(u, x, v) # NULL
                   PROVE  e.write
        BY <1>5
      <4>1. InSome(s, v, e.write)
        BY <1>20 DEF Good, SpaceSound
      <4>2. PICK b \in Elems(s) : InArea(b, v) /\ (e.write <=> "write" \in b.flags)
        BY <4>1 DEF InSome, Elems
      <4>3. a = b
        BY <1>3, <4>2
      <4> QED
        BY <2>3, <4>2, <4>3
    <3> HIDE DEF d, r
    <3>4. \/ Oom(d)
          \/ Good(d, R) /\ SameSeen(u, d) /\ PageAt(d, x, v) # NULL
      BY <2>3, <3>1, <3>3, BroughtIn
    <3>5. CASE Oom(d)
      <4>1. d.panic # "no"
        BY <3>5 DEF Oom
      <4> QED
        BY <2>1, <3>5, <4>1 DEF r
    <3>6. CASE Good(d, R) /\ SameSeen(u, d) /\ PageAt(d, x, v) # NULL
      <4>1. d.panic = "no"
        BY <3>6 DEF Good
      <4>2. Good(DataSet(d, x, v, value), R) /\ Stores(d, DataSet(d, x, v, value), x, v, value)
        BY <3>6, Stored
      <4>3. Stores(u, DataSet(d, x, v, value), x, v, value)
        BY <3>6, <4>2 DEF Stores, SameSeen
      <4>4. Allowed(u, x, v, "write")
        BY <1>20, <2>3, <3>2 DEF Allowed
      <4>5. r = DataSet(d, x, v, value)
        BY <2>1, <4>1
      <4> QED
        BY <4>2, <4>3, <4>4, <4>5 DEF r
    <3> QED
      BY <3>4, <3>5, <3>6
  <2> QED
    BY <2>2, <2>3
<1> QED
  BY <1>4, <1>5

\* An access of the kernel that user_mem_check has allowed does not fault for
\* good.
LEMMA CheckedRead ==
  ASSUME NEW u, NEW R, Good(u, R), NEW x \in Mm, NEW v \in VPage, NEW value, NEW why,
         UserMemCheck(u, x, v, FALSE)
  PROVE  \/ Oom(Access(Looked(u, x, v), x, v, FALSE, value, why))
         \/ /\ Good(Access(Looked(u, x, v), x, v, FALSE, value, why), R)
            /\ SameSeen(u, Access(Looked(u, x, v), x, v, FALSE, value, why))
<1> DEFINE w == Looked(u, x, v)
           a == FindVma(u, x, v)
           r == Access(w, x, v, FALSE, value, why)
<1>0. v \in Int
  BY Constants
<1>1. a # NULL /\ "read" \in a.flags
  BY DEF UserMemCheck
<1>2. a \in Elems(u.vma[x]) /\ InArea(a, v)
  BY <1>0, <1>1, VmaFound
<1>3. Good(w, R) /\ w.vma = u.vma /\ SameSeen(u, w)
  BY <1>0, AreaLooked DEF SameSeen
<1>4. Allowed(w, x, v, "read")
  BY <1>1, <1>2, <1>3 DEF Allowed
<1> HIDE DEF w
<1>5. \/ Oom(r)
      \/ r.panic = why /\ ~ Allowed(w, x, v, "read")
      \/ Good(r, R) /\ SameSeen(w, r)
  BY <1>3, Read
<1> HIDE DEF r
<1>6. SameSeen(w, r) => SameSeen(u, r)
  BY <1>3, SeenTwice
<1> QED
  BY <1>4, <1>5, <1>6 DEF r, w

\* A store that was allowed.
StoredWell(u, r, R, x, v, value) ==
  Good(r, R) /\ Stores(u, r, x, v, value) /\ Allowed(u, x, v, "write")

\* The kernel stores where user_mem_check allows it to.
LEMMA CheckedWrite ==
  ASSUME NEW u, NEW R, Good(u, R), NEW x \in Mm, NEW v \in VPage, NEW value \in Int,
         NEW why, why # "no", UserMemCheck(u, x, v, TRUE)
  PROVE  \/ Oom(Access(Looked(u, x, v), x, v, TRUE, value, why))
         \/ StoredWell(u, Access(Looked(u, x, v), x, v, TRUE, value, why), R, x, v, value)
<1> DEFINE w == Looked(u, x, v)
           a == FindVma(u, x, v)
           r == Access(w, x, v, TRUE, value, why)
<1>0. v \in Int
  BY Constants
<1>1. a # NULL /\ "write" \in a.flags
  BY DEF UserMemCheck
<1>2. a \in Elems(u.vma[x]) /\ InArea(a, v)
  BY <1>0, <1>1, VmaFound
<1>3. Good(w, R) /\ w.vma = u.vma /\ SameSeen(u, w)
  BY <1>0, AreaLooked DEF SameSeen
<1>4. Allowed(w, x, v, "write") /\ Allowed(u, x, v, "write")
  BY <1>1, <1>2, <1>3 DEF Allowed
<1> HIDE DEF w
<1>5. \/ Oom(r)
      \/ r.panic = why /\ ~ Allowed(w, x, v, "write")
      \/ Good(r, R) /\ Stores(w, r, x, v, value)
  <2>1. WriteEnds(w, r, R, x, v, value, why)
    BY <1>3, Written
  <2> HIDE DEF r
  <2> QED
    BY <2>1 DEF WriteEnds
<1> HIDE DEF r
<1>6. Stores(w, r, x, v, value) => Stores(u, r, x, v, value)
  BY <1>3 DEF Stores, SameSeen
<1> QED
  BY <1>4, <1>5, <1>6 DEF r, w, StoredWell

----------------------------------------------------------------------------
(* Processes.                                                              *)

\* The kernel stack of p.
Run(p) == kstack[p] .. kstack[p] + KSTACKPAGE - 1

\* While nothing has panicked: the memory is in order, the kernel stacks being
\* the frames that it does not account for; they lie apart.  A process with
\* memory of its own runs and is known by it, and CR3 is the current one's.
Sound ==
  /\ Good(m, Stacks)
  /\ st \in [Procs -> {"none", "run", "zombie"}]
  /\ parent \in [Procs -> Procs \cup {NULL}]
  /\ kstack \in [Procs -> Frame \cup {NULL}]
  /\ cr3 \in [Procs -> Procs \cup {NULL}]
  /\ current \in Procs \cup {NULL}
  /\ current # NULL => st[current] = "run"
  /\ \A p \in Procs : m.dir[p] # NULL => st[p] = "run" /\ cr3[p] = p
  /\ \A p \in Procs : st[p] = "run" /\ m.dir[p] = NULL => cr3[p] = NULL
  /\ m.cr3 = IF current # NULL /\ m.dir[current] # NULL THEN current ELSE NULL
  /\ \A p \in Procs : st[p] # "none" => kstack[p] \in Frame /\ Run(p) \subseteq Frame
  /\ \A p, q \in Procs : st[p] # "none" /\ st[q] # "none" /\ p # q => Run(p) \cap Run(q) = {}

Inv ==
  /\ m \in Memories
  /\ m.panic = "no" => Sound

----------------------------------------------------------------------------
(* What a step does to the pages that processes see.                       *)

\* Nothing.
Still(u, r) ==
  /\ r.vma = u.vma
  /\ \A y \in Mm, z \in VPage : Content(r, y, z) = Content(u, y, z)

\* x gets the pages of another process.
Forks(u, r, x) ==
  Elsewhere(u, r, x) /\ u.vma[x] = <<>> /\ \E from \in Mm \ {x} : Twin(r, x, from)

\* x gets the pages of an image.
Loads(u, r, x) == Elsewhere(u, r, x) /\ \E image \in Images : ImageIn(r, x, image)

\* x gives its pages up.
Exits(u, r, x) == Elsewhere(u, r, x) /\ r.vma[x] = <<>>

\* x writes to a page of its areas.
Writes(u, r, x) ==
  \E v \in VPage, value \in Value : Stores(u, r, x, v, value) /\ Allowed(u, x, v, "write")

OneAtATime(u, r) ==
  \/ Still(u, r)
  \/ \E x \in Mm : Forks(u, r, x) \/ Loads(u, r, x) \/ Exits(u, r, x) \/ Writes(u, r, x)

\* When a step ends in a panic, the reason is all that changes.
LEMMA Stopped ==
  ASSUME Sound, NEW u, Becomes(u), u.panic \in {"out of memory", "user fault"}
  PROVE  Inv' /\ OneAtATime(m, m')
<1>1. m \in Memories
  BY DEF Sound, Good
<1>2. m' = [m EXCEPT !.panic = u.panic]
  BY DEF Becomes
<1>3. /\ m'.panic = u.panic
      /\ m'.vma = m.vma /\ m'.pt = m.pt /\ m'.pte = m.pte /\ m'.data = m.data
  BY <1>1, <1>2, MemoryTypes
<1>4. m' \in Memories
  <2> DEFINE why == u.panic
  <2>1. why \in Reasons
    BY DEF Reasons
  <2> HIDE DEF why
  <2>2. m' = [m EXCEPT !.panic = why]
    BY <1>2 DEF why
  <2> QED
    BY <1>1, <2>1, <2>2 DEF Memories
<1>5. Still(m, m')
  <2>1. \A y, z : PageAt(m', y, z) = PageAt(m, y, z)
    BY <1>3, SameTables
  <2> QED
    BY <1>3, <2>1 DEF Still, Content
<1> QED
  BY <1>3, <1>4, <1>5 DEF Inv, OneAtATime

\* Else the memory is what the step makes of it.
LEMMA Goes ==
  ASSUME NEW u, NEW R, Good(u, R), Becomes(u)
  PROVE  m' = u /\ m' \in Memories /\ m'.panic = "no"
<1>1. u \in Memories /\ u.panic = "no"
  BY DEF Good
<1> QED
  BY <1>1 DEF Becomes

\* The kernel stack of a new process.
LEMMA StackTaken ==
  ASSUME Sound, NEW c \in Procs, NEW stack, stack = Alloc(m, KSTACKPAGE), stack.page # NULL
  PROVE  /\ stack.page \in Frame
         /\ stack.page .. stack.page + KSTACKPAGE - 1 \subseteq m.free
         /\ Good(stack.mem, Stacks \cup (stack.page .. stack.page + KSTACKPAGE - 1))
         /\ KeptAll(m, stack.mem)
<1> DEFINE f == stack.page
           S == f .. f + KSTACKPAGE - 1
           w == stack.mem
<1>1. KSTACKPAGE \in Nat \ {0} /\ Good(m, Stacks)
  BY AddressSpaceAssumption DEF Sound
<1>2. f \in m.free /\ S \subseteq m.free /\ w = Without(m, S)
  BY <1>1, AllocRun
<1>3. f \in Frame
  BY <1>1, <1>2, MemoryTypes DEF Good
<1> HIDE DEF S, w
<1>4. Good(w, Stacks \cup S)
  BY <1>1, <1>2, GoodTaken
<1>5. KeptAll(m, w)
  BY <1>1, <1>2, <1>4, GoodTaken
<1> QED
  BY <1>2, <1>3, <1>4, <1>5 DEF S, w

----------------------------------------------------------------------------
(* Every step keeps the invariant, and changes the pages of one process.   *)

\* At the start all frames but those of one kernel stack are free.
LEMMA FreshGood == Good(FreshMemory, {})
<1> DEFINE u == FreshMemory
<1>1. /\ u.free = Frame /\ u.ref = [f \in Frame |-> 0] /\ u.panic = "no"
      /\ u.dir = [x \in Mm |-> NULL] /\ u.pt = [x \in Mm |-> NoTables]
      /\ u.pte = [x \in Mm |-> NoEntries] /\ u.vma = [x \in Mm |-> <<>>]
      /\ u.cache = [x \in Mm |-> NULL]
  BY DEF FreshMemory
<1>2. u \in Memories
  <2>1. NoTables \in [Directory -> Frame \cup {NULL}]
    BY Constants
  <2>2. NoEntries \in [VPage -> Entries]
    BY Constants DEF NoEntries
  <2>3. Junk \in Int /\ "no" \in Reasons
    BY Constants DEF Reasons
  <2> DEFINE va == u.vaddr
             di == u.disk
  <2>4. u = [free |-> Frame, ref |-> [f \in Frame |-> 0], data |-> [f \in Frame |-> Junk],
             vaddr |-> va, pra |-> <<>>, disk |-> di, check |-> NULL,
             dir |-> [x \in Mm |-> NULL], pt |-> [x \in Mm |-> NoTables],
             pte |-> [x \in Mm |-> NoEntries], vma |-> [x \in Mm |-> <<>>],
             cache |-> [x \in Mm |-> NULL], cr3 |-> NULL, panic |-> "no"]
    BY DEF FreshMemory
  <2>5. va = FreshMemory.vaddr /\ di = FreshMemory.disk
    OBVIOUS
  <2> HIDE DEF u, va, di
  <2> QED
    BY <2>1, <2>2, <2>3, <2>4, <2>5 DEF Memories
<1>3. \A x \in Mm, v \in VPage : Pte(u, x, v) = Absent /\ PageAt(u, x, v) = NULL
  <2>1. \A x \in Mm, d \in Directory : u.pt[x][d] = NULL
    BY <1>1, Constants
  <2>2. \A x \in Mm, v \in VPage : Pte(u, x, v) = Absent
    BY <2>1, Constants DEF Pte
  <2> QED
    BY <2>2, Constants DEF PageAt
<1> HIDE DEF u
<1>4. \A o \in Owner : FrameOf(u)[o] = NULL
  <2>0. \A x \in Mm : u.dir[x] = NULL /\ \A d \in Directory : u.pt[x][d] = NULL
    BY <1>1, Constants
  <2>1. \A x \in Mm : FrameOf(u)[<<"dir", x, 0>>] = NULL
    BY <2>0, FrameOfKinds
  <2>2. ASSUME NEW x \in Mm, NEW d \in Directory
        PROVE  FrameOf(u)[<<"table", x, d>>] = NULL
    <3>1. FrameOf(u)[<<"table", x, d>>] = u.pt[x][d]
      BY FrameOfKinds
    <3> QED
      BY <2>0, <3>1
  <2>3. \A x \in Mm, v \in VPage : FrameOf(u)[<<"page", x, v>>] = NULL
    BY <1>3, FrameOfKinds
  <2>4. \A o \in Owner : \/ \E x \in Mm : o = <<"dir", x, 0>>
                         \/ \E x \in Mm, d \in Directory : o = <<"table", x, d>>
                         \/ \E x \in Mm, v \in VPage : o = <<"page", x, v>>
    BY Owners
  <2> QED
    BY <2>1, <2>2, <2>3, <2>4
<1>5. Accounted(FrameOf(u), u.free, {})
  <2>1. FrameOf(u) = [o \in Owner |-> FrameOf(u)[o]]
    BY DEF FrameOf
  <2>2. FrameOf(u) \in [Owner -> Frame \cup {NULL}]
    BY <1>4, <2>1
  <2> QED
    BY <1>1, <1>4, <2>2 DEF Accounted
<1>6. Referenced(u, {})
  BY <1>1, <1>3 DEF Referenced
<1>7. \A x \in Mm : SpaceSound(u, x)
  <2> SUFFICES ASSUME NEW x \in Mm
               PROVE  SpaceSound(u, x)
    OBVIOUS
  <2>1. u.vma[x] = <<>> /\ u.cache[x] = NULL
    BY <1>1
  <2>2. AreasSorted(<<>>)
    BY DEF AreasSorted
  <2>3. \A d \in Directory : u.pt[x][d] = NULL
    BY <1>1, Constants
  <2> QED
    BY <1>3, <2>1, <2>2, <2>3 DEF SpaceSound
<1> QED
  BY <1>1, <1>2, <1>5, <1>6, <1>7 DEF Good, u

\* The memory of the first kernel thread is in order.
LEMMA Initially ==
  ASSUME Init
  PROVE  Inv /\ m.panic = "no" /\ \A p \in Procs : m.dir[p] = NULL
<1> DEFINE stack == Alloc(FreshMemory, KSTACKPAGE)
           f == stack.page
           S == f .. f + KSTACKPAGE - 1
<1>0. KSTACKPAGE \in Nat \ {0} /\ KSTACKPAGE \in 1 .. npage /\ Procs = Mm
  BY AddressSpaceAssumption, MemoryAssumption
<1>1. PICK p \in Procs :
        /\ st = [q \in Procs |-> IF q = p THEN "run" ELSE "none"]
        /\ parent = [q \in Procs |-> NULL]
        /\ kstack = [q \in Procs |-> IF q = p THEN f ELSE NULL]
        /\ cr3 = [q \in Procs |-> NULL]
        /\ current = NULL
        /\ m = stack.mem
  BY DEF Init
<1>2. FreshMemory.free = Frame /\ FreshMemory.dir = [x \in Mm |-> NULL]
      /\ FreshMemory.cr3 = NULL /\ FreshMemory.check = NULL
  BY DEF FreshMemory
<1>3. stack.page # NULL
  <2> DEFINE fit == Fitting(FreshMemory, KSTACKPAGE)
             g == Min(fit)
  <2>1. MakeRoom(FreshMemory, KSTACKPAGE) = FreshMemory
    <3>1. Frame # {}
      BY <1>0, MemoryAssumption DEF Frame
    <3> QED
      BY <1>2, <3>1 DEF MakeRoom
  <2>2. stack = IF fit = {} THEN [mem |-> FreshMemory, page |-> NULL]
                ELSE [mem |-> [FreshMemory EXCEPT !.free = @ \ (g .. g + KSTACKPAGE - 1)],
                      page |-> g]
    BY <2>1 DEF Alloc, TakeFirst
  <2>3. 1 \in fit
    BY <1>0, <1>2, MemoryAssumption DEF Fitting, Frame
  <2>4. fit \in SUBSET Nat /\ fit \subseteq Frame
    BY <1>2, MemoryAssumption DEF Fitting, Frame
  <2>5. g \in fit
    <3> HIDE DEF fit
    <3> QED
      BY <2>3, <2>4, LeastPlace
  <2>6. g \in Frame
    <3> HIDE DEF fit, g
    <3> QED
      BY <2>4, <2>5
  <2> HIDE DEF fit, g
  <2>7. stack.page = g
    BY <2>2, <2>3
  <2> HIDE DEF stack
  <2> QED
    BY <2>6, <2>7, Constants
<1>30. Good(FreshMemory, {})
  BY FreshGood
<1>31. stack = Alloc(FreshMemory, KSTACKPAGE)
  OBVIOUS
<1> HIDE DEF stack
<1>4. f \in FreshMemory.free /\ S \subseteq FreshMemory.free
      /\ stack.mem = Without(FreshMemory, S)
  BY <1>0, <1>3, <1>30, <1>31, AllocRun
<1>5. f \in Frame /\ S \subseteq Frame
  BY <1>2, <1>4
<1>50. f = stack.page /\ S = f .. f + KSTACKPAGE - 1
  OBVIOUS
<1> HIDE DEF S
<1>6. Good(m, {} \cup S)
  BY <1>1, <1>30, <1>4, GoodTaken
<1>7. m.dir = FreshMemory.dir /\ m.cr3 = FreshMemory.cr3
  BY <1>1, <1>30, <1>4, <1>6, GoodTaken DEF KeptAll
<1> HIDE DEF f
<1>8. Live = {p} /\ Run(p) = S
  BY <1>1, <1>50 DEF Live, Run
<1>9. Stacks = S
  <2>1. Stacks = UNION {Run(q) : q \in Live}
    BY DEF Stacks, Run
  <2> QED
    BY <1>8, <2>1
<1>10. Good(m, Stacks)
  BY <1>6, <1>9
<1>11. \A q \in Procs : st[q] # "none" => q = p
  BY <1>1
<1>12. m \in Memories /\ m.panic = "no"
  BY <1>10 DEF Good
<1>13. Sound
  BY <1>0, <1>1, <1>2, <1>5, <1>7, <1>8, <1>10, <1>11 DEF Sound
<1>14. \A q \in Procs : m.dir[q] = NULL
  BY <1>0, <1>2, <1>7
<1> QED
  BY <1>12, <1>13, <1>14 DEF Inv

\* The facts about the constants and about processes that steps need.
LEMMA SoundTypes ==
  ASSUME Sound
  PROVE  /\ Procs = Mm /\ m \in Memories /\ m.panic = "no" /\ Good(m, Stacks)
         /\ current \in Mm \cup {NULL} /\ NULL \notin Mm
         /\ \A p \in Mm : m.dir[p] # NULL => st[p] = "run" /\ cr3[p] = p
         /\ \A p \in Mm : st[p] = "run" /\ m.dir[p] = NULL => cr3[p] = NULL
         /\ m.cr3 = IF current # NULL /\ m.dir[current] # NULL THEN current ELSE NULL
<1>1. Procs = Mm
  BY AddressSpaceAssumption
<1>2. m \in Memories /\ m.panic = "no"
  BY DEF Sound, Good
<1> QED
  BY <1>1, <1>2, Constants DEF Sound

\* A step that changes the memory only, and no directory.
LEMMA MemoryStep ==
  ASSUME Sound, NEW r, Good(r, Stacks), Becomes(r), r.dir = m.dir, r.cr3 = m.cr3,
         UNCHANGED <<st, parent, kstack, cr3, current>>
  PROVE  Inv' /\ m' = r
<1>1. m' = r /\ m' \in Memories /\ m'.panic = "no"
  BY Goes
<1>2. Stacks' = Stacks
  BY DEF Stacks, Live
<1>3. Good(m', Stacks')
  BY <1>1, <1>2
<1>4. \A p \in Procs : Run(p)' = Run(p)
  BY DEF Run
<1>5. Sound'
  BY <1>1, <1>3, <1>4 DEF Sound
<1> QED
  BY <1>1, <1>5 DEF Inv

\* The program writes to a page ...
LEMMA WriteStep ==
  ASSUME Sound, NEW v \in VPage, NEW value \in Value, Use(v, TRUE, value)
  PROVE  Inv' /\ OneAtATime(m, m')
<1> DEFINE why == "user fault"
           r == Access(m, current, v, TRUE, value, why)
<1>0. current \in Mm /\ Good(m, Stacks)
  BY SoundTypes DEF Use
<1>1. UNCHANGED <<st, parent, kstack, cr3, current>> /\ Becomes(r)
  BY DEF Use
<1>2. why # "no" /\ value \in Int
  BY MemoryAssumption
<1> HIDE DEF why
<1>3. \/ Oom(r)
      \/ r.panic = why
      \/ Good(r, Stacks) /\ Stores(m, r, current, v, value) /\ Allowed(m, current, v, "write")
  <2>1. WriteEnds(m, r, Stacks, current, v, value, why)
    BY <1>0, <1>2, Written
  <2> HIDE DEF r
  <2> QED
    BY <2>1 DEF WriteEnds
<1> HIDE DEF r
<1>4. CASE Oom(r) \/ r.panic = why
  BY <1>1, <1>4, Stopped DEF Oom, why
<1>5. CASE Good(r, Stacks) /\ Stores(m, r, current, v, value)
           /\ Allowed(m, current, v, "write")
  <2>1. r.dir = m.dir /\ r.cr3 = m.cr3
    BY <1>5 DEF Stores
  <2>2. Inv' /\ m' = r
    BY <1>0, <1>1, <1>5, <2>1, MemoryStep
  <2>3. Writes(m, m', current)
    BY <1>5, <2>2 DEF Writes
  <2> QED
    BY <1>0, <2>2, <2>3 DEF OneAtATime
<1> QED
  BY <1>3, <1>4, <1>5

\* ... or reads it.
LEMMA ReadStep ==
  ASSUME Sound, NEW v \in VPage, Use(v, FALSE, 0)
  PROVE  Inv' /\ OneAtATime(m, m')
<1> DEFINE why == "user fault"
           r == Access(m, current, v, FALSE, 0, why)
<1>1. /\ current \in Mm /\ m.dir[current] # NULL /\ Good(m, Stacks)
      /\ UNCHANGED <<st, parent, kstack, cr3, current>> /\ Becomes(r)
  BY SoundTypes DEF Use, HasMm
<1> HIDE DEF why
<1>3. \/ Oom(r)
      \/ r.panic = why
      \/ Good(r, Stacks) /\ SameSeen(m, r)
  BY <1>1, Read
<1> HIDE DEF r
<1>4. CASE Oom(r) \/ r.panic = why
  BY <1>1, <1>4, Stopped DEF Oom, why
<1>5. CASE Good(r, Stacks) /\ SameSeen(m, r)
  <2>1. r.dir = m.dir /\ r.cr3 = m.cr3
    BY <1>5 DEF SameSeen
  <2>2. Inv' /\ m' = r
    BY <1>1, <1>5, <2>1, MemoryStep
  <2>3. Still(m, m')
    BY <1>5, <2>2 DEF SameSeen, Still
  <2> QED
    BY <2>2, <2>3 DEF OneAtATime
<1> QED
  BY <1>3, <1>4, <1>5

\* A system call that is refused.
LEMMA RefuseStep ==
  ASSUME Sound, NEW v \in VPage, NEW write \in BOOLEAN, Refuse(v, write)
  PROVE  Inv' /\ OneAtATime(m, m')
<1> DEFINE r == IF UserAccess(v, v + 1) THEN Looked(m, current, v) ELSE m
<1>1. /\ current \in Mm /\ Good(m, Stacks) /\ v \in Int
      /\ UNCHANGED <<st, parent, kstack, cr3, current>> /\ Becomes(r)
  BY SoundTypes, Constants DEF Refuse
<1>2. Good(r, Stacks) /\ r.dir = m.dir /\ r.cr3 = m.cr3 /\ Still(m, r)
  <2>1. CASE r = m
    BY <1>1, <2>1 DEF Still
  <2>2. CASE r = Looked(m, current, v)
    BY <1>1, <2>2, AreaLooked DEF Still
  <2> QED
    BY <2>1, <2>2
<1> HIDE DEF r
<1>3. Inv' /\ m' = r
  BY <1>1, <1>2, MemoryStep
<1> QED
  BY <1>2, <1>3 DEF OneAtATime

\* CR3 after schedule(), whose choice is next.
LEMMA NextCr ==
  ASSUME Sound, NEW u, NEW next \in Mm \cup {NULL}, next # NULL => st[next] = "run"
  PROVE  /\ Switched(u, next) = CrSet(u, IF next = NULL THEN NULL ELSE cr3[next])
         /\ (IF next = NULL THEN NULL ELSE cr3[next]) =
              IF next # NULL /\ m.dir[next] # NULL THEN next ELSE NULL
BY SoundTypes DEF Switched, CrSet

\* init or another process runs.
LEMMA SwitchStep ==
  ASSUME Sound, NEW next \in Procs \cup {NULL}, Switch(next)
  PROVE  Inv' /\ OneAtATime(m, m')
<1> DEFINE y == IF next # NULL /\ m.dir[next] # NULL THEN next ELSE NULL
           r == CrSet(m, y)
<1>1. /\ next \in Mm \cup {NULL}
      /\ next # NULL => st[next] = "run"
      /\ y \in Mm \cup {NULL} /\ Good(m, Stacks) /\ Procs = Mm
  BY SoundTypes DEF Switch
<1>2. y = IF next # NULL /\ m.dir[next] # NULL THEN next ELSE NULL
  OBVIOUS
<1>3. Switched(m, next) = r
  BY <1>1, NextCr
<1>4. /\ UNCHANGED <<st, parent, kstack, cr3>> /\ current' = next /\ Becomes(r)
  BY <1>3 DEF Switch
<1> HIDE DEF y
<1>5. Good(r, Stacks) /\ AllElse(m, r) /\ r.cr3 = y
  BY <1>1, CrChanged
<1> HIDE DEF r
<1>6. m' = r /\ m' \in Memories /\ m'.panic = "no"
  BY <1>4, <1>5, Goes
<1>7. Stacks' = Stacks /\ \A p \in Procs : Run(p)' = Run(p)
  BY <1>4 DEF Stacks, Live, Run
<1>8. Sound'
  <2>1. Good(m', Stacks') /\ m'.dir = m.dir /\ m'.cr3 = y
    BY <1>5, <1>6, <1>7 DEF AllElse
  <2> QED
    BY <1>1, <1>2, <1>4, <1>7, <2>1 DEF Sound
<1>9. Still(m, m')
  BY <1>5, <1>6 DEF Still, AllElse
<1> QED
  BY <1>6, <1>8, <1>9 DEF Inv, OneAtATime

\* The memory of the process that leaves is u without panic, or lost in one.
LEMMA Left ==
  ASSUME Sound, current \in Mm, NEW u,
         \/ Oom(u)
         \/ Good(u, Stacks) /\ u.dir[current] = NULL /\ Elsewhere(m, u, current),
         Leave(u)
  PROVE  Inv' /\ OneAtATime(m, m')
<1>1. PICK next \in {NULL} \union {p \in Procs \ {current} : st[p] = "run"} :
        current' = next /\ Becomes(Switched(u, next))
  BY DEF Leave
<1>2. /\ Procs = Mm /\ next \in Mm \cup {NULL} /\ next # current
      /\ next # NULL => st[next] = "run"
  BY SoundTypes
<1> DEFINE y == IF next # NULL /\ m.dir[next] # NULL THEN next ELSE NULL
           r == CrSet(u, y)
<1>3. y = IF next # NULL /\ m.dir[next] # NULL THEN next ELSE NULL
  OBVIOUS
<1>4. Switched(u, next) = r
  BY <1>2, NextCr
<1>5. Becomes(r) /\ current' = next /\ y \in Mm \cup {NULL}
  BY <1>1, <1>2, <1>4
<1>6. /\ st' = [st EXCEPT ![current] = "zombie"] /\ UNCHANGED <<kstack, cr3>>
      /\ parent' = [p \in Procs |-> IF parent[p] = current THEN NULL ELSE parent[p]]
  BY DEF Leave
<1> HIDE DEF y
<1>7. CASE Oom(u)
  <2>1. Oom(r)
    BY <1>7, CrOom
  <2> HIDE DEF r
  <2> QED
    BY <1>5, <2>1, Stopped DEF Oom
<1>8. CASE Good(u, Stacks) /\ u.dir[current] = NULL /\ Elsewhere(m, u, current)
  <2>1. Good(r, Stacks) /\ AllElse(u, r) /\ r.cr3 = y
    BY <1>5, <1>8, CrChanged
  <2> HIDE DEF r
  <2>2. m' = r /\ m' \in Memories /\ m'.panic = "no"
    BY <1>5, <2>1, Goes
  <2>3. st \in [Procs -> {"none", "run", "zombie"}] /\ st[current] = "run"
    BY Constants, <1>2 DEF Sound
  <2>4. \A p \in Procs : st'[p] = IF p = current THEN "zombie" ELSE st[p]
    BY <1>6, <2>3
  <2>5. Live' = Live /\ \A p \in Procs : Run(p)' = Run(p)
    BY <1>6, <2>3, <2>4 DEF Live, Run
  <2>6. Stacks' = Stacks
    BY <1>6, <2>5 DEF Stacks
  <2>7. /\ Good(m', Stacks') /\ m'.dir[current] = NULL /\ m'.cr3 = y
        /\ \A x \in Mm : x # current => m'.dir[x] = m.dir[x]
    BY <1>8, <2>1, <2>2, <2>6 DEF AllElse, Elsewhere
  <2>8. st' \in [Procs -> {"none", "run", "zombie"}]
    BY <1>6, <2>3
  <2>9. Sound'
    <3>1. parent' \in [Procs -> Procs \cup {NULL}]
      BY <1>6 DEF Sound
    <3>2. /\ kstack' \in [Procs -> Frame \cup {NULL}]
          /\ cr3' \in [Procs -> Procs \cup {NULL}]
          /\ current' \in Procs \cup {NULL}
          /\ current' # NULL => st'[current'] = "run"
      BY <1>2, <1>5, <1>6, <2>4 DEF Sound
    <3>3. /\ \A p \in Procs : m'.dir[p] # NULL => st'[p] = "run" /\ cr3'[p] = p
          /\ \A p \in Procs : st'[p] = "run" /\ m'.dir[p] = NULL => cr3'[p] = NULL
          /\ m'.cr3 = IF current' # NULL /\ m'.dir[current'] # NULL THEN current' ELSE NULL
      BY <1>2, <1>3, <1>5, <1>6, <2>4, <2>7 DEF Sound
    <3>4. /\ \A p \in Procs : st'[p] # "none" => kstack'[p] \in Frame /\ Run(p)' \subseteq Frame
          /\ \A p, q \in Procs :
               st'[p] # "none" /\ st'[q] # "none" /\ p # q => Run(p)' \cap Run(q)' = {}
      BY <1>6, <2>3, <2>4, <2>5 DEF Sound
    <3> QED
      BY <2>7, <2>8, <3>1, <3>2, <3>3, <3>4 DEF Sound
  <2>10. Exits(m, m', current)
    <3>1. Elsewhere(m, m', current)
      BY <1>8, <2>1, <2>2 DEF Elsewhere, AllElse
    <3>2. m'.vma[current] = <<>>
      BY <1>8, <2>1, <2>2, NoDirectory DEF AllElse
    <3> QED
      BY <3>1, <3>2 DEF Exits
  <2> QED
    BY <2>2, <2>9, <2>10 DEF Inv, OneAtATime
<1> QED
  BY <1>7, <1>8

\* do_exit
LEMMA ExitStep ==
  ASSUME Sound, Exit
  PROVE  Inv' /\ OneAtATime(m, m')
<1> DEFINE u == IF HasMm(current) THEN DropMm(m, current) ELSE m
<1>1. current \in Mm /\ Good(m, Stacks) /\ Leave(u)
  BY SoundTypes DEF Exit
<1>2. Good(u, Stacks) /\ u.dir[current] = NULL /\ Elsewhere(m, u, current)
  <2>1. CASE HasMm(current)
    <3> DEFINE w == DropMm(m, current)
    <3>1. m.dir[current] # NULL /\ u = w
      BY <2>1 DEF HasMm
    <3>2. Good(w, Stacks) /\ Others(m, w, current) /\ w.dir[current] = NULL
      BY <1>1, <3>1, SpaceDropped
    <3> HIDE DEF u, w
    <3> QED
      BY <3>1, <3>2 DEF Others, Elsewhere
  <2>2. CASE ~ HasMm(current)
    BY <1>1, <2>2 DEF HasMm, Elsewhere
  <2> QED
    BY <2>1, <2>2
<1> HIDE DEF u
<1> QED
  BY <1>1, <1>2, Left

\* The memory after the exit code is stored, if it is wanted.
LEMMA CodeStored ==
  ASSUME Sound, NEW v \in Touch \cup {NULL}, NEW code \in Value, NEW why, why # "no",
         current = NULL => v = NULL, v # NULL => UserMemCheck(m, current, v, TRUE),
         NEW u, u = IF v = NULL THEN m
                    ELSE Access(Looked(m, current, v), current, v, TRUE, code, why)
  PROVE  \/ Oom(u)
         \/ /\ Good(u, Stacks) /\ u.dir = m.dir /\ u.cr3 = m.cr3
            /\ Still(m, u) \/ \E x \in Mm : Writes(m, u, x)
<1>1. Good(m, Stacks) /\ current \in Mm \cup {NULL}
  BY SoundTypes
<1>0. code \in Int
  BY MemoryAssumption
<1>2. CASE v = NULL
  BY <1>1, <1>2 DEF Still
<1>3. CASE v # NULL
  <2> DEFINE w == Access(Looked(m, current, v), current, v, TRUE, code, why)
  <2>0. v \in VPage /\ current \in Mm /\ UserMemCheck(m, current, v, TRUE)
    BY <1>1, <1>3, AddressSpaceAssumption
  <2>1. u = w
    BY <1>3
  <2>2. Oom(w) \/ StoredWell(m, w, Stacks, current, v, code)
    BY <1>1, <2>0, <1>0, CheckedWrite
  <2> HIDE DEF w
  <2>3. Stores(m, w, current, v, code) => w.dir = m.dir /\ w.cr3 = m.cr3
    BY DEF Stores
  <2>4. Stores(m, w, current, v, code) /\ Allowed(m, current, v, "write")
          => Writes(m, w, current)
    BY <2>0, <2>1 DEF Writes
  <2> QED
    BY <2>0, <2>1, <2>2, <2>3, <2>4 DEF StoredWell
<1> QED
  BY <1>2, <1>3

\* Contents that are kept, after a step that changed those of one process.
LEMMA ThenKept ==
  ASSUME NEW u, NEW w, NEW r, KeptAll(w, r)
  PROVE  /\ Still(u, w) => Still(u, r)
         /\ \A x \in Mm : Writes(u, w, x) => Writes(u, r, x)
<1>1. Still(u, w) => Still(u, r)
  BY DEF Still, KeptAll
<1>2. ASSUME NEW x \in Mm, NEW v \in VPage, NEW value \in Value, Stores(u, w, x, v, value)
      PROVE  Stores(u, r, x, v, value)
  BY <1>2 DEF Stores, KeptAll
<1> QED
  BY <1>1, <1>2 DEF Writes

\* do_wait frees the kernel stack of a zombie.
LEMMA WaitStep ==
  ASSUME Sound, NEW c \in Procs, NEW v \in Touch \cup {NULL}, Wait(c, v)
  PROVE  Inv' /\ OneAtATime(m, m')
<1> DEFINE why == "kernel fault"
           code == 0
           u == IF v = NULL THEN m
                ELSE Access(Looked(m, current, v), current, v, TRUE, code, why)
           f == kstack[c]
           r == FreePages(u, f, KSTACKPAGE)
<1>1. /\ st[c] = "zombie"
      /\ current = NULL => v = NULL
      /\ v # NULL => UserMemCheck(m, current, v, TRUE)
      /\ Becomes(r)
  BY DEF Wait, PutKstack
<1>2. /\ st' = [st EXCEPT ![c] = "none"] /\ kstack' = [kstack EXCEPT ![c] = NULL]
      /\ cr3' = [cr3 EXCEPT ![c] = NULL] /\ parent' = [parent EXCEPT ![c] = NULL]
      /\ current' = current
  BY DEF Wait
<1>3. /\ st \in [Procs -> {"none", "run", "zombie"}] /\ kstack \in [Procs -> Frame \cup {NULL}]
      /\ cr3 \in [Procs -> Procs \cup {NULL}] /\ parent \in [Procs -> Procs \cup {NULL}]
      /\ Procs = Mm /\ KSTACKPAGE \in Nat \ {0}
  BY AddressSpaceAssumption DEF Sound
<1>4. /\ \A p \in Procs : st'[p] = IF p = c THEN "none" ELSE st[p]
      /\ \A p \in Procs : kstack'[p] = IF p = c THEN NULL ELSE kstack[p]
      /\ \A p \in Procs : cr3'[p] = IF p = c THEN NULL ELSE cr3[p]
  BY <1>2, <1>3
<1>5. f \in Frame /\ Run(c) = f .. f + KSTACKPAGE - 1
  BY <1>1 DEF Sound, Run
<1> HIDE DEF f
<1>60. why # "no" /\ code \in Value
  BY MemoryAssumption
<1> HIDE DEF why, code
<1>6. \/ Oom(u)
      \/ /\ Good(u, Stacks) /\ u.dir = m.dir /\ u.cr3 = m.cr3
         /\ Still(m, u) \/ \E x \in Mm : Writes(m, u, x)
  BY <1>1, <1>60, CodeStored
<1> HIDE DEF u
<1>7. CASE Oom(u)
  <2>1. Oom(r)
    BY <1>7, OomFrames
  <2> HIDE DEF r
  <2> QED
    BY <1>1, <2>1, Stopped DEF Oom
<1>8. CASE /\ Good(u, Stacks) /\ u.dir = m.dir /\ u.cr3 = m.cr3
           /\ Still(m, u) \/ \E x \in Mm : Writes(m, u, x)
  <2> DEFINE S == f .. f + KSTACKPAGE - 1
  <2>1. S \subseteq Stacks
    BY <1>1, <1>5 DEF Stacks, Live, Run
  <2>2. Good(r, Stacks \ S)
    BY <1>3, <1>5, <1>8, <2>1, GoodFreed
  <2>3. KeptAll(u, r)
    BY <1>3, <1>5, <1>8, <2>1, <2>2, GoodFreed
  <2> HIDE DEF r, S
  <2>4. m' = r /\ m' \in Memories /\ m'.panic = "no"
    BY <1>1, <2>2, Goes
  <2>5. \A p \in Procs : p # c => Run(p)' = Run(p)
    BY <1>4 DEF Run
  <2>6. Stacks' = Stacks \ S
    <3>1. Live' = Live \ {c} /\ c \in Live /\ Live \subseteq Procs
      BY <1>1, <1>4 DEF Live
    <3>2. Stacks = UNION {Run(p) : p \in Live} /\ Stacks' = UNION {Run(p)' : p \in Live'}
      BY DEF Stacks, Run
    <3>3. UNION {Run(p)' : p \in Live'} = UNION {Run(p) : p \in Live \ {c}}
      BY <2>5, <3>1
    <3>4. \A p \in Live \ {c} : Run(p) \cap S = {}
      BY <1>1, <1>5, <3>1 DEF Sound, S, Live
    <3>5. Run(c) = S
      BY <1>5 DEF S
    <3> HIDE DEF Run
    <3> QED
      BY <3>1, <3>2, <3>3, <3>4, <3>5
  <2>7. Good(m', Stacks') /\ m'.dir = m.dir /\ m'.cr3 = m.cr3
    BY <1>8, <2>2, <2>3, <2>4, <2>6 DEF KeptAll
  <2>8. Sound'
    <3>1. /\ st' \in [Procs -> {"none", "run", "zombie"}]
          /\ parent' \in [Procs -> Procs \cup {NULL}]
          /\ kstack' \in [Procs -> Frame \cup {NULL}]
          /\ cr3' \in [Procs -> Procs \cup {NULL}]
      BY <1>2, <1>3
    <3>2. current' # NULL => current # c /\ st'[current'] = "run"
      BY <1>1, <1>2, <1>4 DEF Sound
    <3>3. /\ \A p \in Procs : m'.dir[p] # NULL => st'[p] = "run" /\ cr3'[p] = p
          /\ \A p \in Procs : st'[p] = "run" /\ m'.dir[p] = NULL => cr3'[p] = NULL
          /\ m'.cr3 = IF current' # NULL /\ m'.dir[current'] # NULL THEN current' ELSE NULL
      BY <1>1, <1>2, <1>4, <2>7 DEF Sound
    <3>4. /\ \A p \in Procs : st'[p] # "none" => kstack'[p] \in Frame /\ Run(p)' \subseteq Frame
          /\ \A p, q \in Procs :
               st'[p] # "none" /\ st'[q] # "none" /\ p # q => Run(p)' \cap Run(q)' = {}
      BY <1>4, <2>5 DEF Sound
    <3>5. current' \in Procs \cup {NULL}
      BY <1>2 DEF Sound
    <3> QED
      BY <2>7, <3>1, <3>2, <3>3, <3>4, <3>5 DEF Sound
  <2>9. OneAtATime(m, m')
    BY <1>8, <2>3, <2>4, ThenKept DEF OneAtATime
  <2> QED
    BY <2>4, <2>8, <2>9 DEF Inv
<1> QED
  BY <1>6, <1>7, <1>8

\* do_fork
LEMMA ForkStep ==
  ASSUME Sound, NEW c \in Procs, Fork(c)
  PROVE  Inv' /\ OneAtATime(m, m')
<1> DEFINE stack == Alloc(m, KSTACKPAGE)
           f == stack.page
           S == f .. f + KSTACKPAGE - 1
           u == stack.mem
           r == CopyMm(u, c, current)
<1>1. /\ current \in Mm /\ m.dir[current] # NULL /\ st[c] = "none" /\ f # NULL
      /\ Procs = Mm /\ Good(m, Stacks) /\ m.cr3 = current
  BY SoundTypes DEF Fork, HasMm
<1>2. /\ st' = [st EXCEPT ![c] = "run"] /\ parent' = [parent EXCEPT ![c] = current]
      /\ kstack' = [kstack EXCEPT ![c] = f] /\ cr3' = [cr3 EXCEPT ![c] = c]
      /\ current' = current
  BY DEF Fork
<1>3. Becomes(r)
  BY DEF Fork
<1>4. stack = Alloc(m, KSTACKPAGE)
  OBVIOUS
<1> HIDE DEF stack
<1>5. f \in Frame /\ S \subseteq m.free /\ Good(u, Stacks \cup S) /\ KeptAll(m, u)
  BY <1>1, <1>4, StackTaken
<1>6. S = f .. f + KSTACKPAGE - 1
  OBVIOUS
<1> HIDE DEF S, f, u
<1>7. c # current /\ m.dir[c] = NULL /\ u.dir = m.dir
  BY <1>1, <1>5 DEF Sound, KeptAll
<1>8. \/ Oom(r)
      \/ /\ Good(r, Stacks \cup S) /\ Others(u, r, c) /\ r.dir[c] # NULL
         /\ Twin(r, c, current)
  BY <1>1, <1>5, <1>7, SpaceCopied
<1> HIDE DEF r
<1>9. CASE Oom(r)
  BY <1>3, <1>9, Stopped DEF Oom
<1>10. CASE /\ Good(r, Stacks \cup S) /\ Others(u, r, c) /\ r.dir[c] # NULL
            /\ Twin(r, c, current)
  <2>1. m' = r /\ m' \in Memories /\ m'.panic = "no"
    BY <1>3, <1>10, Goes
  <2>2. /\ st \in [Procs -> {"none", "run", "zombie"}]
        /\ kstack \in [Procs -> Frame \cup {NULL}]
        /\ cr3 \in [Procs -> Procs \cup {NULL}] /\ parent \in [Procs -> Procs \cup {NULL}]
    BY DEF Sound
  <2>3. /\ \A p \in Procs : st'[p] = IF p = c THEN "run" ELSE st[p]
        /\ \A p \in Procs : kstack'[p] = IF p = c THEN f ELSE kstack[p]
        /\ \A p \in Procs : cr3'[p] = IF p = c THEN c ELSE cr3[p]
    BY <1>2, <2>2
  <2>4. Run(c)' = S /\ \A p \in Procs : p # c => Run(p)' = Run(p)
    BY <1>6, <2>3 DEF Run
  <2>5. Live' = Live \cup {c} /\ c \notin Live /\ Live \subseteq Procs
    BY <1>1, <2>3 DEF Live
  <2>6. Stacks' = Stacks \cup S
    <3>1. Stacks = UNION {Run(p) : p \in Live} /\ Stacks' = UNION {Run(p)' : p \in Live'}
      BY DEF Stacks, Run
    <3>2. UNION {Run(p)' : p \in Live} = UNION {Run(p) : p \in Live}
      BY <2>4, <2>5
    <3>3. UNION {Run(p)' : p \in Live'} = (UNION {Run(p)' : p \in Live}) \cup Run(c)'
      BY <2>5
    <3> HIDE DEF Run
    <3> QED
      BY <2>4, <3>1, <3>2, <3>3
  <2>7. /\ Good(m', Stacks') /\ m'.dir[c] # NULL /\ m'.cr3 = m.cr3
        /\ \A x \in Mm : x # c => m'.dir[x] = m.dir[x]
    BY <1>5, <1>7, <1>10, <2>1, <2>6 DEF Others, KeptAll
  <2>8. /\ S \subseteq Frame
        /\ \A p \in Procs : st[p] # "none" => Run(p) \cap S = {}
    <3>1. Accounted(FrameOf(m), m.free, Stacks)
      BY <1>1 DEF Good
    <3>2. S \subseteq Frame /\ Stacks \cap S = {}
      BY <1>5, <3>1 DEF Accounted
    <3>3. \A p \in Procs : st[p] # "none" => Run(p) \subseteq Stacks
      BY DEF Stacks, Live, Run
    <3> QED
      BY <3>2, <3>3
  <2>9. Sound'
    <3>1. /\ st' \in [Procs -> {"none", "run", "zombie"}]
          /\ parent' \in [Procs -> Procs \cup {NULL}]
          /\ kstack' \in [Procs -> Frame \cup {NULL}]
          /\ cr3' \in [Procs -> Procs \cup {NULL}]
      BY <1>1, <1>2, <1>5, <2>2
    <3>2. /\ current' \in Procs \cup {NULL}
          /\ current' # NULL => st'[current'] = "run"
      BY <1>1, <1>2, <2>3 DEF Sound
    <3>3. /\ \A p \in Procs : m'.dir[p] # NULL => st'[p] = "run" /\ cr3'[p] = p
          /\ \A p \in Procs : st'[p] = "run" /\ m'.dir[p] = NULL => cr3'[p] = NULL
          /\ m'.cr3 = IF current' # NULL /\ m'.dir[current'] # NULL THEN current' ELSE NULL
      BY <1>1, <1>2, <1>7, <2>3, <2>7, Constants DEF Sound
    <3>4. /\ \A p \in Procs : st'[p] # "none" => kstack'[p] \in Frame /\ Run(p)' \subseteq Frame
          /\ \A p, q \in Procs :
               st'[p] # "none" /\ st'[q] # "none" /\ p # q => Run(p)' \cap Run(q)' = {}
      BY <1>5, <2>3, <2>4, <2>8 DEF Sound
    <3> QED
      BY <2>7, <3>1, <3>2, <3>3, <3>4 DEF Sound
  <2>10. Forks(m, m', c)
    <3>1. Elsewhere(m, m', c)
      BY <1>5, <1>10, <2>1 DEF Elsewhere, KeptAll, Others
    <3>2. m.vma[c] = <<>>
      BY <1>1, <1>7, NoDirectory
    <3> QED
      BY <1>1, <1>7, <1>10, <2>1, <3>1, <3>2 DEF Forks
  <2> QED
    BY <1>1, <2>1, <2>9, <2>10 DEF Inv, OneAtATime
<1> QED
  BY <1>8, <1>9, <1>10

\* The memory of do_execve before the image is loaded.
LEMMA OldDropped ==
  ASSUME Sound, current \in Mm, NEW v \in Touch \cup {NULL}, NEW value, NEW why,
         HasMm(current) <=> v # NULL,
         HasMm(current) => UserMemCheck(m, current, v, FALSE),
         NEW u, u = IF ~ HasMm(current) THEN m
                    ELSE DropMm(Access(Looked(m, current, v), current, v, FALSE, value, why),
                                current)
  PROVE  \/ Oom(u)
         \/ Good(u, Stacks) /\ u.dir[current] = NULL /\ Elsewhere(m, u, current)
<1>1. Good(m, Stacks)
  BY SoundTypes
<1>2. CASE ~ HasMm(current)
  <2>1. u = m /\ m.dir[current] = NULL
    BY <1>2 DEF HasMm
  <2> QED
    BY <1>1, <2>1 DEF Elsewhere
<1>3. CASE HasMm(current)
  <2> DEFINE a == Access(Looked(m, current, v), current, v, FALSE, value, why)
             w == DropMm(a, current)
  <2>1. v \in VPage /\ m.dir[current] # NULL /\ UserMemCheck(m, current, v, FALSE)
    BY <1>3, AddressSpaceAssumption DEF HasMm
  <2>2. u = w
    BY <1>3
  <2>3. Oom(a) \/ (Good(a, Stacks) /\ SameSeen(m, a))
    BY <1>1, <2>1, CheckedRead
  <2> HIDE DEF a
  <2>4. CASE Oom(a)
    BY <2>2, <2>4, OomWhole
  <2>5. CASE Good(a, Stacks) /\ SameSeen(m, a)
    <3>1. a.dir[current] # NULL
      BY <2>1, <2>5 DEF SameSeen
    <3>2. Good(w, Stacks) /\ Others(a, w, current) /\ w.dir[current] = NULL
      BY <2>5, <3>1, SpaceDropped
    <3> HIDE DEF w
    <3>3. Elsewhere(m, w, current)
      BY <2>5, <3>2 DEF SameSeen, Others, Elsewhere
    <3> QED
      BY <2>2, <3>2, <3>3
  <2> QED
    BY <2>3, <2>4, <2>5
<1> QED
  BY <1>2, <1>3

\* do_execve
LEMMA ExecStep ==
  ASSUME Sound, NEW image \in Images, NEW v \in Touch \cup {NULL}, Exec(image, v)
  PROVE  Inv' /\ OneAtATime(m, m')
<1> DEFINE why == "kernel fault"
           value == 0
           u == IF ~ HasMm(current) THEN m
                ELSE DropMm(Access(Looked(m, current, v), current, v, FALSE, value, why),
                            current)
           r == LoadIcode(u, current, image)
<1>1. current \in Mm /\ Procs = Mm
  BY SoundTypes DEF Exec
<1>2. /\ HasMm(current) <=> v # NULL
      /\ HasMm(current) => UserMemCheck(m, current, v, FALSE)
      /\ IF r.ok THEN /\ Becomes(r.mem)
                      /\ cr3' = [cr3 EXCEPT ![current] = current]
                      /\ UNCHANGED <<st, parent, kstack, current>>
                 ELSE Leave(r.mem)
  BY DEF Exec
<1> HIDE DEF why, value
<1>3. \/ Oom(u)
      \/ Good(u, Stacks) /\ u.dir[current] = NULL /\ Elsewhere(m, u, current)
  BY <1>1, <1>2, OldDropped
<1> HIDE DEF u
<1>4. \/ Oom(r.mem)
      \/ /\ r.ok /\ ~ Oom(u) /\ Good(r.mem, Stacks) /\ r.mem.dir[current] # NULL
         /\ ImageIn(r.mem, current, image) /\ r.mem.cr3 = current
         /\ Elsewhere(u, r.mem, current)
      \/ /\ ~ r.ok /\ ~ Oom(u) /\ Good(r.mem, Stacks) /\ r.mem.dir[current] = NULL
         /\ Others(u, r.mem, current)
  BY <1>1, <1>3, IcodeLoaded
<1> DEFINE w == r.mem
<1>5. CASE r.ok
  <2>0. /\ Becomes(w) /\ cr3' = [cr3 EXCEPT ![current] = current]
        /\ st' = st /\ parent' = parent /\ kstack' = kstack /\ current' = current
    BY <1>2, <1>5
  <2>1. \/ Oom(w)
        \/ /\ ~ Oom(u) /\ Good(w, Stacks) /\ w.dir[current] # NULL
           /\ ImageIn(w, current, image) /\ w.cr3 = current
           /\ Elsewhere(u, w, current)
    BY <1>4, <1>5
  <2> HIDE DEF w
  <2>2. CASE Oom(w)
    BY <2>0, <2>2, Stopped DEF Oom
  <2>3. CASE /\ ~ Oom(u) /\ Good(w, Stacks) /\ w.dir[current] # NULL
             /\ ImageIn(w, current, image) /\ w.cr3 = current
             /\ Elsewhere(u, w, current)
    <3>1. m' = w /\ m' \in Memories /\ m'.panic = "no"
      BY <2>0, <2>3, Goes
    <3>2. Stacks' = Stacks /\ \A p \in Procs : Run(p)' = Run(p)
      BY <2>0 DEF Stacks, Live, Run
    <3>3. Elsewhere(m, w, current)
      BY <1>3, <2>3 DEF Elsewhere
    <3>4. Good(m', Stacks') /\ m'.cr3 = current /\ m'.dir[current] # NULL
      BY <2>3, <3>1, <3>2
    <3>5. Sound'
      <4>1. \A x \in Mm : x # current => m'.dir[x] = m.dir[x]
        BY <3>1, <3>3 DEF Elsewhere
      <4>2. cr3 \in [Procs -> Procs \cup {NULL}] /\ current # NULL /\ st[current] = "run"
        BY <1>1, Constants DEF Sound
      <4>3. \A p \in Procs : cr3'[p] = IF p = current THEN current ELSE cr3[p]
        BY <1>1, <2>0, <4>2
      <4>4. /\ \A p \in Procs : m'.dir[p] # NULL => st'[p] = "run" /\ cr3'[p] = p
            /\ \A p \in Procs : st'[p] = "run" /\ m'.dir[p] = NULL => cr3'[p] = NULL
            /\ m'.cr3 = IF current' # NULL /\ m'.dir[current'] # NULL THEN current' ELSE NULL
        BY <1>1, <2>0, <3>4, <4>1, <4>2, <4>3 DEF Sound
      <4>5. cr3' \in [Procs -> Procs \cup {NULL}]
        BY <1>1, <2>0, <4>2
      <4> QED
        BY <2>0, <3>2, <3>4, <4>4, <4>5 DEF Sound
    <3>6. Loads(m, m', current)
      BY <2>3, <3>1, <3>3 DEF Loads
    <3> QED
      BY <1>1, <3>1, <3>5, <3>6 DEF Inv, OneAtATime
  <2> QED
    BY <2>1, <2>2, <2>3
<1>6. CASE ~ r.ok
  <2>1. Leave(w)
    BY <1>2, <1>6
  <2>2. \/ Oom(w)
        \/ /\ ~ Oom(u) /\ Good(w, Stacks) /\ w.dir[current] = NULL
           /\ Others(u, w, current)
    BY <1>4, <1>6
  <2> HIDE DEF w
  <2>3. ~ Oom(u) /\ Others(u, w, current) => Elsewhere(m, w, current)
    BY <1>3 DEF Elsewhere, Others
  <2> QED
    BY <1>1, <2>1, <2>2, <2>3, Left
<1> QED
  BY <1>5, <1>6

\* Every step, by its kind.
LEMMA EveryStep ==
  ASSUME Inv, Next
  PROVE  Inv' /\ OneAtATime(m, m')
<1>1. Sound /\ Touch \subseteq VPage
  BY AddressSpaceAssumption DEF Inv, Next
<1>2. CASE \E c \in Procs : Fork(c)
  BY <1>1, <1>2, ForkStep
<1>3. CASE \E image \in Images, v \in Touch \union {NULL} : Exec(image, v)
  BY <1>1, <1>3, ExecStep
<1>4. CASE Exit
  BY <1>1, <1>4, ExitStep
<1>5. CASE \E c \in Procs, v \in Touch \union {NULL} : Wait(c, v)
  BY <1>1, <1>5, WaitStep
<1>6. ASSUME NEW v \in Touch, NEW write \in BOOLEAN, Refuse(v, write)
      PROVE  Inv' /\ OneAtATime(m, m')
  BY <1>1, <1>6, RefuseStep
<1>7. ASSUME NEW v \in Touch, NEW value \in Value, Use(v, TRUE, value)
      PROVE  Inv' /\ OneAtATime(m, m')
  BY <1>1, <1>7, WriteStep
<1>8. ASSUME NEW v \in Touch, Use(v, FALSE, 0)
      PROVE  Inv' /\ OneAtATime(m, m')
  BY <1>1, <1>8, ReadStep
<1>9. CASE \E next \in Procs \union {NULL} : Switch(next)
  BY <1>1, <1>9, SwitchStep
<1> QED
  BY <1>2, <1>3, <1>4, <1>5, <1>6, <1>7, <1>8, <1>9 DEF Next

\* The invariant is one: it holds at the start, and every step keeps it,
\* whatever fails on the way.
THEOREM MemoryInvariance == Spec => []Inv
<1>0. Init => Inv
  BY Initially
<1>1. Inv /\ UNCHANGED vars => Inv'
  <2>1. Sound /\ UNCHANGED vars => Sound'
    BY DEF Sound, vars, Stacks, Live, Run
  <2> QED
    BY <2>1 DEF Inv, vars
<1>2. Inv /\ [Next]_vars => Inv'
  BY <1>1, EveryStep
<1> QED
  BY <1>0, <1>2, PTL DEF Spec

\* What AreasSound says follows from it.
LEMMA SoundAreas == Inv => AreasSound
<1> SUFFICES ASSUME Inv
             PROVE  AreasSound
  OBVIOUS
<1>1. m.panic \in {"no", "out of memory", "user fault"}
  BY MemoryTypes DEF Inv, Reasons
<1>2. ASSUME m.panic = "no"
      PROVE  /\ \A p \in Users :
                  /\ AreasSorted(m.vma[p])
                  /\ m.cache[p] # NULL => m.cache[p] \in ToSet(m.vma[p])
                  /\ st[p] = "run" /\ cr3[p] = p
             /\ \A x \in Mapped : \E a \in ToSet(m.vma[x[1]]) :
                  InArea(a, x[2]) /\ (m.pte[x[1]][x[2]].write <=> "write" \in a.flags)
             /\ m.cr3 # NULL => m.cr3 \in Users
             /\ current # NULL /\ HasMm(current) => m.cr3 = current
  <2>1. Sound /\ Procs = Mm /\ Good(m, Stacks) /\ m \in Memories
    BY <1>2, SoundTypes DEF Inv
  <2>2. \A p \in Mm : ToSet(m.vma[p]) = Elems(m.vma[p])
    <3>1. ASSUME NEW p \in Mm PROVE ToSet(m.vma[p]) = Elems(m.vma[p])
      <4> DEFINE s == m.vma[p]
      <4>1. s \in Seq(AreaType)
        BY <2>1, MemoryTypes
      <4> HIDE DEF s
      <4>2. ToSet(s) = Elems(s)
        BY <4>1 DEF ToSet, Elems
      <4> QED
        BY <4>2 DEF s
    <3> QED
      BY <3>1
  <2>3. ASSUME NEW p \in Users
        PROVE  /\ AreasSorted(m.vma[p])
               /\ m.cache[p] # NULL => m.cache[p] \in ToSet(m.vma[p])
               /\ st[p] = "run" /\ cr3[p] = p
    <3>1. p \in Mm /\ m.dir[p] # NULL
      BY <2>1 DEF Users, HasMm
    <3>2. SpaceSound(m, p)
      BY <2>1, <3>1 DEF Good
    <3> QED
      BY <2>1, <2>2, <3>1, <3>2 DEF Sound, SpaceSound
  <2>4. ASSUME NEW x \in Mapped
        PROVE  \E a \in ToSet(m.vma[x[1]]) :
                 InArea(a, x[2]) /\ (m.pte[x[1]][x[2]].write <=> "write" \in a.flags)
    <3> DEFINE p == x[1]
               v == x[2]
    <3>1. p \in Mm /\ v \in VPage /\ Pte(m, p, v).is = "present"
      BY <2>1 DEF Mapped, Users
    <3> HIDE DEF p, v
    <3>2. PageAt(m, p, v) # NULL /\ m.pte[p][v] = Pte(m, p, v)
      BY <2>1, <3>1, EntryFound
    <3>3. InSome(m.vma[p], v, Pte(m, p, v).write)
      BY <2>1, <3>1, <3>2 DEF Good, SpaceSound
    <3>4. \E a \in ToSet(m.vma[p]) :
             InArea(a, v) /\ (m.pte[p][v].write <=> "write" \in a.flags)
      BY <2>2, <3>1, <3>2, <3>3 DEF InSome, Elems
    <3> QED
      BY <3>4 DEF p, v
  <2>5. /\ m.cr3 # NULL => m.cr3 \in Users
        /\ current # NULL /\ HasMm(current) => m.cr3 = current
    BY <2>1 DEF Sound, Users, HasMm
  <2> QED
    BY <2>3, <2>4, <2>5
<1> QED
  BY <1>1, <1>2 DEF AreasSound

\* The areas of every process are sorted and apart, every page it has lies in
\* one and is writable as the area is, CR3 never holds a page directory that
\* was given back, and no assertion or checked access of the kernel fails.
THEOREM AreasAlwaysSound == Spec => []AreasSound
BY MemoryInvariance, SoundAreas, PTL

----------------------------------------------------------------------------
(* Every frame is accounted for.                                           *)

\* Sets that are mapped one to one have the same size.
LEMMA OneToOne ==
  ASSUME NEW S, NEW T, NEW f \in [S -> T], IsFiniteSet(T),
         \A x, y \in S : f[x] = f[y] => x = y,
         \A t \in T : \E x \in S : f[x] = t
  PROVE  IsFiniteSet(S) /\ Cardinality(S) = Cardinality(T)
<1>1. f \in Injection(S, T)
  BY DEF Injection, IsInjective
<1>2. f \in Surjection(S, T)
  BY DEF Surjection
<1> QED
  BY <1>1, <1>2, FS_Injection

\* The other way round.
LEMMA OneToOneOf ==
  ASSUME NEW S, NEW T, NEW f \in [S -> T], IsFiniteSet(S),
         \A x, y \in S : f[x] = f[y] => x = y,
         \A t \in T : \E x \in S : f[x] = t
  PROVE  IsFiniteSet(T) /\ Cardinality(S) = Cardinality(T)
<1>1. f \in Injection(S, T)
  BY DEF Injection, IsInjective
<1>2. f \in Surjection(S, T)
  BY DEF Surjection
<1> QED
  BY <1>1, <1>2, FS_Surjection

\* The size of two sets that lie apart.
LEMMA ApartSize ==
  ASSUME NEW S, NEW T, IsFiniteSet(S), IsFiniteSet(T), S \cap T = {}
  PROVE  /\ IsFiniteSet(S \cup T)
         /\ Cardinality(S \cup T) = Cardinality(S) + Cardinality(T)
         /\ Cardinality(S) \in Nat /\ Cardinality(T) \in Nat
<1>1. /\ IsFiniteSet(S \cup T)
      /\ Cardinality(S \cup T) = Cardinality(S) + Cardinality(T) - Cardinality(S \cap T)
  BY FS_Union
<1>2. Cardinality(S \cap T) = 0
  BY FS_EmptySet
<1>3. Cardinality(S) \in Nat /\ Cardinality(T) \in Nat
  BY FS_CardinalityType
<1> QED
  BY <1>1, <1>2, <1>3

\* Five sets that lie apart make up F.
Parts(A, B, C, D, E, F) ==
  /\ A \cup B \cup C \cup D \cup E = F
  /\ A \cap B = {} /\ (A \cup B) \cap C = {} /\ (A \cup B \cup C) \cap D = {}
  /\ (A \cup B \cup C \cup D) \cap E = {}

\* They have its size together.
LEMMA FiveApart ==
  ASSUME NEW A, NEW B, NEW C, NEW D, NEW E, NEW F, IsFiniteSet(F), Parts(A, B, C, D, E, F)
  PROVE  /\ IsFiniteSet(A) /\ IsFiniteSet(B) /\ IsFiniteSet(C) /\ IsFiniteSet(D)
         /\ IsFiniteSet(E)
         /\ Cardinality(A) + Cardinality(B) + Cardinality(C) + Cardinality(D)
              + Cardinality(E) = Cardinality(F)
<1>1. IsFiniteSet(A) /\ IsFiniteSet(B) /\ IsFiniteSet(C) /\ IsFiniteSet(D) /\ IsFiniteSet(E)
  <2>1. A \in SUBSET F /\ B \in SUBSET F /\ C \in SUBSET F /\ D \in SUBSET F /\ E \in SUBSET F
    BY DEF Parts
  <2> QED
    BY <2>1, FS_Subset
<1> DEFINE AB == A \cup B
           ABC == AB \cup C
           ABCD == ABC \cup D
<1>2. IsFiniteSet(AB) /\ Cardinality(AB) = Cardinality(A) + Cardinality(B)
      /\ Cardinality(A) \in Nat /\ Cardinality(B) \in Nat
  BY <1>1, ApartSize DEF Parts
<1>3. AB \cap C = {} /\ ABC \cap D = {} /\ ABCD \cap E = {} /\ ABCD \cup E = F
  BY DEF Parts
<1> HIDE DEF AB
<1>4. IsFiniteSet(ABC) /\ Cardinality(ABC) = Cardinality(AB) + Cardinality(C)
      /\ Cardinality(C) \in Nat
  BY <1>1, <1>2, <1>3, ApartSize
<1> HIDE DEF ABC
<1>5. IsFiniteSet(ABCD) /\ Cardinality(ABCD) = Cardinality(ABC) + Cardinality(D)
      /\ Cardinality(D) \in Nat
  BY <1>1, <1>3, <1>4, ApartSize
<1> HIDE DEF ABCD
<1>6. Cardinality(F) = Cardinality(ABCD) + Cardinality(E) /\ Cardinality(E) \in Nat
  BY <1>1, <1>3, <1>5, ApartSize
<1> QED
  BY <1>1, <1>2, <1>4, <1>5, <1>6

\* The page table of x in place d of its directory.
TableAt(u, x, d) == u.pt[x][d]

\* Who owns a frame, by kind.
LEMMA OwnedApart ==
  ASSUME NEW u, NEW R, Good(u, R)
  PROVE  /\ \A x, y \in Mm : u.dir[x] # NULL /\ u.dir[x] = u.dir[y] => x = y
         /\ \A x, y \in Mm, d, e \in Directory :
              TableAt(u, x, d) # NULL /\ TableAt(u, x, d) = TableAt(u, y, e) => x = y /\ d = e
         /\ \A x, y \in Mm, v, w \in VPage :
              PageAt(u, x, v) # NULL /\ PageAt(u, x, v) = PageAt(u, y, w) => x = y /\ v = w
         /\ \A x, y \in Mm, d \in Directory : u.dir[x] # NULL => u.dir[x] # TableAt(u, y, d)
         /\ \A x, y \in Mm, v \in VPage : u.dir[x] # NULL => u.dir[x] # PageAt(u, y, v)
         /\ \A x, y \in Mm, d \in Directory, v \in VPage :
              TableAt(u, x, d) # NULL => TableAt(u, x, d) # PageAt(u, y, v)
<1>1. \A o, q \in Owner : FrameOf(u)[o] # NULL /\ FrameOf(u)[o] = FrameOf(u)[q] => o = q
  BY DEF Good, Accounted
<1>2. \A x \in Mm : /\ <<"dir", x, 0>> \in Owner
                    /\ FrameOf(u)[<<"dir", x, 0>>] = u.dir[x]
  BY Owners
<1>3. \A x \in Mm, d \in Directory : /\ <<"table", x, d>> \in Owner
                                     /\ FrameOf(u)[<<"table", x, d>>] = TableAt(u, x, d)
  <2>1. ASSUME NEW x \in Mm, NEW d \in Directory
        PROVE  FrameOf(u)[<<"table", x, d>>] = TableAt(u, x, d)
    <3>1. FrameOf(u)[<<"table", x, d>>] = u.pt[x][d]
      BY FrameOfKinds
    <3> QED
      BY <3>1 DEF TableAt
  <2> QED
    BY <2>1, Owners
<1>4. \A x \in Mm, v \in VPage : /\ <<"page", x, v>> \in Owner
                                 /\ FrameOf(u)[<<"page", x, v>>] = PageAt(u, x, v)
  BY Owners
<1>5. ASSUME NEW x \in Mm, NEW y \in Mm, u.dir[x] # NULL, u.dir[x] = u.dir[y]
      PROVE  x = y
  <2>1. <<"dir", x, 0>> = <<"dir", y, 0>>
    BY <1>1, <1>2, <1>5
  <2> QED
    BY <2>1
<1>6. ASSUME NEW x \in Mm, NEW y \in Mm, NEW d \in Directory, NEW e \in Directory,
             TableAt(u, x, d) # NULL, TableAt(u, x, d) = TableAt(u, y, e)
      PROVE  x = y /\ d = e
  <2>1. <<"table", x, d>> = <<"table", y, e>>
    BY <1>1, <1>3, <1>6
  <2> QED
    BY <2>1
<1>7. ASSUME NEW x \in Mm, NEW y \in Mm, NEW v \in VPage, NEW w \in VPage,
             PageAt(u, x, v) # NULL, PageAt(u, x, v) = PageAt(u, y, w)
      PROVE  x = y /\ v = w
  <2>1. <<"page", x, v>> = <<"page", y, w>>
    BY <1>1, <1>4, <1>7
  <2> QED
    BY <2>1
<1>8. ASSUME NEW x \in Mm, NEW y \in Mm, NEW d \in Directory, u.dir[x] # NULL
      PROVE  u.dir[x] # TableAt(u, y, d)
  <2>1. <<"dir", x, 0>> # <<"table", y, d>>
    OBVIOUS
  <2> QED
    BY <1>1, <1>2, <1>3, <1>8, <2>1
<1>9. ASSUME NEW x \in Mm, NEW y \in Mm, NEW v \in VPage, u.dir[x] # NULL
      PROVE  u.dir[x] # PageAt(u, y, v)
  <2>1. <<"dir", x, 0>> # <<"page", y, v>>
    OBVIOUS
  <2> QED
    BY <1>1, <1>2, <1>4, <1>9, <2>1
<1>10. ASSUME NEW x \in Mm, NEW y \in Mm, NEW d \in Directory, NEW v \in VPage,
              TableAt(u, x, d) # NULL
       PROVE  TableAt(u, x, d) # PageAt(u, y, v)
  <2>1. <<"table", x, d>> # <<"page", y, v>>
    OBVIOUS
  <2> QED
    BY <1>1, <1>3, <1>4, <1>10, <2>1
<1> QED
  BY <1>5, <1>6, <1>7, <1>8, <1>9, <1>10

\* Every frame that is not free nor in R is owned.
LEMMA OwnedAll ==
  ASSUME NEW u, NEW R, Good(u, R), NEW f \in Frame \ (u.free \cup R)
  PROVE  \/ \E x \in Mm : u.dir[x] = f
         \/ \E x \in Mm, d \in Directory : TableAt(u, x, d) = f
         \/ \E x \in Mm, v \in VPage : PageAt(u, x, v) = f
<1>1. PICK o \in Owner : FrameOf(u)[o] = f
  BY DEF Good, Accounted
<1>2. CASE \E x \in Mm : o = <<"dir", x, 0>>
  <2>1. PICK x \in Mm : o = <<"dir", x, 0>>
    BY <1>2
  <2>2. FrameOf(u)[<<"dir", x, 0>>] = u.dir[x]
    BY FrameOfKinds
  <2> QED
    BY <1>1, <2>1, <2>2
<1>3. CASE \E x \in Mm, d \in Directory : o = <<"table", x, d>>
  <2>1. PICK x \in Mm, d \in Directory : o = <<"table", x, d>>
    BY <1>3
  <2>2. FrameOf(u)[<<"table", x, d>>] = u.pt[x][d]
    BY FrameOfKinds
  <2>3. TableAt(u, x, d) = f
    BY <1>1, <2>1, <2>2 DEF TableAt
  <2> QED
    BY <2>3
<1>4. CASE \E x \in Mm, v \in VPage : o = <<"page", x, v>>
  <2>1. PICK x \in Mm, v \in VPage : o = <<"page", x, v>>
    BY <1>4
  <2>2. FrameOf(u)[<<"page", x, v>>] = PageAt(u, x, v)
    BY FrameOfKinds
  <2> QED
    BY <1>1, <2>1, <2>2
<1> QED
  BY <1>2, <1>3, <1>4, Owners

\* No frame is owned and free, or owned and in R.
LEMMA OwnedNotFree ==
  ASSUME NEW u, NEW R, Good(u, R)
  PROVE  /\ \A x \in Mm : u.dir[x] # NULL => u.dir[x] \in Frame \ (u.free \cup R)
         /\ \A x \in Mm, d \in Directory :
              TableAt(u, x, d) # NULL => TableAt(u, x, d) \in Frame \ (u.free \cup R)
         /\ \A x \in Mm, v \in VPage :
              PageAt(u, x, v) # NULL => PageAt(u, x, v) \in Frame \ (u.free \cup R)
<1>1. \A o \in Owner : FrameOf(u)[o] # NULL => FrameOf(u)[o] \in Frame \ (u.free \cup R)
  BY DEF Good, Accounted
<1>2. \A x \in Mm : /\ <<"dir", x, 0>> \in Owner
                    /\ FrameOf(u)[<<"dir", x, 0>>] = u.dir[x]
  BY Owners
<1>3. \A x \in Mm, d \in Directory : /\ <<"table", x, d>> \in Owner
                                     /\ FrameOf(u)[<<"table", x, d>>] = TableAt(u, x, d)
  <2>1. ASSUME NEW x \in Mm, NEW d \in Directory
        PROVE  FrameOf(u)[<<"table", x, d>>] = TableAt(u, x, d)
    <3>1. FrameOf(u)[<<"table", x, d>>] = u.pt[x][d]
      BY FrameOfKinds
    <3> QED
      BY <3>1 DEF TableAt
  <2> QED
    BY <2>1, Owners
<1>4. \A x \in Mm, v \in VPage : /\ <<"page", x, v>> \in Owner
                                 /\ FrameOf(u)[<<"page", x, v>>] = PageAt(u, x, v)
  BY Owners
<1>5. \A x \in Mm : u.dir[x] # NULL => u.dir[x] \in Frame \ (u.free \cup R)
  BY <1>1, <1>2
<1>6. \A x \in Mm, d \in Directory :
        TableAt(u, x, d) # NULL => TableAt(u, x, d) \in Frame \ (u.free \cup R)
  BY <1>1, <1>3
<1>7. \A x \in Mm, v \in VPage :
        PageAt(u, x, v) # NULL => PageAt(u, x, v) \in Frame \ (u.free \cup R)
  BY <1>1, <1>4
<1> QED
  BY <1>5, <1>6, <1>7

\* The kernel stacks lie apart, each of KSTACKPAGE frames.
LEMMA StackFrames ==
  ASSUME Sound
  PROVE  /\ IsFiniteSet(Live) /\ IsFiniteSet(Stacks) /\ Stacks \subseteq Frame
         /\ Cardinality(Stacks) = KSTACKPAGE * Cardinality(Live)
<1> DEFINE places == 0 .. KSTACKPAGE - 1
           S == Live \X places
           frame == [x \in S |-> kstack[x[1]] + x[2]]
<1>1. KSTACKPAGE \in Nat \ {0} /\ IsFiniteSet(Procs) /\ Frame \subseteq Int
  BY AddressSpaceAssumption, MemoryAssumption DEF Frame
<1>2. IsFiniteSet(Live)
  BY <1>1, FS_Subset DEF Live
<1>3. IsFiniteSet(places) /\ Cardinality(places) = KSTACKPAGE
  <2>1. /\ IsFiniteSet(places)
        /\ Cardinality(places) = IF 0 > KSTACKPAGE - 1 THEN 0 ELSE (KSTACKPAGE - 1) - 0 + 1
    BY <1>1, FS_Interval
  <2> QED
    BY <1>1, <2>1
<1>4. IsFiniteSet(S) /\ Cardinality(S) = Cardinality(Live) * Cardinality(places)
  BY <1>2, <1>3, FS_Product
<1>5. \A p \in Live : kstack[p] \in Int /\ Run(p) \subseteq Frame
  BY <1>1 DEF Sound, Live
<1>6. \A p, q \in Live : p # q => Run(p) \cap Run(q) = {}
  BY DEF Sound, Live
<1>7. Stacks = UNION {Run(p) : p \in Live}
  BY DEF Stacks, Run
<1>8. \A x \in S : /\ x[1] \in Live /\ x[2] \in places /\ x = <<x[1], x[2]>>
                   /\ frame[x] = kstack[x[1]] + x[2]
                   /\ frame[x] \in Run(x[1])
  <2>1. ASSUME NEW x \in S
        PROVE  /\ x[1] \in Live /\ x[2] \in places /\ x = <<x[1], x[2]>>
               /\ frame[x] = kstack[x[1]] + x[2]
               /\ frame[x] \in Run(x[1])
    <3>1. x[1] \in Live /\ x[2] \in places /\ x = <<x[1], x[2]>>
      OBVIOUS
    <3>2. frame[x] = kstack[x[1]] + x[2]
      OBVIOUS
    <3>3. kstack[x[1]] + x[2] \in Run(x[1])
      BY <1>1, <1>5, <3>1 DEF Run
    <3> QED
      BY <3>1, <3>2, <3>3
  <2> QED
    BY <2>1
<1>9. \A t \in Stacks : \E x \in S : frame[x] = t
  <2>1. ASSUME NEW t \in Stacks
        PROVE  \E x \in S : frame[x] = t
    <3>1. PICK p \in Live : t \in Run(p)
      BY <1>7
    <3>2. t - kstack[p] \in places /\ kstack[p] + (t - kstack[p]) = t
      BY <1>1, <1>5, <3>1 DEF Run
    <3> DEFINE x == <<p, t - kstack[p]>>
    <3>3. x \in S /\ x[1] = p /\ x[2] = t - kstack[p]
      BY <3>2
    <3>4. frame[x] = t
      BY <3>2, <3>3
    <3> QED
      BY <3>3, <3>4
  <2> QED
    BY <2>1
<1>10. frame \in [S -> Stacks]
  <2>1. \A x \in S : frame[x] \in Stacks
    BY <1>7, <1>8
  <2> QED
    BY <2>1
<1>11. \A x, y \in S : frame[x] = frame[y] => x = y
  <2>1. ASSUME NEW x \in S, NEW y \in S, frame[x] = frame[y]
        PROVE  x = y
    <3> HIDE DEF S, frame
    <3>1. x[1] = y[1]
      BY <1>6, <1>8, <2>1
    <3>2. x[2] = y[2]
      <4> DEFINE i == x[2]
                 j == y[2]
                 k == kstack[x[1]]
      <4>1. frame[x] = k + i /\ frame[y] = k + j /\ i \in Int /\ j \in Int /\ k \in Int
        BY <1>1, <1>5, <1>8, <3>1
      <4> HIDE DEF i, j, k
      <4>2. k + i = k + j
        BY <2>1, <4>1
      <4>3. i = j
        BY <4>1, <4>2
      <4> QED
        BY <4>3 DEF i, j
    <3> QED
      BY <1>8, <3>1, <3>2
  <2> QED
    BY <2>1
<1> HIDE DEF S, frame, places
<1>12. IsFiniteSet(Stacks) /\ Cardinality(S) = Cardinality(Stacks)
  BY <1>4, <1>9, <1>10, <1>11, OneToOneOf
<1>13. Stacks \subseteq Frame
  BY <1>5, <1>7
<1>14. Cardinality(Live) \in Nat
  BY <1>2, FS_CardinalityType
<1>15. Cardinality(Live) * KSTACKPAGE = KSTACKPAGE * Cardinality(Live)
  BY <1>1, <1>14
<1> QED
  BY <1>2, <1>3, <1>4, <1>12, <1>13, <1>15

\* There are as many page directories as processes with memory, as many page
\* tables as entries of directories, and as many pages as entries of tables.
LEMMA UsedFrames ==
  ASSUME Sound, NEW pages, pages = {PageOf(x) : x \in Mapped}, IsFiniteSet(pages),
         NEW tables, tables = {m.pt[x[1]][x[2]] : x \in Tables}, IsFiniteSet(tables),
         IsFiniteSet(Directories)
  PROVE  /\ Cardinality(Users) = Cardinality(Directories)
         /\ Cardinality(Tables) = Cardinality(tables)
         /\ \A f \in pages : m.ref[f] = Cardinality({x \in Mapped : PageOf(x) = f})
<1>0. Good(m, Stacks) /\ m \in Memories /\ Procs = Mm
  BY SoundTypes
<1>1. Cardinality(Users) = Cardinality(Directories)
  <2> DEFINE g == [p \in Users |-> m.dir[p]]
  <2>1. \A p \in Users : p \in Mm /\ m.dir[p] # NULL
    BY <1>0 DEF Users, HasMm
  <2>2. \A x, y \in Users : g[x] = g[y] => x = y
    BY <1>0, <2>1, OwnedApart
  <2>3. g \in [Users -> Directories] /\ \A t \in Directories : \E x \in Users : g[x] = t
    BY DEF Directories
  <2> HIDE DEF g
  <2> QED
    BY <2>2, <2>3, OneToOne
<1>2. Cardinality(Tables) = Cardinality(tables)
  <2> DEFINE g == [x \in Tables |-> m.pt[x[1]][x[2]]]
  <2>1. \A x \in Tables : /\ x[1] \in Mm /\ x[2] \in Directory /\ x = <<x[1], x[2]>>
                          /\ TableAt(m, x[1], x[2]) # NULL
                          /\ g[x] = TableAt(m, x[1], x[2])
    BY <1>0, Constants DEF Tables, Users, TableAt
  <2>2. g \in [Tables -> tables] /\ \A t \in tables : \E x \in Tables : g[x] = t
    OBVIOUS
  <2> HIDE DEF g
  <2>3. ASSUME NEW x \in Tables, NEW y \in Tables, g[x] = g[y]
        PROVE  x = y
    <3>1. x[1] = y[1] /\ x[2] = y[2]
      BY <1>0, <2>1, <2>3, OwnedApart
    <3> QED
      BY <2>1, <3>1
  <2>4. \A x, y \in Tables : g[x] = g[y] => x = y
    BY <2>3
  <2> QED
    BY <2>2, <2>4, OneToOne
<1>3. \A x \in Mapped : /\ x[1] \in Mm /\ x[2] \in VPage /\ x = <<x[1], x[2]>>
                        /\ PageAt(m, x[1], x[2]) # NULL
                        /\ PageOf(x) = PageAt(m, x[1], x[2])
  <2>1. ASSUME NEW x \in Mapped
        PROVE  /\ x[1] \in Mm /\ x[2] \in VPage /\ x = <<x[1], x[2]>>
               /\ PageAt(m, x[1], x[2]) # NULL
               /\ PageOf(x) = PageAt(m, x[1], x[2])
    <3>1. /\ x[1] \in Mm /\ x[2] \in VPage /\ x = <<x[1], x[2]>>
          /\ Pte(m, x[1], x[2]).is = "present"
      BY <1>0 DEF Mapped, Users
    <3> DEFINE p == x[1]
               v == x[2]
    <3>2. PageOf(x) = m.pte[p][v].page
      BY DEF PageOf
    <3>3. p \in Mm /\ v \in VPage /\ Pte(m, p, v).is = "present"
      BY <3>1
    <3> HIDE DEF p, v
    <3>4. /\ PageAt(m, p, v) # NULL /\ PageAt(m, p, v) = Pte(m, p, v).page
          /\ m.pte[p][v] = Pte(m, p, v)
      BY <1>0, <3>3, EntryFound
    <3>5. PageOf(x) = PageAt(m, p, v) /\ PageAt(m, p, v) # NULL
      BY <3>2, <3>4
    <3> QED
      BY <3>1, <3>5 DEF p, v
  <2> QED
    BY <2>1
<1>4. ASSUME NEW f \in pages
      PROVE  m.ref[f] = Cardinality({x \in Mapped : PageOf(x) = f})
  <2>1. PICK x \in Mapped : PageOf(x) = f
    OBVIOUS
  <2>2. ASSUME NEW y \in Mapped, PageOf(y) = f
        PROVE  y = x
    <3>1. x[1] = y[1] /\ x[2] = y[2]
      BY <1>0, <1>3, <2>1, <2>2, OwnedApart
    <3> QED
      BY <1>3, <3>1
  <2>3. {y \in Mapped : PageOf(y) = f} = {x}
    BY <2>1, <2>2
  <2>4. m.ref[f] = 1
    <3>1. /\ x[1] \in Mm /\ x[2] \in VPage /\ PageAt(m, x[1], x[2]) # NULL
          /\ f = PageAt(m, x[1], x[2])
      BY <1>3, <2>1
    <3>2. Referenced(m, Stacks)
      BY <1>0 DEF Good
    <3> QED
      BY <3>1, <3>2 DEF Referenced
  <2> QED
    BY <2>3, <2>4, FS_Singleton
<1> QED
  BY <1>1, <1>2, <1>4

\* Every frame is free, part of a kernel stack, or owned; nothing is two of it.
LEMMA FramesApart ==
  ASSUME Sound, NEW pages, pages = {PageOf(x) : x \in Mapped},
         NEW tables, tables = {m.pt[x[1]][x[2]] : x \in Tables}
  PROVE  Parts(m.free, Stacks, Directories, pages, tables, Frame)
<1>0. Good(m, Stacks) /\ m \in Memories /\ Procs = Mm
  BY SoundTypes
<1>1. m.free \subseteq Frame /\ Stacks \subseteq Frame /\ m.free \cap Stacks = {}
  BY <1>0 DEF Good, Accounted
<1>2. \A f : f \in Directories <=> \E p \in Mm : m.dir[p] # NULL /\ f = m.dir[p]
  BY <1>0 DEF Directories, Users, HasMm
<1>3. ASSUME NEW f
      PROVE  f \in pages <=>
               \E p \in Mm, v \in VPage : PageAt(m, p, v) # NULL /\ f = PageAt(m, p, v)
  <2>1. ASSUME f \in pages
        PROVE  \E p \in Mm, v \in VPage : PageAt(m, p, v) # NULL /\ f = PageAt(m, p, v)
    <3>1. PICK x \in Mapped : PageOf(x) = f
      BY <2>1
    <3>2. PICK p \in Users, v \in VPage : x = <<p, v>> /\ Pte(m, p, v).is = "present"
      BY DEF Mapped
    <3>3. p \in Mm /\ f = m.pte[p][v].page
      BY <1>0, <3>1, <3>2 DEF PageOf, Users
    <3>4. /\ PageAt(m, p, v) # NULL /\ PageAt(m, p, v) = Pte(m, p, v).page
          /\ m.pte[p][v] = Pte(m, p, v)
      BY <1>0, <3>2, <3>3, EntryFound
    <3> QED
      BY <3>3, <3>4
  <2>2. ASSUME NEW p \in Mm, NEW v \in VPage, PageAt(m, p, v) # NULL, f = PageAt(m, p, v)
        PROVE  f \in pages
    <3>1. /\ Pte(m, p, v).is = "present" /\ f = Pte(m, p, v).page
          /\ m.pte[p][v] = Pte(m, p, v)
      BY <1>0, <2>2, EntryFound
    <3>2. m.dir[p] # NULL
      BY <1>0, <2>2, NoDirectory
    <3> DEFINE x == <<p, v>>
    <3>3. x \in Mapped
      BY <1>0, <3>1, <3>2 DEF Mapped, Users, HasMm
    <3>4. PageOf(x) = m.pte[p][v].page
      BY DEF PageOf
    <3> HIDE DEF x
    <3>5. PageOf(x) = f
      BY <3>1, <3>4
    <3> QED
      BY <3>3, <3>5
  <2> QED
    BY <2>1, <2>2
<1>4. ASSUME NEW f
      PROVE  f \in tables <=>
               \E p \in Mm, d \in Directory : TableAt(m, p, d) # NULL /\ f = TableAt(m, p, d)
  <2>1. ASSUME f \in tables
        PROVE  \E p \in Mm, d \in Directory : TableAt(m, p, d) # NULL /\ f = TableAt(m, p, d)
    <3>1. PICK x \in Tables : f = m.pt[x[1]][x[2]]
      BY <2>1
    <3>2. PICK p \in Users, d \in Directory : x = <<p, d>> /\ m.pt[p][d] # NULL
      BY Constants DEF Tables
    <3> QED
      BY <1>0, <3>1, <3>2 DEF Users, TableAt
  <2>2. ASSUME NEW p \in Mm, NEW d \in Directory, TableAt(m, p, d) # NULL,
               f = TableAt(m, p, d)
        PROVE  f \in tables
    <3>1. m.dir[p] # NULL
      <4>1. ASSUME m.dir[p] = NULL PROVE FALSE
        <5>1. m.pt[p] = NoTables
          BY <1>0, <4>1, NoDirectory
        <5> QED
          BY <2>2, <5>1, Constants DEF TableAt
      <4> QED
        BY <4>1
    <3> DEFINE x == <<p, d>>
    <3>2. x \in Tables /\ x[1] = p /\ x[2] = d
      BY <1>0, <2>2, <3>1, Constants DEF Tables, Users, HasMm, TableAt
    <3> HIDE DEF x
    <3>3. f = m.pt[x[1]][x[2]]
      BY <2>2, <3>2 DEF TableAt
    <3> QED
      BY <3>2, <3>3
  <2> QED
    BY <2>1, <2>2
<1> HIDE DEF Mapped, Tables
<1>5. \A f \in Directories : f \in Frame \ (m.free \cup Stacks)
  BY <1>0, <1>2, OwnedNotFree
<1>6. \A f \in pages : f \in Frame \ (m.free \cup Stacks) /\ f \notin Directories
  <2>1. \A f \in pages : f \in Frame \ (m.free \cup Stacks)
    BY <1>0, <1>3, OwnedNotFree
  <2>2. \A f \in pages : f \notin Directories
    BY <1>0, <1>2, <1>3, OwnedApart
  <2> QED
    BY <2>1, <2>2
<1>7. \A f \in tables :
        f \in Frame \ (m.free \cup Stacks) /\ f \notin Directories /\ f \notin pages
  <2> SUFFICES ASSUME NEW f \in tables
               PROVE  /\ f \in Frame \ (m.free \cup Stacks)
                      /\ f \notin Directories /\ f \notin pages
    OBVIOUS
  <2>1. PICK p \in Mm, d \in Directory : TableAt(m, p, d) # NULL /\ f = TableAt(m, p, d)
    BY <1>4
  <2>2. f \in Frame \ (m.free \cup Stacks)
    BY <1>0, <2>1, OwnedNotFree
  <2>3. f \notin Directories
    BY <1>0, <1>2, <2>1, OwnedApart
  <2>4. f \notin pages
    BY <1>0, <1>3, <2>1, OwnedApart
  <2> QED
    BY <2>2, <2>3, <2>4
<1>8. ASSUME NEW f \in Frame
      PROVE  f \in m.free \cup Stacks \cup Directories \cup pages \cup tables
  <2>1. CASE f \in m.free \cup Stacks
    BY <2>1
  <2>2. CASE f \notin m.free \cup Stacks
    <3>1. f # NULL
      BY Constants
    <3>2. \/ \E x \in Mm : m.dir[x] = f
          \/ \E x \in Mm, d \in Directory : TableAt(m, x, d) = f
          \/ \E x \in Mm, v \in VPage : PageAt(m, x, v) = f
      BY <1>0, <2>2, OwnedAll
    <3> QED
      BY <1>2, <1>3, <1>4, <3>1, <3>2
  <2> QED
    BY <2>1, <2>2
<1> QED
  BY <1>1, <1>5, <1>6, <1>7, <1>8 DEF Parts

\* What FramesAccounted says follows from the invariant.
LEMMA AllFrames == Inv => FramesAccounted
<1> SUFFICES ASSUME Inv, m.panic = "no"
             PROVE  LET mapped == Mapped
                        PageUses(f) == {x \in mapped : PageOf(x) = f}
                        pages == {PageOf(x) : x \in mapped}
                    IN
                    /\ m.free \union Stacks \union Directories \union pages
                         \union {m.pt[x[1]][x[2]] : x \in Tables} = Frame
                    /\ Cardinality(m.free) + KSTACKPAGE * Cardinality(Live)
                         + Cardinality(Users) + Cardinality(Tables)
                         + Cardinality(pages) = npage
                    /\ \A f \in pages : m.ref[f] = Cardinality(PageUses(f))
  BY DEF FramesAccounted
<1> DEFINE pages == {PageOf(x) : x \in Mapped}
           tables == {m.pt[x[1]][x[2]] : x \in Tables}
<1>1. Sound
  BY DEF Inv
<1>2. IsFiniteSet(Frame) /\ Cardinality(Frame) = npage
  <2>1. 1 \in Int /\ npage \in Nat
    BY MemoryAssumption
  <2>2. IsFiniteSet(1 .. npage) /\ Cardinality(1 .. npage) = IF 1 > npage THEN 0 ELSE npage - 1 + 1
    BY <2>1, FS_Interval
  <2> QED
    BY <2>1, <2>2 DEF Frame
<1>3. pages = {PageOf(x) : x \in Mapped} /\ tables = {m.pt[x[1]][x[2]] : x \in Tables}
  OBVIOUS
<1> HIDE DEF pages, tables
<1>4. Parts(m.free, Stacks, Directories, pages, tables, Frame)
  BY <1>1, <1>3, FramesApart
<1> DEFINE free == m.free
<1>5. /\ IsFiniteSet(Directories) /\ IsFiniteSet(pages) /\ IsFiniteSet(tables)
      /\ Cardinality(free) + Cardinality(Stacks) + Cardinality(Directories)
           + Cardinality(pages) + Cardinality(tables) = Cardinality(Frame)
      /\ IsFiniteSet(free) /\ IsFiniteSet(Stacks)
  BY <1>2, <1>4, FiveApart
<1>6. /\ Cardinality(Users) = Cardinality(Directories)
      /\ Cardinality(Tables) = Cardinality(tables)
      /\ \A f \in pages : m.ref[f] = Cardinality({x \in Mapped : PageOf(x) = f})
  BY <1>1, <1>3, <1>5, UsedFrames
<1>7. Cardinality(Stacks) = KSTACKPAGE * Cardinality(Live)
  BY <1>1, StackFrames
<1>8. Cardinality(free) + KSTACKPAGE * Cardinality(Live) + Cardinality(Users)
        + Cardinality(Tables) + Cardinality(pages) = npage
  <2>1. /\ Cardinality(free) \in Nat /\ Cardinality(Stacks) \in Nat
        /\ Cardinality(Directories) \in Nat /\ Cardinality(pages) \in Nat
        /\ Cardinality(tables) \in Nat
    BY <1>5, FS_CardinalityType
  <2> DEFINE a == Cardinality(free)
             s == Cardinality(Stacks)
             b == Cardinality(Directories)
             c == Cardinality(pages)
             d == Cardinality(tables)
  <2>2. a \in Nat /\ s \in Nat /\ b \in Nat /\ c \in Nat /\ d \in Nat
        /\ a + s + b + c + d = npage
    BY <1>2, <1>5, <2>1
  <2> HIDE DEF a, s, b, c, d
  <2>3. a + s + b + d + c = npage
    BY <2>2
  <2> QED
    BY <1>6, <1>7, <2>3 DEF a, s, b, c, d
<1> QED
  <2>1. m.free \union Stacks \union Directories \union pages \union tables = Frame
    BY <1>4 DEF Parts
  <2> QED
    BY <1>3, <1>6, <1>8, <2>1

\* Every frame is free or in use for one thing, and each page has as many
\* references as entries: whatever has failed, no frame is lost, and none is
\* used twice.
THEOREM FramesAlwaysAccounted == Spec => []FramesAccounted
BY MemoryInvariance, AllFrames, PTL

----------------------------------------------------------------------------
(* What programs see.                                                      *)

\* The pages of the areas of p, with their contents.
AreaPages(u, p) == {w \in VPage : \E a \in Elems(u.vma[p]) : InArea(a, w)}
Seen(u, p) == [v \in AreaPages(u, p) |-> Content(u, p, v)]

\* Memory(p), of the memory u.
MemoryOf(u, p) ==
  [v \in {w \in VPage : \E a \in ToSet(u.vma[p]) : InArea(a, w)} |->
     IF Pte(u, p, v).is = "present" THEN u.data[u.pte[p][v].page] ELSE Junk]

\* It is what p sees.
LEMMA SeenIs ==
  ASSUME NEW u, u \in Memories, NEW p \in Mm
  PROVE  MemoryOf(u, p) = Seen(u, p)
<1> DEFINE s == u.vma[p]
<1>1. s \in Seq(AreaType)
  BY MemoryTypes
<1> HIDE DEF s
<1>2. ToSet(s) = Elems(s)
  BY <1>1 DEF ToSet, Elems
<1>3. {w \in VPage : \E a \in ToSet(u.vma[p]) : InArea(a, w)} = AreaPages(u, p)
  BY <1>2 DEF AreaPages, s
<1>4. ASSUME NEW v \in VPage
      PROVE  (IF Pte(u, p, v).is = "present" THEN u.data[u.pte[p][v].page] ELSE Junk)
               = Content(u, p, v)
  <2>1. CASE Pte(u, p, v).is = "present"
    <3>1. PageAt(u, p, v) # NULL /\ u.pte[p][v].page = PageAt(u, p, v)
      BY <2>1, EntryFound
    <3> QED
      BY <2>1, <3>1 DEF Content
  <2>2. CASE Pte(u, p, v).is # "present"
    BY <2>2 DEF Content, PageAt
  <2> QED
    BY <2>1, <2>2
<1>5. AreaPages(u, p) \subseteq VPage
  BY DEF AreaPages
<1> QED
  BY <1>3, <1>4, <1>5 DEF MemoryOf, Seen

\* The same areas with the same contents.
LEMMA SameMemory ==
  ASSUME NEW u, NEW r, NEW p, NEW q, Elems(r.vma[p]) = Elems(u.vma[q]),
         \A v \in VPage : Content(r, p, v) = Content(u, q, v)
  PROVE  Seen(r, p) = Seen(u, q)
<1>1. AreaPages(r, p) = AreaPages(u, q) /\ AreaPages(u, q) \subseteq VPage
  BY DEF AreaPages
<1> QED
  BY <1>1 DEF Seen

\* No areas.
LEMMA EmptyMemory ==
  ASSUME NEW u, NEW p, u.vma[p] = <<>>
  PROVE  Seen(u, p) = [v \in {} |-> 0]
<1>1. Elems(<<>>) = {}
  BY DEF Elems
<1>2. AreaPages(u, p) = {}
  BY <1>1 DEF AreaPages
<1> QED
  BY <1>2 DEF Seen

\* A loaded image is as it describes itself.
LEMMA ImageSeen ==
  ASSUME NEW u, u \in Memories, NEW x \in Mm, NEW image \in Images, ImageIn(u, x, image)
  PROVE  Seen(u, x) = Described(image)
<1> DEFINE G == Wanted(image.segs, Len(image.segs))
           stack == USERTOP - STACKPAGES .. USERTOP - 1
           pages(seg) == seg.va .. seg.va + seg.memsz - 1
           segs == {seg \in ToSet(image.segs) : seg.filesz > 0}
           dom == stack \cup UNION {pages(seg) : seg \in segs}
           chosen(v) == CHOOSE seg \in segs : v \in pages(seg)
           value(v) == IF v < chosen(v).va + chosen(v).filesz THEN FileValue ELSE 0
<1>1. /\ Elems(u.vma[x]) = {SegArea(seg) : seg \in G} \cup {StackArea}
      /\ \A seg \in G, v \in VPage : InArea(SegArea(seg), v) =>
           Content(u, x, v) = IF v < seg.va + seg.filesz THEN FileValue ELSE 0
      /\ \A v \in VPage : InArea(StackArea, v) => Content(u, x, v) = Junk
  BY DEF ImageIn, SegmentsIn
<1>2. G = segs /\ G \in SUBSET Segment
  <2>1. image.segs \in Seq(Segment)
    BY AddressSpaceAssumption
  <2> DEFINE s == image.segs
  <2> HIDE DEF s
  <2>2. ToSet(s) = {s[j] : j \in 1 .. Len(s)} /\ s \in Seq(Segment)
    BY <2>1 DEF ToSet, s
  <2>3. Wanted(s, Len(s)) = {seg \in ToSet(s) : seg.filesz > 0}
    BY <2>2 DEF Wanted
  <2>4. Wanted(s, Len(s)) \in SUBSET Segment
    BY <2>2 DEF Wanted
  <2> QED
    BY <2>3, <2>4 DEF s
<1>3. \A seg \in G : /\ seg.va \in Nat /\ seg.memsz \in Nat /\ seg.filesz \in Nat
                     /\ SegArea(seg).start = seg.va
                     /\ SegArea(seg).end = seg.va + seg.memsz
  BY <1>2 DEF Segment, SegArea, Area
<1>4. StackArea.start = USERTOP - STACKPAGES /\ StackArea.end = USERTOP
  BY DEF StackArea, Area
<1>5. Elems(u.vma[x]) \subseteq AreaType
  <2> DEFINE s == u.vma[x]
  <2>1. s \in Seq(AreaType)
    BY MemoryTypes
  <2> HIDE DEF s
  <2>2. Elems(s) \subseteq AreaType
    BY <2>1 DEF Elems
  <2> QED
    BY <2>2 DEF s
<1>6. USERTOP \in Nat /\ STACKPAGES \in Nat
  BY MemoryAssumption, AddressSpaceAssumption
<1>7. \A a \in AreaType : a.start \in VPage /\ a.end \in 0 .. USERTOP
  BY DEF AreaType
<1> HIDE DEF G
<1>8. \A seg \in G : /\ pages(seg) \subseteq VPage
                     /\ \A v \in VPage : v \in pages(seg) <=> InArea(SegArea(seg), v)
  <2>1. ASSUME NEW seg \in G
        PROVE  /\ pages(seg) \subseteq VPage
               /\ \A v \in VPage : v \in pages(seg) <=> InArea(SegArea(seg), v)
    <3>1. SegArea(seg) \in AreaType
      BY <1>1, <1>5
    <3>2. seg.va \in VPage /\ seg.va + seg.memsz \in 0 .. USERTOP
      BY <1>3, <1>7, <3>1
    <3> QED
      BY <1>3, <1>6, <3>2 DEF VPage, InArea
  <2> QED
    BY <2>1
<1>9. /\ stack \subseteq VPage
      /\ \A v \in VPage : v \in stack <=> InArea(StackArea, v)
  <2>1. StackArea \in AreaType
    BY <1>1, <1>5
  <2>2. USERTOP - STACKPAGES \in VPage
    BY <1>4, <1>7, <2>1
  <2> QED
    BY <1>4, <1>6, <2>2 DEF VPage, InArea
<1>10. AreaPages(u, x) = dom
  <2> HIDE DEF stack, pages, segs
  <2>1. \A v \in VPage : (\E a \in Elems(u.vma[x]) : InArea(a, v)) <=>
                           InArea(StackArea, v) \/ \E seg \in G : InArea(SegArea(seg), v)
    BY <1>1
  <2>2. \A v \in VPage : v \in AreaPages(u, x) <=> v \in dom
    BY <1>2, <1>8, <1>9, <2>1 DEF AreaPages
  <2>3. dom \subseteq VPage
    BY <1>2, <1>8, <1>9
  <2> QED
    BY <2>2, <2>3 DEF AreaPages
<1>11. ASSUME NEW v \in dom
       PROVE  Content(u, x, v) = IF v \in stack THEN Junk ELSE value(v)
  <2>1. v \in VPage
    BY <1>10 DEF AreaPages
  <2>2. CASE v \in stack
    BY <1>1, <1>9, <2>1, <2>2
  <2>3. CASE v \notin stack
    <3> HIDE DEF pages, segs, stack
    <3>1. \E seg \in segs : v \in pages(seg)
      BY <2>3
    <3>2. chosen(v) \in segs /\ v \in pages(chosen(v))
      BY <3>1
    <3> HIDE DEF chosen
    <3>3. InArea(SegArea(chosen(v)), v) /\ chosen(v) \in G
      BY <1>2, <1>8, <2>1, <3>2
    <3>4. Content(u, x, v) = value(v)
      BY <1>1, <2>1, <3>3
    <3> QED
      BY <2>3, <3>4
  <2> QED
    BY <2>2, <2>3
<1>12. Described(image) = [v \in dom |-> IF v \in stack THEN Junk ELSE value(v)]
  BY DEF Described
<1> HIDE DEF dom, stack, value
<1>13. Seen(u, x) = [v \in dom |-> IF v \in stack THEN Junk ELSE value(v)]
  BY <1>10, <1>11 DEF Seen
<1> QED
  BY <1>12, <1>13

\* A store changes one page.
LEMMA StoreSeen ==
  ASSUME NEW u, NEW r, NEW x \in Mm, NEW v \in VPage, NEW value,
         Stores(u, r, x, v, value), Allowed(u, x, v, "write")
  PROVE  /\ v \in DOMAIN Seen(u, x) /\ Seen(r, x) = [Seen(u, x) EXCEPT ![v] = value]
         /\ \A y \in Mm : y # x => Seen(r, y) = Seen(u, y)
<1>1. v \in AreaPages(u, x)
  BY DEF AreaPages, Allowed
<1>2. \A y : AreaPages(r, y) = AreaPages(u, y) /\ AreaPages(u, y) \subseteq VPage
  BY DEF AreaPages, Stores
<1>3. \A y \in Mm, z \in VPage : ~ (y = x /\ z = v) => Content(r, y, z) = Content(u, y, z)
  BY DEF Stores
<1>4. Content(r, x, v) = value
  BY DEF Stores
<1>5. Seen(r, x) = [Seen(u, x) EXCEPT ![v] = value]
  <2> DEFINE D == AreaPages(u, x)
             old(z) == Content(u, x, z)
             new(z) == Content(r, x, z)
  <2>1. \A z \in D : new(z) = IF z = v THEN value ELSE old(z)
    BY <1>2, <1>3, <1>4
  <2>2. Seen(r, x) = [z \in D |-> new(z)] /\ Seen(u, x) = [z \in D |-> old(z)]
    BY <1>2 DEF Seen
  <2> HIDE DEF D, old, new
  <2>3. [z \in D |-> new(z)] = [[z \in D |-> old(z)] EXCEPT ![v] = value]
    BY <2>1
  <2> QED
    BY <2>2, <2>3
<1>6. \A y \in Mm : y # x => Seen(r, y) = Seen(u, y)
  BY <1>2, <1>3 DEF Seen
<1> QED
  BY <1>1, <1>5, <1>6 DEF Seen

\* What ProcMem allows a step to do.
Promise(old, new, p) ==
  /\ \A q \in Procs \ {p} : new[q] = old[q]
  /\ \/ old[p] = [v \in {} |-> 0] /\ \E from \in Procs : new[p] = old[from]
     \/ new[p] \in Descriptions
     \/ new[p] = [v \in {} |-> 0]
     \/ \E v \in DOMAIN old[p], value \in Value \cup {Junk} :
          new[p] = [old[p] EXCEPT ![v] = value]

\* Every step keeps the promise.
LEMMA PromiseKept ==
  ASSUME NEW u, NEW r, u \in Memories, r \in Memories, OneAtATime(u, r),
         NEW old, NEW new,
         old = [p \in Procs |-> Seen(u, p)], new = [p \in Procs |-> Seen(r, p)]
  PROVE  new = old \/ \E p \in Procs : Promise(old, new, p)
<1>0. Procs = Mm
  BY AddressSpaceAssumption
<1>1. \A p \in Mm : old[p] = Seen(u, p) /\ new[p] = Seen(r, p)
  BY <1>0
<1>2. CASE Still(u, r)
  <2>1. \A p \in Mm : Seen(r, p) = Seen(u, p)
    BY <1>2, SameMemory DEF Still
  <2> QED
    BY <1>0, <2>1
<1>3. ASSUME NEW x \in Mm, Elsewhere(u, r, x)
      PROVE  \A q \in Procs \ {x} : new[q] = old[q]
  <2>1. ASSUME NEW q \in Mm, q # x
        PROVE  Seen(r, q) = Seen(u, q)
    <3>1. r.vma[q] = u.vma[q] /\ \A z \in VPage : Content(r, q, z) = Content(u, q, z)
      BY <1>3, <2>1 DEF Elsewhere
    <3> QED
      BY <3>1, SameMemory
  <2> QED
    BY <1>0, <1>1, <2>1
<1>4. ASSUME NEW x \in Mm, Forks(u, r, x)
      PROVE  Promise(old, new, x)
  <2>1. Elsewhere(u, r, x) /\ u.vma[x] = <<>>
    BY <1>4 DEF Forks
  <2>2. PICK from \in Mm \ {x} : Twin(r, x, from)
    BY <1>4 DEF Forks
  <2>3. old[x] = [v \in {} |-> 0]
    BY <1>1, <2>1, EmptyMemory
  <2>4. Seen(r, x) = Seen(r, from)
    BY <2>2, SameMemory DEF Twin
  <2>5. new[x] = old[from] /\ from \in Procs
    BY <1>0, <1>1, <1>3, <2>1, <2>4
  <2>6. \A q \in Procs \ {x} : new[q] = old[q]
    BY <1>3, <2>1
  <2> QED
    BY <2>3, <2>5, <2>6 DEF Promise
<1>5. ASSUME NEW x \in Mm, Loads(u, r, x)
      PROVE  Promise(old, new, x)
  <2>1. PICK image \in Images : ImageIn(r, x, image)
    BY <1>5 DEF Loads
  <2>2. new[x] = Described(image)
    BY <1>1, <2>1, ImageSeen
  <2>3. new[x] \in Descriptions
    BY <2>2 DEF Descriptions
  <2>4. \A q \in Procs \ {x} : new[q] = old[q]
    BY <1>3, <1>5 DEF Loads
  <2> QED
    BY <2>3, <2>4 DEF Promise
<1>6. ASSUME NEW x \in Mm, Exits(u, r, x)
      PROVE  Promise(old, new, x)
  <2>1. r.vma[x] = <<>> /\ Elsewhere(u, r, x)
    BY <1>6 DEF Exits
  <2>2. new[x] = [v \in {} |-> 0]
    BY <1>1, <2>1, EmptyMemory
  <2>3. \A q \in Procs \ {x} : new[q] = old[q]
    BY <1>3, <2>1
  <2> QED
    BY <2>2, <2>3 DEF Promise
<1>7. ASSUME NEW x \in Mm, Writes(u, r, x)
      PROVE  Promise(old, new, x)
  <2>1. PICK v \in VPage, value \in Value :
          Stores(u, r, x, v, value) /\ Allowed(u, x, v, "write")
    BY <1>7 DEF Writes
  <2>2. /\ v \in DOMAIN Seen(u, x) /\ Seen(r, x) = [Seen(u, x) EXCEPT ![v] = value]
        /\ \A y \in Mm : y # x => Seen(r, y) = Seen(u, y)
    BY <2>1, StoreSeen
  <2>3. v \in DOMAIN old[x] /\ new[x] = [old[x] EXCEPT ![v] = value]
    BY <1>1, <2>2
  <2>4. \A q \in Procs \ {x} : new[q] = old[q]
    BY <1>0, <1>1, <2>2
  <2> QED
    BY <2>3, <2>4 DEF Promise
<1> QED
  BY <1>0, <1>2, <1>4, <1>5, <1>6, <1>7 DEF OneAtATime

\* In the beginning nobody has any memory.
LEMMA NothingYet == Init => [p \in Procs |-> Memory(p)] = [p \in Procs |-> [v \in {} |-> 0]]
<1> SUFFICES ASSUME Init
             PROVE  [p \in Procs |-> Memory(p)] = [p \in Procs |-> [v \in {} |-> 0]]
  OBVIOUS
<1>1. Sound /\ Good(m, Stacks) /\ m \in Memories /\ Procs = Mm
  BY Initially, SoundTypes DEF Inv
<1>2. ASSUME NEW p \in Procs
      PROVE  Memory(p) = [v \in {} |-> 0]
  <2>1. m.vma[p] = <<>>
    BY <1>1, Initially, NoDirectory
  <2>2. Seen(m, p) = [v \in {} |-> 0]
    BY <2>1, EmptyMemory
  <2>3. Memory(p) = MemoryOf(m, p)
    BY DEF Memory, MemoryOf
  <2> QED
    BY <1>1, <1>2, <2>2, <2>3, SeenIs
<1> QED
  BY <1>2

\* What processes do to frames, page tables and areas gives each of them pages
\* of its own: a step changes the contents of one process's pages at most, and
\* only as a fork, a load, an exit or a write should.
THEOREM Refinement == Spec => ImplementsMemory
<1> DEFINE seen == [p \in Procs |-> Memory(p)]
<1>1. Init => Promised!Init
  BY NothingYet DEF Promised!Init, Promised!Nothing
<1>2. Inv /\ Inv' /\ [Next]_vars => [Promised!Next]_seen
  <2> SUFFICES ASSUME Inv, Inv', [Next]_vars
               PROVE  Promised!Next \/ seen' = seen
    OBVIOUS
  <2>1. CASE UNCHANGED vars
    BY <2>1 DEF vars, Memory
  <2>2. CASE Next
    <3> DEFINE old == [p \in Procs |-> Seen(m, p)]
               new == [p \in Procs |-> Seen(m', p)]
    <3>1. OneAtATime(m, m') /\ m \in Memories /\ m' \in Memories /\ Procs = Mm
      BY <2>2, EveryStep, AddressSpaceAssumption DEF Inv
    <3>2. seen = old
      <4>1. ASSUME NEW p \in Procs PROVE Memory(p) = Seen(m, p)
        BY <3>1, <4>1, SeenIs DEF Memory, MemoryOf
      <4> QED
        BY <4>1
    <3>3. seen' = new
      <4>1. ASSUME NEW p \in Procs PROVE Memory(p)' = Seen(m', p)
        BY <3>1, <4>1, SeenIs DEF Memory, MemoryOf
      <4> QED
        BY <4>1
    <3>4. new = old \/ \E p \in Procs : Promise(old, new, p)
      BY <3>1, PromiseKept
    <3> HIDE DEF old, new
    <3>5. ASSUME NEW p \in Procs, Promise(old, new, p)
          PROVE  Promised!Next
      BY <3>2, <3>3, <3>5 DEF Promise, Promised!Next, Promised!Step, Promised!Forked,
         Promised!Loaded, Promised!Exited, Promised!Written, Promised!Nothing
    <3> QED
      BY <3>2, <3>3, <3>4, <3>5
  <2> QED
    BY <2>1, <2>2
<1> QED
  BY <1>1, <1>2, MemoryInvariance, PTL DEF Spec, ImplementsMemory, Promised!Spec

=============================================================================
