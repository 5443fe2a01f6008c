--------------------------- MODULE FirstFit_proofs ---------------------------
(***************************************************************************)
(* Proofs about FirstFit, for any memory map and any sizes of requests.    *)
(*                                                                         *)
(* FreeListIsSound is nearly inductive as it stands.  What the steps need  *)
(* is its middle: the list is sorted, and a page of it carries the length  *)
(* of the longest run that starts with it, or 0 if it does not start one.  *)
(* That no request is refused that could be served follows from it.        *)
(***************************************************************************)
EXTENDS FirstFit, SequenceFacts, TLAPS

Sorted(s) == \A i, j \in 1 .. Len(s) : i < j => s[i] < s[j]

\* The sizes tell the longest runs of pages of F.
Sized(sizes, F) ==
  \A p \in F : IF p - 1 \in F THEN sizes[p] = 0
               ELSE /\ sizes[p] > 0
                    /\ Run(p, sizes[p]) \subseteq F
                    /\ p + sizes[p] \notin F

IsFree == Elems(free_list)

IInv == /\ TypeOK
        /\ EveryPageOnce
        /\ NrFreeCounts
        /\ Sorted(free_list)
        /\ Sized(property, IsFree)
        /\ \A b \in held : \A p \in Run(b[1] + 1, b[2] - 1) : property[p] = 0
        /\ HeldIsReserved

----------------------------------------------------------------------------
(* Sorted lists of pages.                                                  *)

\* A run of pages that are all in the list stands there page by page.
LEMMA RunInList ==
  ASSUME NEW s \in Seq(Nat), Sorted(s), NEW i \in 1 .. Len(s), NEW n \in Nat,
         Run(s[i], n) \subseteq Elems(s), NEW k \in 0 .. n - 1
  PROVE  i + k \in 1 .. Len(s) /\ s[i + k] = s[i] + k
<1> DEFINE Bad == {j \in Nat : j < n /\ ~ (i + j \in 1 .. Len(s) /\ s[i + j] = s[i] + j)}
<1>1. Bad \in SUBSET Nat
  OBVIOUS
<1>2. \A j \in Nat : j < n => (j \in Bad <=> ~ (i + j \in 1 .. Len(s) /\ s[i + j] = s[i] + j))
  OBVIOUS
<1>3. \A j \in Bad : j \in Nat /\ j < n
  OBVIOUS
<1> HIDE DEF Bad
<1>4. Len(s) \in Nat /\ \A l \in 1 .. Len(s) : s[l] \in Nat
  OBVIOUS
<1>5. Bad = {}
  <2> SUFFICES ASSUME Bad # {}
               PROVE  FALSE
    OBVIOUS
  <2>1. PICK j \in Bad : \A l \in Bad : j <= l
    BY <1>1, LeastOf
  <2>2. j \in Nat /\ j < n /\ ~ (i + j \in 1 .. Len(s) /\ s[i + j] = s[i] + j)
    BY <1>2, <1>3
  <2>3. j # 0
    BY <1>4, <2>2
  <2> DEFINE a == i + (j - 1)
  <2>4. a \in 1 .. Len(s) /\ s[a] = s[i] + (j - 1) /\ i + j = a + 1
    <3>1. j - 1 \in Nat /\ j - 1 < n /\ j - 1 \notin Bad
      BY <2>1, <2>2, <2>3
    <3> QED
      BY <1>2, <2>2, <3>1
  <2>5. PICK l \in 1 .. Len(s) : s[l] = s[i] + j
    <3>1. s[i] + j \in Run(s[i], n)
      BY <1>4, <2>2 DEF Run
    <3>2. s[i] + j \in Elems(s)
      BY <3>1
    <3> QED
      BY <3>2 DEF Elems
  <2> HIDE DEF a
  <2>6. s[l] = s[a] + 1 /\ s[a] \in Nat
    <3>1. s[i] \in Nat
      BY <1>4
    <3>2. s[i] + (j - 1) \in Nat /\ s[i] + j = s[i] + (j - 1) + 1
      BY <2>2, <2>3, <3>1
    <3> QED
      BY <2>4, <2>5, <3>2
  <2>7. l > a
    <3> SUFFICES ASSUME l <= a PROVE FALSE
      BY <1>4, <2>4, <2>5
    <3>1. l = a \/ l < a
      BY <1>4, <2>4, <2>5
    <3>2. l < a => s[l] < s[a]
      BY <2>4, <2>5 DEF Sorted
    <3> QED
      BY <2>6, <3>1, <3>2
  <2>8. l = a + 1
    <3> SUFFICES ASSUME l > a + 1 PROVE FALSE
      BY <1>4, <2>4, <2>5, <2>7
    <3>1. a + 1 \in 1 .. Len(s) /\ a < a + 1
      BY <1>4, <2>4, <2>5
    <3>2. s[a] < s[a + 1] /\ s[a + 1] < s[l] /\ s[a + 1] \in Nat
      BY <1>4, <2>4, <2>5, <3>1 DEF Sorted
    <3> QED
      BY <2>6, <3>2
  <2> QED
    BY <2>2, <2>4, <2>5, <2>8
<1> QED
  BY <1>2, <1>5

\* A sorted list of numbers from 0 is no longer than the numbers allow.
LEMMA SortedIsShort ==
  ASSUME NEW s \in Seq(Nat), Sorted(s), NEW N \in Nat, \A i \in 1 .. Len(s) : s[i] < N
  PROVE  Len(s) <= N
<1> DEFINE Bad == {i \in Nat : i \in 1 .. Len(s) /\ s[i] < i - 1}
<1>0. Bad \in SUBSET Nat /\ \A i \in 1 .. Len(s) : i \in Bad <=> s[i] < i - 1
  OBVIOUS
<1>9. \A i \in Bad : i \in 1 .. Len(s)
  OBVIOUS
<1> HIDE DEF Bad
<1>1. Bad = {}
  <2> SUFFICES ASSUME Bad # {}
               PROVE  FALSE
    OBVIOUS
  <2>1. PICK i \in Bad : \A l \in Bad : i <= l
    BY <1>0, LeastOf
  <2>2. i \in 1 .. Len(s) /\ s[i] < i - 1 /\ s[i] \in Nat /\ Len(s) \in Nat
    BY <1>0, <1>9
  <2> DEFINE a == i - 1
  <2>3. a \in 1 .. Len(s) /\ s[a] \in Nat /\ a < i
    BY <2>2
  <2>4. a \notin Bad
    BY <2>1, <2>2
  <2>5. s[a] >= a - 1
    BY <1>0, <2>3, <2>4
  <2>6. s[a] < s[i]
    <3> HIDE DEF a
    <3> QED
      BY <2>2, <2>3 DEF Sorted
  <2> QED
    BY <2>2, <2>3, <2>5, <2>6
<1>2. Len(s) \in Nat
  OBVIOUS
<1>3. CASE Len(s) = 0
  BY <1>3
<1>4. CASE Len(s) # 0
  <2>1. Len(s) \in 1 .. Len(s) /\ s[Len(s)] \in Nat
    BY <1>2, <1>4
  <2>2. Len(s) \notin Bad
    BY <1>1
  <2>3. ~ (s[Len(s)] < Len(s) - 1)
    BY <1>0, <2>1, <2>2
  <2> QED
    BY <1>2, <2>1, <2>3
<1> QED
  BY <1>3, <1>4

\* One list behind another, all of whose entries are smaller.
LEMMA SortedConcat ==
  ASSUME NEW s \in Seq(Nat), NEW t \in Seq(Nat), Sorted(s), Sorted(t),
         \A x \in Elems(s), y \in Elems(t) : x < y
  PROVE  s \o t \in Seq(Nat) /\ Sorted(s \o t) /\ Elems(s \o t) = Elems(s) \cup Elems(t)
         /\ Len(s \o t) = Len(s) + Len(t)
<1> DEFINE c == s \o t
<1>1. /\ Len(s) \in Nat /\ Len(t) \in Nat /\ Len(c) = Len(s) + Len(t)
      /\ \A i \in 1 .. Len(c) : c[i] = IF i <= Len(s) THEN s[i] ELSE t[i - Len(s)]
  OBVIOUS
<1>2. c \in Seq(Nat) /\ Elems(c) = Elems(s) \cup Elems(t)
  BY ElemsConcat
<1> HIDE DEF c
<1>3. ASSUME NEW i \in 1 .. Len(c), NEW j \in 1 .. Len(c), i < j
      PROVE  c[i] < c[j]
  <2>1. CASE j <= Len(s)
    <3>1. i \in 1 .. Len(s) /\ j \in 1 .. Len(s)
      BY <1>1, <1>3, <2>1
    <3>2. s[i] < s[j]
      BY <1>3, <3>1 DEF Sorted
    <3>3. c[i] = s[i] /\ c[j] = s[j]
      BY <1>1, <3>1
    <3> QED
      BY <3>2, <3>3
  <2>2. CASE i > Len(s)
    <3>1. i - Len(s) \in 1 .. Len(t) /\ j - Len(s) \in 1 .. Len(t)
      BY <1>1, <1>3, <2>2
    <3>2. t[i - Len(s)] < t[j - Len(s)]
      <4>1. i - Len(s) < j - Len(s)
        BY <1>1, <1>3
      <4> QED
        BY <3>1, <4>1 DEF Sorted
    <3> QED
      BY <1>1, <1>3, <2>2, <3>2
  <2>3. CASE i <= Len(s) /\ j > Len(s)
    <3>1. i \in 1 .. Len(s) /\ j - Len(s) \in 1 .. Len(t)
      BY <1>1, <2>3
    <3>2. s[i] \in Elems(s) /\ t[j - Len(s)] \in Elems(t)
      BY <3>1 DEF Elems
    <3>3. s[i] < t[j - Len(s)]
      BY <3>2
    <3> QED
      BY <1>1, <2>3, <3>3
  <2> QED
    BY <1>1, <2>1, <2>2, <2>3
<1> QED
  BY <1>1, <1>2, <1>3 DEF Sorted, c

\* Part of a list.
LEMMA SortedPart ==
  ASSUME NEW s \in Seq(Nat), Sorted(s), NEW a \in Nat \ {0}, NEW b \in Nat, b <= Len(s)
  PROVE  /\ SubSeq(s, a, b) \in Seq(Nat) /\ Sorted(SubSeq(s, a, b))
         /\ Elems(SubSeq(s, a, b)) = {s[i] : i \in a .. b}
         /\ Len(SubSeq(s, a, b)) = IF a <= b THEN b - a + 1 ELSE 0
<1> DEFINE c == SubSeq(s, a, b)
<1>1. /\ Len(s) \in Nat
      /\ Len(c) = IF a <= b THEN b - a + 1 ELSE 0
      /\ \A i \in 1 .. Len(c) : c[i] = s[a + i - 1]
      /\ \A i \in 1 .. Len(s) : s[i] \in Nat
  OBVIOUS
<1>2. c \in Seq(Nat)
  OBVIOUS
<1> HIDE DEF c
<1>3. \A i \in 1 .. Len(c) : a + i - 1 \in a .. b /\ a + i - 1 \in 1 .. Len(s)
  BY <1>1
<1>4. Sorted(c)
  <2> SUFFICES ASSUME NEW i \in 1 .. Len(c), NEW j \in 1 .. Len(c), i < j
               PROVE  c[i] < c[j]
    BY DEF Sorted
  <2>1. s[a + i - 1] < s[a + j - 1]
    <3>1. a + i - 1 < a + j - 1
      BY <1>1
    <3> QED
      BY <1>3, <3>1 DEF Sorted
  <2> QED
    BY <1>1, <2>1
<1>5. Elems(c) = {s[i] : i \in a .. b}
  <2>1. ASSUME NEW i \in a .. b
        PROVE  \E j \in 1 .. Len(c) : c[j] = s[i]
    <3>1. i - a + 1 \in 1 .. Len(c)
      BY <1>1
    <3>2. c[i - a + 1] = s[i]
      <4>1. a + (i - a + 1) - 1 = i
        OBVIOUS
      <4> QED
        BY <1>1, <3>1, <4>1
    <3> QED
      BY <3>1, <3>2
  <2>2. ASSUME NEW j \in 1 .. Len(c)
        PROVE  \E i \in a .. b : c[j] = s[i]
    <3>1. c[j] = s[a + j - 1] /\ a + j - 1 \in a .. b
      BY <1>1, <1>3
    <3> QED
      BY <3>1
  <2>3. \A x \in Elems(c) : x \in {s[i] : i \in a .. b}
    BY <2>2 DEF Elems
  <2>4. \A x \in {s[i] : i \in a .. b} : x \in Elems(c)
    BY <2>1 DEF Elems
  <2> QED
    BY <2>3, <2>4
<1> QED
  BY <1>1, <1>2, <1>4, <1>5 DEF c

\* The pages of a block, one after the other.
LEMMA PagesSorted ==
  ASSUME NEW base \in Nat, NEW n \in Nat
  PROVE  /\ Pages(base, n) \in Seq(Nat) /\ Sorted(Pages(base, n))
         /\ Elems(Pages(base, n)) = Run(base, n) /\ Len(Pages(base, n)) = n
<1> DEFINE c == Pages(base, n)
<1>1. /\ c \in Seq(Nat) /\ Len(c) = n /\ \A i \in 1 .. n : c[i] = base + i - 1
  BY DEF Pages
<1> HIDE DEF c
<1>2. Sorted(c)
  BY <1>1 DEF Sorted
<1>3. Elems(c) = Run(base, n)
  <2>1. ASSUME NEW x \in Run(base, n)
        PROVE  x - base + 1 \in 1 .. n /\ c[x - base + 1] = x
    BY <1>1 DEF Run
  <2>2. \A i \in 1 .. n : c[i] \in Run(base, n)
    BY <1>1 DEF Run
  <2> QED
    BY <1>1, <2>1, <2>2 DEF Elems
<1> QED
  BY <1>1, <1>2, <1>3 DEF c

----------------------------------------------------------------------------
(* The least and the greatest, as FiniteSetsExt has them.                  *)

\* The least of some numbers is one of them.
LEMMA MinIs ==
  ASSUME NEW S \in SUBSET Nat, S # {}
  PROVE  Min(S) \in S /\ \A x \in S : Min(S) <= x
<1>1. \E m \in S : \A x \in S : m <= x
  BY LeastOf
<1> QED
  BY <1>1 DEF Min

\* So is the largest, when they are bounded.
LEMMA MaxIs ==
  ASSUME NEW N \in Nat, NEW S \in SUBSET (0 .. N), S # {}
  PROVE  Max(S) \in S /\ \A x \in S : Max(S) >= x
<1> DEFINE T == {N - x : x \in S}
<1>1. T \in SUBSET Nat /\ T # {}
  <2>1. \A x \in S : x \in Nat /\ N - x \in Nat
    OBVIOUS
  <2> QED
    BY <2>1
<1>2. PICK m \in T : \A y \in T : m <= y
  <2> HIDE DEF T
  <2> QED
    BY <1>1, LeastOf
<1>3. PICK x \in S : m = N - x
  BY <1>2
<1>4. \A y \in S : y <= x
  <2> SUFFICES ASSUME NEW y \in S PROVE y <= x
    OBVIOUS
  <2>1. N - y \in T
    OBVIOUS
  <2>2. m <= N - y
    BY <1>2, <2>1
  <2> QED
    BY <1>3, <2>2
<1>5. \E z \in S : \A y \in S : z >= y
  BY <1>4
<1> QED
  BY <1>5 DEF Max

----------------------------------------------------------------------------
(* Sizes and runs.                                                         *)

\* A page is in a run that starts somewhere.
LEMMA RunStart ==
  ASSUME NEW F \in SUBSET Nat, NEW q \in F
  PROVE  \E p \in F : p <= q /\ p - 1 \notin F /\ p .. q \subseteq F
<1> DEFINE T == {p \in Nat : p <= q /\ p .. q \subseteq F}
<1>1. T \in SUBSET Nat /\ q \in T
  OBVIOUS
<1>2. PICK p \in T : \A x \in T : p <= x
  <2> HIDE DEF T
  <2> QED
    BY <1>1, LeastOf
<1>3. p \in F /\ p <= q /\ p .. q \subseteq F /\ p \in Nat
  BY <1>2
<1>4. p - 1 \notin F
  <2> SUFFICES ASSUME p - 1 \in F PROVE FALSE
    OBVIOUS
  <2>1. p - 1 \in Nat /\ p - 1 <= q
    BY <1>3
  <2>2. \A x \in (p - 1) .. q : x = p - 1 \/ x \in p .. q
    BY <1>3, <2>1
  <2>3. p - 1 \in T
    BY <1>3, <2>1, <2>2
  <2>4. p <= p - 1
    BY <1>2, <2>3
  <2> QED
    BY <1>3, <2>4
<1> QED
  BY <1>3, <1>4

\* Between two runs there is a page that is not free.
LEMMA RunsApart ==
  ASSUME NEW F \in SUBSET Nat, NEW f, \A x \in F : f[x] \in Nat, Sized(f, F),
         NEW p \in F, NEW q \in F, p - 1 \notin F, q - 1 \notin F, p < q
  PROVE  p + f[p] < q
<1>1. p \in Nat /\ q \in Nat /\ f[p] \in Nat /\ Run(p, f[p]) \subseteq F
  BY DEF Sized
<1> SUFFICES ASSUME p + f[p] >= q PROVE FALSE
  BY <1>1
<1>2. q - 1 \in Run(p, f[p])
  BY <1>1 DEF Run
<1> QED
  BY <1>1, <1>2

\* Taking the first pages of a run leaves a shorter one or none.
LEMMA SizedAfterTake ==
  ASSUME NEW F \in SUBSET Nat, NEW f, \A x \in F : f[x] \in Nat, Sized(f, F),
         NEW p \in F, p - 1 \notin F, NEW n \in Nat, 0 < n, n <= f[p],
         NEW g,
         \A q \in F : q # p + n => g[q] = f[q],
         p + n \in F => g[p + n] = f[p] - n
  PROVE  Sized(g, F \ Run(p, n))
<1> DEFINE G == F \ Run(p, n)
<1>1. /\ p \in Nat /\ f[p] \in Nat /\ Run(p, f[p]) \subseteq F /\ p + f[p] \notin F
  BY DEF Sized
<1>2. ASSUME NEW q \in F, q \notin Run(p, n), q # p + n
      PROVE  /\ q - 1 \in G <=> q - 1 \in F
             /\ g[q] = f[q]
             /\ q - 1 \notin F => /\ f[q] > 0 /\ Run(q, f[q]) \subseteq G
                                  /\ q + f[q] \notin G
  <2>1. q \in Nat /\ f[q] \in Nat
    OBVIOUS
  <2>2. q - 1 \notin Run(p, n)
    BY <1>1, <1>2, <2>1 DEF Run
  <2>3. ASSUME q - 1 \notin F
        PROVE  /\ f[q] > 0 /\ Run(q, f[q]) \subseteq F /\ q + f[q] \notin F
    BY <1>2, <2>3 DEF Sized
  <2>4. ASSUME q - 1 \notin F
        PROVE  Run(q, f[q]) \cap Run(p, n) = {}
    <3>1. CASE q < p
      <4>1. q + f[q] < p
        BY <2>4, <3>1, RunsApart
      <4> QED
        BY <1>1, <2>1, <4>1 DEF Run
    <3>2. CASE q > p
      <4>1. q > p + n
        BY <1>1, <1>2, <2>1, <3>2 DEF Run
      <4> QED
        BY <1>1, <2>1, <4>1 DEF Run
    <3>3. q # p
      BY <1>1, <1>2 DEF Run
    <3> QED
      BY <1>1, <2>1, <3>1, <3>2, <3>3
  <2> QED
    BY <1>2, <2>2, <2>3, <2>4
<1>3. ASSUME p + n \in F
      PROVE  /\ p + n - 1 \notin G
             /\ g[p + n] > 0 /\ Run(p + n, g[p + n]) \subseteq G
             /\ p + n + g[p + n] \notin G
  <2>1. n < f[p]
    <3>1. n # f[p]
      BY <1>1, <1>3
    <3> QED
      BY <1>1, <3>1
  <2>2. g[p + n] = f[p] - n
    BY <1>3
  <2>3. p + n - 1 \in Run(p, n)
    BY <1>1 DEF Run
  <2>4. Run(p + n, f[p] - n) \subseteq Run(p, f[p])
    BY <1>1, <2>1 DEF Run
  <2>5. Run(p + n, f[p] - n) \cap Run(p, n) = {}
    BY <1>1, <2>1 DEF Run
  <2>6. p + n + (f[p] - n) = p + f[p]
    BY <1>1
  <2> QED
    BY <1>1, <2>1, <2>2, <2>3, <2>4, <2>5, <2>6
<1>4. ASSUME NEW q \in G
      PROVE  IF q - 1 \in G THEN g[q] = 0
             ELSE g[q] > 0 /\ Run(q, g[q]) \subseteq G /\ q + g[q] \notin G
  <2>1. CASE q = p + n
    BY <1>3, <2>1
  <2>2. CASE q # p + n
    <3>1. q \in F /\ q \notin Run(p, n)
      OBVIOUS
    <3>2. q - 1 \in F => f[q] = 0
      BY <3>1 DEF Sized
    <3> HIDE DEF G
    <3> QED
      BY <1>2, <2>2, <3>1, <3>2
  <2> QED
    BY <2>1, <2>2
<1> QED
  BY <1>4 DEF Sized

\* A block of n pages from b comes back: f and g are the sizes before and
\* after, m the size of the block with the run behind it, and h the start of
\* the run before it.
Joins(f, F, b, n, m, h, g) ==
  /\ \A x \in F : f[x] \in Nat
  /\ Sized(f, F)
  /\ Run(b, n) \cap F = {}
  /\ m = n + (IF b + n \in F THEN f[b + n] ELSE 0)
  /\ b - 1 \in F => h \in F /\ h - 1 \notin F /\ h + f[h] = b
  /\ \A k \in Run(b + 1, n - 1) : g[k] = 0
  /\ g[b] = IF b - 1 \in F THEN 0 ELSE m
  /\ b - 1 \in F => g[h] = f[h] + m
  /\ b + n \in F => g[b + n] = 0
  /\ \A q \in F : q # b + n /\ (b - 1 \in F => q # h) => g[q] = f[q]

\* Then the sizes tell the longest runs again.
LEMMA SizedAfterJoin ==
  ASSUME NEW F \in SUBSET Nat, NEW b \in Nat, NEW n \in Nat, 0 < n, NEW f, NEW m, NEW h,
         NEW g, Joins(f, F, b, n, m, h, g)
  PROVE  Sized(g, F \cup Run(b, n)) /\ m \in Nat /\ Run(b, m) \subseteq F \cup Run(b, n)
<1> USE DEF Joins
<1> DEFINE G == F \cup Run(b, n)
<1>1. /\ m \in Nat /\ m >= n /\ Run(b, m) \subseteq G /\ b + m \notin G
  <2>1. b + n \notin Run(b, n)
    BY DEF Run
  <2>2. CASE b + n \in F
    <3>1. b + n - 1 \in Run(b, n)
      BY DEF Run
    <3>2. b + n - 1 \notin F
      BY <3>1
    <3>3. /\ f[b + n] > 0 /\ Run(b + n, f[b + n]) \subseteq F /\ b + n + f[b + n] \notin F
          /\ f[b + n] \in Nat
      BY <2>2, <3>2 DEF Sized
    <3>4. m = n + f[b + n]
      BY <2>2
    <3>5. Run(b, m) = Run(b, n) \cup Run(b + n, f[b + n])
      BY <3>3, <3>4 DEF Run
    <3>6. b + m \notin Run(b, n) /\ b + m = b + n + f[b + n]
      BY <3>3, <3>4 DEF Run
    <3> QED
      BY <3>3, <3>4, <3>5, <3>6
  <2>3. CASE b + n \notin F
    <3>1. m = n
      BY <2>3
    <3> QED
      BY <2>1, <2>3, <3>1
  <2> QED
    BY <2>2, <2>3
<1>2. ASSUME b - 1 \in F
      PROVE  h \in F /\ h \in Nat /\ f[h] \in Nat /\ h < b /\ f[h] > 0 /\ h - 1 \notin G
             /\ Run(h, f[h]) \subseteq F
  <2>1. h \in F /\ h \in Nat /\ f[h] \in Nat /\ h - 1 \notin F /\ h + f[h] = b
    BY <1>2
  <2>2. f[h] > 0 /\ Run(h, f[h]) \subseteq F
    BY <2>1 DEF Sized
  <2>3. h < b
    BY <2>1, <2>2
  <2>4. h - 1 \notin Run(b, n)
    BY <2>1, <2>3 DEF Run
  <2> QED
    BY <2>1, <2>2, <2>3, <2>4
<1> DEFINE Right(p) == IF p - 1 \in G THEN g[p] = 0
                       ELSE g[p] > 0 /\ Run(p, g[p]) \subseteq G /\ p + g[p] \notin G
<1>3. Right(b)
  <2>1. b - 1 \notin Run(b, n)
    BY DEF Run
  <2>2. m > 0
    BY <1>1
  <2> QED
    BY <1>1, <2>1, <2>2
<1>4. ASSUME NEW p \in Run(b + 1, n - 1) PROVE Right(p)
  <2>1. p - 1 \in Run(b, n)
    BY DEF Run
  <2> QED
    BY <2>1
<1>5. ASSUME b + n \in F PROVE Right(b + n)
  <2>1. b + n - 1 \in Run(b, n)
    BY DEF Run
  <2> QED
    BY <1>5, <2>1
<1>6. ASSUME b - 1 \in F PROVE Right(h)
  <2>1. g[h] = f[h] + m /\ h + f[h] = b
    BY <1>6
  <2>2. g[h] > 0 /\ h + g[h] = b + m
    BY <1>1, <1>2, <1>6, <2>1
  <2>3. Run(h, g[h]) \subseteq Run(h, f[h]) \cup Run(b, m)
    BY <1>1, <1>2, <1>6, <2>1 DEF Run
  <2>4. h - 1 \notin G /\ Run(h, f[h]) \subseteq F
    BY <1>2, <1>6
  <2> QED
    BY <1>1, <2>2, <2>3, <2>4
<1>7. ASSUME NEW p \in F, p # b + n, b - 1 \in F => p # h PROVE Right(p)
  <2>1. p \in Nat /\ f[p] \in Nat /\ g[p] = f[p]
    BY <1>7
  <2>2. p - 1 \notin Run(b, n)
    <3> SUFFICES ASSUME p - 1 \in Run(b, n) PROVE FALSE
      OBVIOUS
    <3>1. p \in Run(b, n) \/ p = b + n
      BY <2>1 DEF Run
    <3> QED
      BY <1>7, <3>1
  <2>3. CASE p - 1 \in F
    <3>1. f[p] = 0
      BY <2>3 DEF Sized
    <3> QED
      BY <2>1, <2>3, <3>1
  <2>4. CASE p - 1 \notin F
    <3>1. f[p] > 0 /\ Run(p, f[p]) \subseteq F /\ p + f[p] \notin F
      BY <2>4 DEF Sized
    <3>2. p + f[p] \notin Run(b, n)
      <4> SUFFICES ASSUME p + f[p] \in Run(b, n) PROVE FALSE
        OBVIOUS
      <4>1. p + f[p] - 1 \in Run(p, f[p])
        BY <2>1, <3>1 DEF Run
      <4>2. p + f[p] - 1 \notin Run(b, n)
        BY <3>1, <4>1
      <4>3. p + f[p] = b
        BY <2>1, <3>1, <4>2 DEF Run
      <4>4. b - 1 \in F
        BY <2>1, <3>1, <4>1, <4>3
      <4>5. h \in F /\ h \in Nat /\ h # p /\ h - 1 \notin F /\ h + f[h] = b /\ h < b /\ f[h] \in Nat
        BY <1>2, <1>7, <4>4
      <4>6. CASE p < h
        <5>1. p + f[p] < h
          BY <2>4, <4>5, <4>6, RunsApart
        <5> QED
          BY <2>1, <4>3, <4>5, <5>1
      <4>7. CASE h < p
        <5>1. h + f[h] < p
          BY <2>4, <4>5, <4>7, RunsApart
        <5> QED
          BY <2>1, <3>1, <4>3, <4>5, <5>1
      <4> QED
        BY <2>1, <4>5, <4>6, <4>7
    <3> QED
      BY <2>1, <2>2, <2>4, <3>1, <3>2
  <2> QED
    BY <2>3, <2>4
<1>8. ASSUME NEW p \in G PROVE Right(p)
  <2>1. p \in F \/ p = b \/ p \in Run(b + 1, n - 1)
    BY DEF Run
  <2> HIDE DEF Right, G
  <2> QED
    BY <1>3, <1>4, <1>5, <1>6, <1>7, <2>1
<1> QED
  BY <1>1, <1>8 DEF Sized

\* The entry before at is the page before b, and those in heads have a size.
Walks(s, f, b, at, heads) ==
  /\ Sorted(s)
  /\ \A x \in Elems(s) : f[x] \in Nat
  /\ Sized(f, Elems(s))
  /\ b \notin Elems(s)
  /\ at \in 2 .. Len(s) + 1
  /\ s[at - 1] = b - 1
  /\ \A j \in at .. Len(s) : s[j] > b
  /\ heads = {j \in 1 .. at - 1 : f[s[j]] # 0}

\* Walking back from the page before b to an entry with a size leads to the
\* start of the run that ends before b.
LEMMA WalkBack ==
  ASSUME NEW s \in Seq(Nat), NEW b \in Nat, NEW f, NEW at, NEW heads,
         Walks(s, f, b, at, heads)
  PROVE  /\ heads # {} /\ Max(heads) \in 1 .. at - 1
         /\ s[Max(heads)] \in Elems(s) /\ s[Max(heads)] - 1 \notin Elems(s)
         /\ s[Max(heads)] + f[s[Max(heads)]] = b
<1> USE DEF Walks
<1> DEFINE F == Elems(s)
<1>1. /\ Len(s) \in Nat /\ F \in SUBSET Nat
      /\ \A j \in 1 .. Len(s) : s[j] \in Nat /\ s[j] \in F
      /\ \A x \in F : \E j \in 1 .. Len(s) : x = s[j]
  BY ElemsType DEF Elems
<1> HIDE DEF F
<1>2. \A j \in 1 .. at - 1 : j \in 1 .. Len(s)
  BY <1>1
<1>3. heads # {}
  <2>1. 1 \in 1 .. at - 1 /\ 1 \in 1 .. Len(s)
    BY <1>1
  <2>2. s[1] - 1 \notin F
    <3> SUFFICES ASSUME s[1] - 1 \in F PROVE FALSE
      OBVIOUS
    <3>1. PICK j \in 1 .. Len(s) : s[j] = s[1] - 1
      BY <1>1
    <3>2. j = 1 \/ 1 < j
      BY <3>1
    <3>3. 1 < j => s[1] < s[j]
      BY <2>1 DEF Sorted
    <3>4. s[1] \in Nat
      BY <1>1, <2>1
    <3> QED
      BY <3>1, <3>2, <3>3, <3>4
  <2>3. f[s[1]] > 0 /\ f[s[1]] \in Nat
    BY <1>1, <2>1, <2>2 DEF Sized, F
  <2> QED
    BY <2>1, <2>3
<1>4. Max(heads) \in heads /\ \A j \in heads : Max(heads) >= j
  <2>1. heads \in SUBSET (0 .. Len(s))
    BY <1>1
  <2> QED
    BY <1>1, <1>3, <2>1, MaxIs
<1> DEFINE k == Max(heads)
<1>5. k \in 1 .. at - 1 /\ k \in 1 .. Len(s) /\ f[s[k]] # 0 /\ \A j \in heads : k >= j
  BY <1>2, <1>4
<1> HIDE DEF k
<1> DEFINE h == s[k]
<1>6. h \in F /\ h \in Nat /\ f[h] \in Nat /\ f[h] > 0
  BY <1>1, <1>5 DEF F
<1>14. h = s[k]
  OBVIOUS
<1> HIDE DEF h
<1>7. h - 1 \notin F /\ Run(h, f[h]) \subseteq F /\ h + f[h] \notin F
  <2>1. IF h - 1 \in F THEN f[h] = 0
        ELSE f[h] > 0 /\ Run(h, f[h]) \subseteq F /\ h + f[h] \notin F
    BY <1>6 DEF Sized, F
  <2>2. f[h] # 0
    BY <1>6
  <2> QED
    BY <2>1, <2>2
<1>8. h < b
  <2>1. at - 1 \in 1 .. Len(s)
    BY <1>1
  <2>2. k = at - 1 \/ k < at - 1
    BY <1>5
  <2>3. k < at - 1 => s[k] < s[at - 1]
    BY <1>5, <2>1 DEF Sorted
  <2> QED
    BY <1>6, <1>14, <2>2, <2>3
<1> DEFINE e == h + f[h]
<1>9. e <= b
  <2> SUFFICES ASSUME e > b PROVE FALSE
    BY <1>6
  <2>1. b \in Run(h, f[h])
    BY <1>6, <1>8 DEF Run
  <2> QED
    BY <1>7, <2>1 DEF F
<1>10. b - 1 \in F
  <2>1. at - 1 \in 1 .. Len(s)
    BY <1>1
  <2> QED
    BY <1>1, <2>1
<1>11. e \in Nat /\ e \notin F
  BY <1>6, <1>7
<1>12. h < e
  BY <1>6
<1> HIDE DEF e
<1>13. e = b
  <2> SUFFICES ASSUME e # b PROVE FALSE
    OBVIOUS
  <2>1. e < b - 1
    <3>1. e # b - 1
      BY <1>10, <1>11
    <3> QED
      BY <1>9, <1>11, <3>1
  <2>2. PICK q \in F : q <= b - 1 /\ q - 1 \notin F /\ q .. (b - 1) \subseteq F
    BY <1>1, <1>10, RunStart
  <2>3. q \in Nat /\ q > e
    <3>1. q \in Nat
      BY <1>1
    <3>2. q <= e => e \in q .. (b - 1)
      BY <1>11, <2>1, <3>1
    <3> QED
      BY <1>11, <2>2, <3>1, <3>2
  <2>4. f[q] > 0 /\ f[q] \in Nat
    BY <2>2 DEF Sized, F
  <2>5. PICK j \in 1 .. Len(s) : q = s[j]
    BY <1>1
  <2>6. j < at
    <3> SUFFICES ASSUME j >= at PROVE FALSE
      BY <1>1
    <3>1. j \in at .. Len(s)
      BY <1>1
    <3>2. q > b
      BY <2>5, <3>1
    <3> QED
      BY <2>2, <2>3, <3>2
  <2>7. j \in heads
    <3>1. j \in 1 .. at - 1
      BY <2>6
    <3> QED
      BY <2>4, <2>5, <3>1
  <2>8. k >= j
    BY <1>5, <2>7
  <2>9. k = j \/ j < k
    BY <1>5, <2>8
  <2>10. j < k => s[j] < s[k]
    BY <1>5 DEF Sorted
  <2> QED
    BY <1>6, <1>14, <1>11, <1>12, <2>3, <2>5, <2>9, <2>10
<1> QED
  <2>1. k \in 1 .. at - 1 /\ s[k] \in F /\ s[k] - 1 \notin F /\ s[k] + f[s[k]] = b
    BY <1>5, <1>6, <1>14, <1>7, <1>13 DEF e
  <2> QED
    BY <1>3, <2>1 DEF k, F

----------------------------------------------------------------------------
(* What the invariant says.                                                *)

\* Pages are numbered.
LEMMA PagesAreNumbers ==
  Page \in SUBSET Nat /\ npage \in Nat \ {0} /\ \A p \in Page : p \in Nat
BY MemoryAssumption DEF Page

\* A list of numbers that are pages is a list of pages.
LEMMA SeqOfPages ==
  ASSUME NEW s \in Seq(Nat), Elems(s) \subseteq Page
  PROVE  s \in Seq(Page)
<1>1. Len(s) \in Nat /\ s = [i \in 1 .. Len(s) |-> s[i]]
  OBVIOUS
<1>2. \A i \in 1 .. Len(s) : s[i] \in Page
  BY DEF Elems
<1> QED
  BY <1>1, <1>2

\* What the invariant says of the list and the pages in it.
LEMMA InvFacts ==
  ASSUME IInv
  PROVE  /\ free_list \in Seq(Nat) /\ IsFree \in SUBSET Nat /\ IsFree \subseteq Page
         /\ ToSet(free_list) = IsFree
         /\ Len(free_list) \in Nat
         /\ \A i \in 1 .. Len(free_list) : free_list[i] \in IsFree /\ free_list[i] \in Nat
         /\ \A x \in IsFree : /\ property[x] \in Nat /\ x \in Nat
                              /\ \E i \in 1 .. Len(free_list) : x = free_list[i]
         /\ IsFree \cap UNION {Run(b[1], b[2]) : b \in held} = {}
         /\ IsFree \cup UNION {Run(b[1], b[2]) : b \in held} = Usable
<1>1. free_list \in Seq(Page) /\ property \in [Page -> 0 .. npage]
  BY DEF IInv, TypeOK
<1>2. free_list \in Seq(Nat)
  <2>1. \A i \in 1 .. Len(free_list) : free_list[i] \in Page
    BY <1>1
  <2>2. \A i \in 1 .. Len(free_list) : free_list[i] \in Nat
    BY <2>1, PagesAreNumbers
  <2>3. Len(free_list) \in Nat /\ free_list = [i \in 1 .. Len(free_list) |-> free_list[i]]
    BY <1>1
  <2> QED
    BY <2>2, <2>3
<1>3. IsFree \subseteq Page
  BY <1>1, ElemsType DEF IsFree
<1>4. ToSet(free_list) = IsFree
  BY <1>1 DEF ToSet, IsFree, Elems
<1>5. \A i \in 1 .. Len(free_list) : free_list[i] \in IsFree
  BY DEF IsFree, Elems
<1>6. \A x \in IsFree : \E i \in 1 .. Len(free_list) : x = free_list[i]
  BY DEF IsFree, Elems
<1>7. Len(free_list) \in Nat
  BY <1>1
<1>8. \A x \in IsFree : property[x] \in Nat /\ x \in Nat
  BY <1>1, <1>3, PagesAreNumbers
<1>9. IsFree \cap UNION {Run(b[1], b[2]) : b \in held} = {}
  BY <1>4 DEF IInv, EveryPageOnce
<1>10. IsFree \cup UNION {Run(b[1], b[2]) : b \in held} = Usable
  BY <1>4 DEF IInv, EveryPageOnce
<1> QED
  BY <1>2, <1>3, <1>4, <1>5, <1>6, <1>7, <1>8, <1>9, <1>10, PagesAreNumbers

\* Where n pages are free in a row, the run they lie in starts at an entry
\* that is large enough.
LEMMA FitsInARun ==
  ASSUME IInv, NEW n \in Nat \ {0}, NEW p \in Nat, Run(p, n) \subseteq IsFree
  PROVE  /\ n <= Len(free_list)
         /\ \E i \in 1 .. Len(free_list) : free_list[i] <= p /\ property[free_list[i]] >= n
<1>1. p \in Run(p, n)
  BY DEF Run
<1>2. PICK q \in IsFree : q <= p /\ q - 1 \notin IsFree /\ q .. p \subseteq IsFree
  BY <1>1, InvFacts, RunStart
<1>3. PICK i \in 1 .. Len(free_list) : q = free_list[i]
  BY InvFacts
<1>4. /\ property[q] > 0 /\ Run(q, property[q]) \subseteq IsFree /\ q + property[q] \notin IsFree
      /\ property[q] \in Nat /\ q \in Nat
  <2>1. Sized(property, IsFree) /\ property[q] \in Nat /\ q \in Nat
    BY InvFacts DEF IInv
  <2> QED
    BY <1>2, <2>1 DEF Sized
<1>5. q + property[q] >= p + n
  <2> SUFFICES ASSUME q + property[q] < p + n PROVE FALSE
    BY <1>4
  <2>1. q + property[q] \in q .. p \/ q + property[q] \in Run(p, n)
    BY <1>2, <1>4 DEF Run
  <2> QED
    BY <1>2, <1>4, <2>1
<1>6. property[q] >= n
  <2>1. q <= p /\ q \in Nat /\ property[q] \in Nat /\ q + property[q] >= p + n
    BY <1>2, <1>4, <1>5
  <2> QED
    BY <2>1
<1>7. n <= Len(free_list)
  <2> DEFINE s == free_list
  <2>1. /\ s \in Seq(Nat) /\ Sorted(s) /\ i \in 1 .. Len(s) /\ property[q] \in Nat
        /\ Run(s[i], property[q]) \subseteq Elems(s) /\ n - 1 \in 0 .. property[q] - 1
    <3>1. n - 1 \in 0 .. property[q] - 1
      BY <1>4, <1>6
    <3> QED
      BY <1>3, <1>4, <3>1, InvFacts DEF IInv, IsFree
  <2> HIDE DEF s
  <2>2. i + (n - 1) \in 1 .. Len(s)
    BY <2>1, RunInList
  <2>3. Len(s) \in Nat
    BY <2>1
  <2> QED
    BY <2>2, <2>3 DEF s
<1> QED
  BY <1>2, <1>3, <1>6, <1>7

\* The invariant is strong enough: FreeListIsSound follows, and in it that a
\* request is refused only when no run of free pages is as long.
LEMMA InvSound == IInv => FreeListIsSound
<1> SUFFICES ASSUME IInv PROVE FreeListIsSound
  OBVIOUS
<1>1. TypeOK /\ EveryPageOnce /\ NrFreeCounts /\ HeldIsReserved
  BY DEF IInv
<1>2. RefusedOnlyIfNone
  <2> SUFFICES ASSUME NEW n \in 1 .. MaxReq, NEW p \in Page,
                      Run(p, n) \subseteq ToSet(free_list)
               PROVE  n <= nr_free /\ \E i \in 1 .. Len(free_list) : LargeEnough(i, n)
    BY DEF RefusedOnlyIfNone
  <2>1. n \in Nat \ {0} /\ p \in Nat /\ Run(p, n) \subseteq IsFree
    BY MemoryAssumption, PagesAreNumbers, InvFacts
  <2> QED
    BY <1>1, <2>1, FitsInARun DEF LargeEnough, NrFreeCounts
<1>3. \A i \in 1 .. Len(free_list) - 1 : free_list[i] < free_list[i + 1]
  <2> SUFFICES ASSUME NEW i \in 1 .. Len(free_list) - 1
               PROVE  free_list[i] < free_list[i + 1]
    OBVIOUS
  <2>1. i \in 1 .. Len(free_list) /\ i + 1 \in 1 .. Len(free_list) /\ i < i + 1
    BY InvFacts
  <2>2. Sorted(free_list)
    BY DEF IInv
  <2> QED
    BY <2>1, <2>2 DEF Sorted
<1>4. \A p \in ToSet(free_list) :
        IF p - 1 \in ToSet(free_list) THEN property[p] = 0
        ELSE /\ property[p] > 0
             /\ Run(p, property[p]) \subseteq ToSet(free_list)
             /\ p + property[p] \notin ToSet(free_list)
  BY InvFacts DEF IInv, Sized
<1>5. \A b \in held : \A p \in Run(b[1] + 1, b[2] - 1) : property[p] = 0
  BY DEF IInv
<1>6. SizesAreRuns
  BY <1>3, <1>4, <1>5 DEF SizesAreRuns
<1> QED
  BY <1>1, <1>2, <1>6 DEF FreeListIsSound

\* Sizes that tell runs of pages are no larger than the memory.
LEMMA SizesFit ==
  ASSUME NEW G, G \subseteq Page, NEW g, \A x \in G : g[x] \in Nat, Sized(g, G)
  PROVE  \A x \in G : g[x] \in 0 .. npage
<1> SUFFICES ASSUME NEW x \in G PROVE g[x] <= npage
  BY PagesAreNumbers
<1>1. x \in Nat /\ g[x] \in Nat
  BY PagesAreNumbers
<1>2. CASE g[x] = 0
  BY <1>2, PagesAreNumbers
<1>3. CASE g[x] # 0
  <2>1. Run(x, g[x]) \subseteq Page
    BY <1>3 DEF Sized
  <2>2. x + g[x] - 1 \in Run(x, g[x])
    BY <1>1, <1>3 DEF Run
  <2>3. x + g[x] - 1 \in 0 .. npage - 1
    BY <2>1, <2>2 DEF Page
  <2> QED
    BY <1>1, <2>3, PagesAreNumbers
<1> QED
  BY <1>2, <1>3

----------------------------------------------------------------------------
(* default_alloc_pages                                                     *)

\* The entry found is the start of a run, no earlier page would do, and the
\* first pages of the run leave the list.
LEMMA AllocTakes ==
  ASSUME IInv, NEW n \in 1 .. MaxReq, Alloc(n)
  PROVE  \E p \in IsFree :
           /\ p - 1 \notin IsFree /\ n <= property[p] /\ Run(p, n) \subseteq IsFree
           /\ \A q \in IsFree : Run(q, n) \subseteq IsFree => p <= q
           /\ free_list' \in Seq(Nat) /\ Sorted(free_list')
           /\ IsFree' = IsFree \ Run(p, n)
           /\ Len(free_list') = Len(free_list) - n
           /\ property' = IF p + n \in IsFree
                          THEN [property EXCEPT ![p + n] = property[p] - n] ELSE property
           /\ reserved' = reserved \cup Run(p, n)
           /\ held' = held \cup {<<p, n>>}
           /\ nr_free' = nr_free - n
<1> DEFINE s == free_list
<1>1. PICK i \in 1 .. Len(free_list) :
        /\ LargeEnough(i, n)
        /\ \A j \in 1 .. i - 1 : ~ LargeEnough(j, n)
        /\ reserved' = reserved \union Taken(i, n)
        /\ free_list' = SubSeq(free_list, 1, i - 1)
                        \o SubSeq(free_list, i + n, Len(free_list))
        /\ property' = Split(i, n)
        /\ held' = held \union {<<free_list[i], n>>}
  BY DEF Alloc
<1>2. n \in Nat /\ 0 < n
  BY MemoryAssumption
<1>3. /\ s \in Seq(Nat) /\ Len(s) \in Nat /\ Sorted(s) /\ Elems(s) = IsFree /\ i \in 1 .. Len(s)
      /\ \A j \in 1 .. Len(s) : s[j] \in IsFree /\ s[j] \in Nat
      /\ \A x \in IsFree : \E j \in 1 .. Len(s) : x = s[j]
      /\ IsFree \in SUBSET Nat
      /\ \A x \in IsFree : property[x] \in Nat
      /\ Sized(property, IsFree)
  BY InvFacts DEF IInv, IsFree
<1> DEFINE p == s[i]
<1>4. p \in IsFree /\ p \in Nat /\ property[p] \in Nat /\ property[p] >= n
  BY <1>1, <1>3 DEF LargeEnough
<1> HIDE DEF p
<1>5. p - 1 \notin IsFree /\ Run(p, property[p]) \subseteq IsFree /\ p + property[p] \notin IsFree
  <2>1. IF p - 1 \in IsFree THEN property[p] = 0
        ELSE /\ property[p] > 0
             /\ Run(p, property[p]) \subseteq IsFree
             /\ p + property[p] \notin IsFree
    BY <1>3, <1>4 DEF Sized
  <2>2. property[p] # 0
    BY <1>2, <1>4
  <2> QED
    BY <2>1, <2>2
<1>6. Run(p, n) \subseteq IsFree
  <2>1. Run(p, n) \subseteq Run(p, property[p])
    BY <1>2, <1>4 DEF Run
  <2> QED
    BY <1>5, <2>1
<1>7. \A k \in 0 .. property[p] - 1 : i + k \in 1 .. Len(s) /\ s[i + k] = p + k
  <2> SUFFICES ASSUME NEW k \in 0 .. property[p] - 1
               PROVE  i + k \in 1 .. Len(s) /\ s[i + k] = p + k
    OBVIOUS
  <2>1. Run(s[i], property[p]) \subseteq Elems(s)
    BY <1>3, <1>5 DEF p
  <2> HIDE DEF s
  <2>2. i + k \in 1 .. Len(s) /\ s[i + k] = s[i] + k
    BY <1>3, <1>4, <2>1, RunInList
  <2> QED
    BY <2>2 DEF p
<1>8. \A k \in 0 .. n - 1 : i + k \in 1 .. Len(s) /\ s[i + k] = p + k
  <2>1. \A k \in 0 .. n - 1 : k \in 0 .. property[p] - 1
    BY <1>2, <1>4
  <2> QED
    BY <1>7, <2>1
<1> HIDE DEF s
<1>9. i + n - 1 <= Len(s) /\ i \in Nat /\ i >= 1
  <2>1. n - 1 \in 0 .. n - 1
    BY <1>2
  <2>2. i + (n - 1) \in 1 .. Len(s)
    BY <1>8, <2>1
  <2> QED
    BY <1>2, <1>3, <2>2
<1>10. {s[j] : j \in i .. i + n - 1} = Run(p, n)
  <2>1. ASSUME NEW j \in i .. i + n - 1 PROVE s[j] \in Run(p, n)
    <3>1. j - i \in 0 .. n - 1 /\ i + (j - i) = j
      BY <1>2, <1>9
    <3>2. s[j] = p + (j - i)
      BY <1>8, <3>1
    <3> QED
      BY <1>2, <1>4, <3>1, <3>2 DEF Run
  <2>2. ASSUME NEW x \in Run(p, n) PROVE \E j \in i .. i + n - 1 : x = s[j]
    <3>1. x - p \in 0 .. n - 1 /\ p + (x - p) = x
      BY <1>2, <1>4 DEF Run
    <3>2. i + (x - p) \in i .. i + n - 1 /\ s[i + (x - p)] = x
      BY <1>2, <1>8, <1>9, <3>1
    <3> QED
      BY <3>2
  <2> QED
    BY <2>1, <2>2
<1>11. Taken(i, n) = Run(p, n)
  BY <1>10 DEF Taken, s
<1> DEFINE A == SubSeq(s, 1, i - 1)
           B == SubSeq(s, i + n, Len(s))
<1>12. /\ A \in Seq(Nat) /\ Sorted(A) /\ Elems(A) = {s[j] : j \in 1 .. i - 1}
       /\ Len(A) = i - 1
  <2>1. 1 \in Nat \ {0} /\ i - 1 \in Nat /\ i - 1 <= Len(s)
    BY <1>3, <1>9
  <2>2. /\ A \in Seq(Nat) /\ Sorted(A) /\ Elems(A) = {s[j] : j \in 1 .. i - 1}
        /\ Len(A) = IF 1 <= i - 1 THEN i - 1 - 1 + 1 ELSE 0
    BY <1>3, <2>1, SortedPart
  <2> HIDE DEF A
  <2> QED
    BY <2>1, <2>2
<1>13. /\ B \in Seq(Nat) /\ Sorted(B) /\ Elems(B) = {s[j] : j \in i + n .. Len(s)}
       /\ Len(B) = Len(s) - (i + n) + 1
  <2>1. i + n \in Nat \ {0} /\ Len(s) \in Nat /\ Len(s) <= Len(s)
    BY <1>2, <1>3, <1>9
  <2>2. /\ B \in Seq(Nat) /\ Sorted(B) /\ Elems(B) = {s[j] : j \in i + n .. Len(s)}
        /\ Len(B) = IF i + n <= Len(s) THEN Len(s) - (i + n) + 1 ELSE 0
    BY <1>3, <2>1, SortedPart
  <2> HIDE DEF B
  <2> QED
    BY <1>2, <1>3, <1>9, <2>1, <2>2
<1>14. free_list' = A \o B
  BY <1>1 DEF s
<1> HIDE DEF A, B
<1>15. \A x \in Elems(A), y \in Elems(B) : x < y
  <2> SUFFICES ASSUME NEW j \in 1 .. i - 1, NEW k \in i + n .. Len(s)
               PROVE  s[j] < s[k]
    BY <1>12, <1>13
  <2>1. j \in 1 .. Len(s) /\ k \in 1 .. Len(s) /\ j < k
    BY <1>2, <1>3, <1>9
  <2> QED
    BY <1>3, <2>1 DEF Sorted
<1>16. /\ free_list' \in Seq(Nat) /\ Sorted(free_list')
       /\ Elems(free_list') = Elems(A) \cup Elems(B)
       /\ Len(free_list') = Len(A) + Len(B)
  BY <1>12, <1>13, <1>14, <1>15, SortedConcat
<1>17. Elems(A) \cup Elems(B) = IsFree \ Run(p, n)
  <2>1. ASSUME NEW j \in 1 .. Len(s)
        PROVE  s[j] \in Run(p, n) <=> j \in i .. i + n - 1
    <3>1. j \in i .. i + n - 1 => s[j] \in Run(p, n)
      BY <1>10
    <3>2. ASSUME s[j] \in Run(p, n) PROVE j \in i .. i + n - 1
      <4>1. PICK k \in i .. i + n - 1 : s[j] = s[k]
        BY <1>10, <3>2
      <4>2. k \in 1 .. Len(s)
        BY <1>2, <1>3, <1>9
      <4>3. j < k => s[j] < s[k]
        BY <1>3, <4>2 DEF Sorted
      <4>4. k < j => s[k] < s[j]
        BY <1>3, <4>2 DEF Sorted
      <4>5. s[j] \in Nat /\ s[k] \in Nat
        BY <1>3, <4>2
      <4>6. j = k
        BY <1>3, <4>1, <4>2, <4>3, <4>4, <4>5
      <4> QED
        BY <4>6
    <3> QED
      BY <3>1, <3>2
  <2>2. \A j \in 1 .. Len(s) : j \in 1 .. i - 1 \/ j \in i .. i + n - 1 \/ j \in i + n .. Len(s)
    BY <1>2, <1>3, <1>9
  <2>3. \A j \in 1 .. i - 1 : j \in 1 .. Len(s) /\ j \notin i .. i + n - 1
    BY <1>2, <1>3, <1>9
  <2>4. \A j \in i + n .. Len(s) : j \in 1 .. Len(s) /\ j \notin i .. i + n - 1
    BY <1>2, <1>3, <1>9
  <2>5. ASSUME NEW x \in Elems(A) \cup Elems(B) PROVE x \in IsFree \ Run(p, n)
    <3>1. PICK j \in 1 .. Len(s) : x = s[j] /\ j \notin i .. i + n - 1
      BY <1>12, <1>13, <2>3, <2>4
    <3> QED
      BY <1>3, <2>1, <3>1
  <2>6. ASSUME NEW x \in IsFree \ Run(p, n) PROVE x \in Elems(A) \cup Elems(B)
    <3>1. PICK j \in 1 .. Len(s) : x = s[j]
      BY <1>3
    <3>2. j \in 1 .. i - 1 \/ j \in i + n .. Len(s)
      BY <2>1, <2>2, <3>1
    <3> QED
      BY <1>12, <1>13, <3>1, <3>2
  <2> QED
    BY <2>5, <2>6
<1>18. IsFree' = IsFree \ Run(p, n)
  BY <1>16, <1>17 DEF IsFree
<1>19. Len(free_list') = Len(free_list) - n
  <2>1. Len(free_list') = (i - 1) + (Len(s) - (i + n) + 1)
    BY <1>12, <1>13, <1>16
  <2> QED
    BY <1>2, <1>3, <1>9, <2>1 DEF s
<1>20. property[p] > n <=> p + n \in IsFree
  <2>1. ASSUME property[p] > n PROVE p + n \in IsFree
    <3>1. p + n \in Run(p, property[p])
      BY <1>2, <1>4, <2>1 DEF Run
    <3> QED
      BY <1>5, <3>1
  <2>2. property[p] = n => p + n \notin IsFree
    BY <1>5
  <2> QED
    BY <1>2, <1>4, <2>1, <2>2
<1>21. property' = IF p + n \in IsFree
                   THEN [property EXCEPT ![p + n] = property[p] - n] ELSE property
  <2>1. property[p] > n => free_list[i + n] = p + n
    <3>1. property[p] > n => n \in 0 .. property[p] - 1
      BY <1>2, <1>4
    <3> QED
      BY <1>7, <3>1 DEF s
  <2>2. p = free_list[i]
    BY DEF p, s
  <2>3. property' = IF property[p] > n
                    THEN [property EXCEPT ![free_list[i + n]] = property[p] - n]
                    ELSE property
    BY <1>1, <2>2 DEF Split
  <2> QED
    BY <1>20, <2>1, <2>3
<1>22. ASSUME NEW q \in IsFree, Run(q, n) \subseteq IsFree PROVE p <= q
  <2>1. n \in Nat \ {0} /\ q \in Nat
    BY <1>2, <1>3
  <2>2. PICK j \in 1 .. Len(free_list) : free_list[j] <= q /\ property[free_list[j]] >= n
    BY <1>22, <2>1, FitsInARun
  <2>3. j \in 1 .. Len(s) /\ s[j] <= q /\ s[j] \in Nat
    BY <1>3, <2>2 DEF s
  <2>4. ~ (j < i)
    <3>1. LargeEnough(j, n)
      BY <2>2 DEF LargeEnough
    <3>2. j < i => j \in 1 .. i - 1
      BY <1>9, <2>3
    <3> QED
      BY <1>1, <3>1, <3>2
  <2>5. i = j \/ i < j
    BY <1>3, <2>3, <2>4
  <2>6. i < j => s[i] < s[j]
    BY <1>3, <2>3 DEF Sorted
  <2> QED
    BY <1>4, <2>1, <2>3, <2>5, <2>6 DEF p
<1>23. held' = held \cup {<<p, n>>} /\ nr_free' = nr_free - n
  BY <1>1 DEF p, s, Alloc
<1>24. reserved' = reserved \cup Run(p, n)
  BY <1>1, <1>11
<1> QED
  BY <1>4, <1>5, <1>6, <1>16, <1>18, <1>19, <1>21, <1>22, <1>23, <1>24

\* default_alloc_pages keeps the invariant.
LEMMA AllocStep ==
  ASSUME IInv, NEW n \in 1 .. MaxReq, Alloc(n)
  PROVE  IInv'
<1>1. PICK p \in IsFree :
        /\ p - 1 \notin IsFree /\ n <= property[p] /\ Run(p, n) \subseteq IsFree
        /\ \A q \in IsFree : Run(q, n) \subseteq IsFree => p <= q
        /\ free_list' \in Seq(Nat) /\ Sorted(free_list')
        /\ IsFree' = IsFree \ Run(p, n)
        /\ Len(free_list') = Len(free_list) - n
        /\ property' = IF p + n \in IsFree
                       THEN [property EXCEPT ![p + n] = property[p] - n] ELSE property
        /\ reserved' = reserved \cup Run(p, n)
        /\ held' = held \cup {<<p, n>>}
        /\ nr_free' = nr_free - n
  BY AllocTakes
<1>2. n \in Nat /\ 0 < n
  BY MemoryAssumption
<1>3. /\ property \in [Page -> 0 .. npage] /\ reserved \subseteq Page
      /\ held \subseteq Page \X (1 .. npage) /\ p \in Nat
      /\ IsFree \subseteq Page /\ IsFree \in SUBSET Nat /\ npage \in Nat
      /\ property[p] \in 0 .. npage
  BY InvFacts, PagesAreNumbers DEF IInv, TypeOK
<1>4. /\ property' \in [Page -> 0 .. npage]
      /\ \A q \in Page : q # p + n => property'[q] = property[q]
      /\ p + n \in IsFree => property'[p + n] = property[p] - n
  <2>1. property[p] - n \in 0 .. npage
    BY <1>1, <1>2, <1>3
  <2> QED
    BY <1>1, <1>3, <2>1
<1>5. Sized(property', IsFree')
  <2>1. /\ \A x \in IsFree : property[x] \in Nat
        /\ Sized(property, IsFree)
        /\ \A q \in IsFree : q # p + n => property'[q] = property[q]
    BY <1>3, <1>4, InvFacts DEF IInv
  <2> DEFINE F == IsFree
             g == property'
             f == property
  <2>2. /\ F \in SUBSET Nat /\ \A x \in F : f[x] \in Nat
        /\ Sized(f, F) /\ p \in F /\ p - 1 \notin F /\ n <= f[p]
        /\ \A q \in F : q # p + n => g[q] = f[q]
        /\ p + n \in F => g[p + n] = f[p] - n
    BY <1>1, <1>3, <1>4, <2>1
  <2> HIDE DEF F, f, g
  <2>3. Sized(g, F \ Run(p, n))
    BY <1>2, <2>2, SizedAfterTake
  <2> QED
    BY <1>1, <2>3 DEF F, g
<1>6. IsFree' \subseteq Page
  BY <1>1, <1>3
<1>7. free_list' \in Seq(Page)
  BY <1>1, <1>6, SeqOfPages DEF IsFree
<1>8. Len(free_list') \in Nat
  BY <1>7
<1>9. nr_free' = Len(free_list') /\ nr_free' \in 0 .. npage
  <2>1. nr_free = Len(free_list) /\ nr_free \in 0 .. npage
    BY DEF IInv, NrFreeCounts, TypeOK
  <2>2. nr_free' = Len(free_list')
    BY <1>1, <2>1
  <2> QED
    BY <1>1, <1>2, <1>3, <1>8, <2>1, <2>2
<1>10. <<p, n>> \in Page \X (1 .. npage)
  BY <1>1, <1>2, <1>3
<1>11. Run(p, n) \subseteq Page
  BY <1>1, <1>3
<1>12. TypeOK'
  BY <1>1, <1>3, <1>4, <1>7, <1>9, <1>10, <1>11 DEF TypeOK
<1>13. EveryPageOnce'
  <2>1. ToSet(free_list)' = IsFree'
    BY <1>7 DEF ToSet, IsFree, Elems
  <2>2. \A i, j \in 1 .. Len(free_list') : free_list'[i] = free_list'[j] => i = j
    <3> SUFFICES ASSUME NEW i \in 1 .. Len(free_list'), NEW j \in 1 .. Len(free_list'),
                        free_list'[i] = free_list'[j]
                 PROVE  i = j
      OBVIOUS
    <3>1. free_list'[i] \in Nat /\ free_list'[j] \in Nat
      BY <1>1
    <3>2. (i < j => free_list'[i] < free_list'[j]) /\ (j < i => free_list'[j] < free_list'[i])
      BY <1>1 DEF Sorted
    <3> QED
      BY <1>8, <3>1, <3>2
  <2>3. \A b \in held' : b \in held \/ (b = <<p, n>> /\ Run(b[1], b[2]) = Run(p, n))
    BY <1>1
  <2>4. \A b \in held : Run(b[1], b[2]) \cap IsFree = {}
    BY InvFacts
  <2>5. \A b, c \in held' : Run(b[1], b[2]) \cap Run(c[1], c[2]) # {} => b = c
    <3>1. \A b, c \in held : Run(b[1], b[2]) \cap Run(c[1], c[2]) # {} => b = c
      BY DEF IInv, EveryPageOnce
    <3>2. \A b \in held : Run(b[1], b[2]) \cap Run(p, n) = {}
      BY <1>1, <2>4
    <3> QED
      BY <2>3, <3>1, <3>2
  <2>6. \A b \in held' : Run(b[1], b[2]) \cap IsFree' = {}
    BY <1>1, <2>3, <2>4
  <2>7. IsFree' \cup UNION {Run(b[1], b[2]) : b \in held'} = Usable
    <3>1. UNION {Run(b[1], b[2]) : b \in held'}
            = (UNION {Run(b[1], b[2]) : b \in held}) \cup Run(p, n)
      <4>1. <<p, n>> \in held' /\ \A b \in held : b \in held'
        BY <1>1
      <4>2. Run(<<p, n>>[1], <<p, n>>[2]) = Run(p, n)
        OBVIOUS
      <4>3. ASSUME NEW x \in UNION {Run(b[1], b[2]) : b \in held'}
            PROVE  x \in (UNION {Run(b[1], b[2]) : b \in held}) \cup Run(p, n)
        <5>1. PICK b \in held' : x \in Run(b[1], b[2])
          OBVIOUS
        <5> QED
          BY <2>3, <5>1
      <4>4. ASSUME NEW x \in (UNION {Run(b[1], b[2]) : b \in held}) \cup Run(p, n)
            PROVE  x \in UNION {Run(b[1], b[2]) : b \in held'}
        <5>1. CASE x \in Run(p, n)
          BY <4>1, <4>2, <5>1
        <5>2. CASE x \notin Run(p, n)
          <6>1. PICK b \in held : x \in Run(b[1], b[2])
            BY <5>2
          <6> QED
            BY <4>1, <6>1
        <5> QED
          BY <5>1, <5>2
      <4> QED
        BY <4>3, <4>4
    <3>2. IsFree \cup UNION {Run(b[1], b[2]) : b \in held} = Usable
      BY InvFacts
    <3> QED
      BY <1>1, <3>1, <3>2
  <2> QED
    BY <2>1, <2>2, <2>5, <2>6, <2>7 DEF EveryPageOnce
<1>14. \A b \in held' : \A q \in Run(b[1] + 1, b[2] - 1) : property'[q] = 0
  <2>1. ASSUME NEW b \in held, NEW q \in Run(b[1] + 1, b[2] - 1)
        PROVE  property'[q] = 0
    <3>1. property[q] = 0
      <4>1. \A c \in held : \A x \in Run(c[1] + 1, c[2] - 1) : property[x] = 0
        BY DEF IInv
      <4> QED
        BY <4>1
    <3>2. b[1] \in Nat /\ b[2] \in Nat /\ Run(b[1], b[2]) \cap IsFree = {}
      <4>1. b[1] \in Page /\ b[2] \in 1 .. npage
        BY <1>3
      <4>2. Run(b[1], b[2]) \cap IsFree = {}
        BY InvFacts
      <4>3. b[1] \in Nat
        BY <4>1, PagesAreNumbers
      <4>4. b[2] \in Nat
        BY <1>3, <4>1
      <4> QED
        BY <4>2, <4>3, <4>4
    <3>3. q \in Run(b[1], b[2])
      BY <3>2 DEF Run
    <3>4. q \in Page
      <4>1. q \in Usable
        BY <3>3, InvFacts
      <4> QED
        BY <4>1, MemoryAssumption DEF Usable
    <3>5. q = p + n => p + n \notin IsFree
      BY <3>2, <3>3
    <3>6. p + n \notin IsFree => property' = property
      BY <1>1
    <3> QED
      BY <1>4, <3>1, <3>4, <3>5, <3>6
  <2>2. ASSUME NEW q \in Run(p + 1, n - 1)
        PROVE  property'[q] = 0
    <3>1. q - 1 \in Run(p, n) /\ q \in Run(p, n) /\ q # p + n
      BY <1>2, <1>3 DEF Run
    <3>2. q - 1 \in IsFree /\ q \in IsFree
      BY <1>1, <3>1
    <3>3. property[q] = 0
      BY <3>2 DEF IInv, Sized
    <3> QED
      BY <1>3, <1>4, <3>1, <3>2, <3>3
  <2>3. \A b \in held' : b \in held \/ (b[1] = p /\ b[2] = n)
    BY <1>1
  <2> QED
    BY <2>1, <2>2, <2>3
<1>15. HeldIsReserved'
  <2>1. \A b \in held : Run(b[1], b[2]) \subseteq reserved
    BY DEF IInv, HeldIsReserved
  <2>2. \A b \in held' : b \in held \/ Run(b[1], b[2]) = Run(p, n)
    BY <1>1
  <2> QED
    BY <1>1, <2>1, <2>2 DEF HeldIsReserved
<1>16. NrFreeCounts'
  BY <1>9 DEF NrFreeCounts
<1>17. Sorted(free_list)' /\ Sized(property, IsFree)'
  BY <1>1, <1>5
<1> QED
  BY <1>12, <1>13, <1>14, <1>15, <1>16, <1>17 DEF IInv

----------------------------------------------------------------------------
(* default_free_pages                                                      *)

\* The place found is between the pages below the block and those above it.
LEMMA PlaceIsBetween ==
  ASSUME IInv, NEW b \in Nat, b \notin IsFree
  PROVE  /\ Place(b) \in 1 .. Len(free_list) + 1
         /\ \A j \in 1 .. Len(free_list) : /\ j < Place(b) => free_list[j] < b
                                           /\ j >= Place(b) => free_list[j] > b
<1> DEFINE s == free_list
           S == {i \in 1 .. Len(s) : s[i] > b} \cup {Len(s) + 1}
<1>1. /\ Len(s) \in Nat /\ Sorted(s)
      /\ \A j \in 1 .. Len(s) : s[j] \in Nat /\ s[j] # b
  BY InvFacts DEF IInv
<1>2. S \in SUBSET Nat /\ S # {}
  BY <1>1
<1>3. Place(b) = Min(S)
  BY DEF Place
<1>4. /\ \A i \in S : i \in 1 .. Len(s) + 1
      /\ \A i \in S : i <= Len(s) => s[i] > b
      /\ \A i \in 1 .. Len(s) : s[i] > b => i \in S
  BY <1>1
<1> HIDE DEF S
<1>5. Place(b) \in S /\ \A i \in S : Place(b) <= i
  BY <1>2, <1>3, MinIs
<1> DEFINE a == Place(b)
<1>6. a \in 1 .. Len(s) + 1 /\ (a <= Len(s) => s[a] > b)
  BY <1>4, <1>5
<1> HIDE DEF a
<1>7. ASSUME NEW j \in 1 .. Len(s)
      PROVE  (j < a => s[j] < b) /\ (j >= a => s[j] > b)
  <2>1. s[j] \in Nat /\ s[j] # b
    BY <1>1
  <2>2. ASSUME j < a PROVE s[j] < b
    <3>1. j \notin S
      BY <1>5, <1>6, <2>2 DEF a
    <3>2. ~ (s[j] > b)
      BY <1>4, <3>1
    <3> QED
      BY <2>1, <3>2
  <2>3. ASSUME j >= a PROVE s[j] > b
    <3>1. a \in 1 .. Len(s) /\ s[a] \in Nat /\ s[a] > b
      BY <1>1, <1>6, <2>3
    <3>2. a = j \/ a < j
      BY <1>1, <2>3, <3>1
    <3>3. a < j => s[a] < s[j]
      BY <1>1, <3>1 DEF Sorted
    <3> QED
      BY <2>1, <3>1, <3>2, <3>3
  <2> QED
    BY <2>2, <2>3
<1> QED
  BY <1>6, <1>7 DEF a

\* The list with the pages of a block in their place.
LEMMA FreeLists ==
  ASSUME IInv, NEW b \in Nat, NEW n \in Nat, 0 < n, Run(b, n) \cap IsFree = {}, NEW c,
         c = SubSeq(free_list, 1, Place(b) - 1) \o Pages(b, n)
               \o SubSeq(free_list, Place(b), Len(free_list))
  PROVE  /\ c \in Seq(Nat) /\ Sorted(c) /\ Elems(c) = IsFree \cup Run(b, n)
         /\ Len(c) = Len(free_list) + n
<1> DEFINE s == free_list
           at == Place(b)
           A == SubSeq(s, 1, at - 1)
           P == Pages(b, n)
           B == SubSeq(s, at, Len(s))
<1>1. b \in Run(b, n) /\ b \notin IsFree
  <2>1. b \in Run(b, n)
    BY DEF Run
  <2> QED
    BY <2>1
<1>2. /\ at \in 1 .. Len(s) + 1
      /\ \A j \in 1 .. Len(s) : (j < at => s[j] < b) /\ (j >= at => s[j] > b)
  BY <1>1, PlaceIsBetween
<1>3. /\ s \in Seq(Nat) /\ Len(s) \in Nat /\ Sorted(s)
      /\ \A j \in 1 .. Len(s) : s[j] \in IsFree /\ s[j] \in Nat
      /\ \A x \in IsFree : \E j \in 1 .. Len(s) : x = s[j]
  BY InvFacts DEF IInv
<1>4. c = (A \o P) \o B
  OBVIOUS
<1> HIDE DEF s, at, A, P, B
<1>5. at \in Nat \ {0} /\ at - 1 \in Nat /\ at - 1 <= Len(s) /\ 1 \in Nat \ {0}
  BY <1>2, <1>3
<1>6. /\ A \in Seq(Nat) /\ Sorted(A) /\ Elems(A) = {s[j] : j \in 1 .. at - 1}
      /\ Len(A) = at - 1
  <2> DEFINE e == at - 1
  <2>1. e \in Nat /\ e <= Len(s) /\ A = SubSeq(s, 1, e) /\ 1 \in Nat \ {0}
    BY <1>5 DEF A
  <2> HIDE DEF e
  <2>2. /\ A \in Seq(Nat) /\ Sorted(A) /\ Elems(A) = {s[j] : j \in 1 .. e}
        /\ Len(A) = IF 1 <= e THEN e - 1 + 1 ELSE 0
    BY <1>3, <2>1, SortedPart
  <2>3. Len(A) = e
    BY <2>1, <2>2
  <2> QED
    BY <2>2, <2>3 DEF e
<1>7. /\ B \in Seq(Nat) /\ Sorted(B) /\ Elems(B) = {s[j] : j \in at .. Len(s)}
      /\ Len(B) = Len(s) - at + 1
  <2>1. Len(s) <= Len(s)
    BY <1>3
  <2>2. /\ B \in Seq(Nat) /\ Sorted(B) /\ Elems(B) = {s[j] : j \in at .. Len(s)}
        /\ Len(B) = IF at <= Len(s) THEN Len(s) - at + 1 ELSE 0
    BY <1>3, <1>5, <2>1, SortedPart DEF B
  <2> QED
    BY <1>3, <1>5, <2>2
<1>8. P \in Seq(Nat) /\ Sorted(P) /\ Elems(P) = Run(b, n) /\ Len(P) = n
  BY PagesSorted DEF P
<1>9. \A x \in Elems(A) : x \in Nat /\ x < b
  <2> SUFFICES ASSUME NEW j \in 1 .. at - 1 PROVE s[j] \in Nat /\ s[j] < b
    BY <1>6
  <2>1. j \in 1 .. Len(s) /\ j < at
    BY <1>3, <1>5
  <2> QED
    BY <1>2, <1>3, <2>1
<1>10. \A y \in Elems(B) : y \in Nat /\ y >= b + n
  <2> SUFFICES ASSUME NEW j \in at .. Len(s) PROVE s[j] \in Nat /\ s[j] >= b + n
    BY <1>7
  <2>1. j \in 1 .. Len(s) /\ j >= at
    BY <1>3, <1>5
  <2>2. s[j] \in Nat /\ s[j] \in IsFree /\ s[j] > b
    BY <1>2, <1>3, <2>1
  <2>3. s[j] \notin Run(b, n)
    BY <2>2
  <2> QED
    BY <2>2, <2>3 DEF Run
<1>11. \A z \in Elems(P) : z \in Nat /\ z >= b /\ z < b + n
  BY <1>8 DEF Run
<1> DEFINE AP == A \o P
<1>12. /\ AP \in Seq(Nat) /\ Sorted(AP) /\ Elems(AP) = Elems(A) \cup Elems(P)
       /\ Len(AP) = Len(A) + Len(P)
  <2>1. \A x \in Elems(A), y \in Elems(P) : x < y
    BY <1>9, <1>11
  <2> QED
    BY <1>6, <1>8, <2>1, SortedConcat
<1>13. c = AP \o B
  BY <1>4
<1> HIDE DEF AP
<1>14. /\ c \in Seq(Nat) /\ Sorted(c) /\ Elems(c) = Elems(AP) \cup Elems(B)
       /\ Len(c) = Len(AP) + Len(B)
  <2>1. \A x \in Elems(AP), y \in Elems(B) : x < y
    <3> SUFFICES ASSUME NEW x \in Elems(AP), NEW y \in Elems(B) PROVE x < y
      OBVIOUS
    <3>1. x \in Nat /\ x < b + n
      <4>1. x \in Elems(A) \/ x \in Elems(P)
        BY <1>12
      <4> QED
        BY <1>9, <1>11, <4>1
    <3>2. y \in Nat /\ y >= b + n
      BY <1>10
    <3> QED
      BY <3>1, <3>2
  <2> QED
    BY <1>7, <1>12, <1>13, <2>1, SortedConcat
<1>15. Elems(A) \cup Elems(B) = IsFree
  <2>1. \A j \in 1 .. Len(s) : j \in 1 .. at - 1 \/ j \in at .. Len(s)
    BY <1>3, <1>5
  <2>2. \A j \in 1 .. at - 1 : j \in 1 .. Len(s)
    BY <1>3, <1>5
  <2>3. \A j \in at .. Len(s) : j \in 1 .. Len(s)
    BY <1>3, <1>5
  <2>4. ASSUME NEW x \in Elems(A) \cup Elems(B) PROVE x \in IsFree
    BY <1>3, <1>6, <1>7, <2>2, <2>3
  <2>5. ASSUME NEW x \in IsFree PROVE x \in Elems(A) \cup Elems(B)
    <3>1. PICK j \in 1 .. Len(s) : x = s[j]
      BY <1>3
    <3> QED
      BY <1>6, <1>7, <2>1, <3>1
  <2> QED
    BY <2>4, <2>5
<1>16. Elems(c) = IsFree \cup Run(b, n)
  BY <1>8, <1>12, <1>14, <1>15
<1>17. Len(c) = Len(s) + n
  <2>1. Len(c) = (at - 1) + n + (Len(s) - at + 1)
    BY <1>6, <1>7, <1>8, <1>12, <1>14
  <2> DEFINE l == Len(s)
             k == Len(c)
  <2>2. l \in Nat /\ at \in Nat /\ k = (at - 1) + n + (l - at + 1)
    BY <1>3, <1>5, <2>1
  <2> HIDE DEF l, k
  <2>3. k = l + n
    BY <2>2
  <2> QED
    BY <2>3 DEF l, k
<1> QED
  BY <1>14, <1>16, <1>17 DEF s

\* The pages on both sides of the block are free when the entries on both
\* sides of its place say so.
LEMMA Neighbours ==
  ASSUME IInv, NEW b \in Nat, NEW n \in Nat, 0 < n, Run(b, n) \cap IsFree = {}
  PROVE  /\ b + n \in IsFree <=> /\ Place(b) <= Len(free_list)
                                 /\ free_list[Place(b)] = b + n
         /\ b - 1 \in IsFree <=> Place(b) > 1 /\ free_list[Place(b) - 1] = b - 1
<1> DEFINE s == free_list
           at == Place(b)
<1>1. b \in Run(b, n) /\ b \notin IsFree
  <2>1. b \in Run(b, n)
    BY DEF Run
  <2> QED
    BY <2>1
<1>2. /\ at \in 1 .. Len(s) + 1
      /\ \A j \in 1 .. Len(s) : (j < at => s[j] < b) /\ (j >= at => s[j] > b)
  BY <1>1, PlaceIsBetween
<1>3. /\ Len(s) \in Nat /\ Sorted(s)
      /\ \A j \in 1 .. Len(s) : s[j] \in IsFree /\ s[j] \in Nat
      /\ \A x \in IsFree : \E j \in 1 .. Len(s) : x = s[j]
  BY InvFacts DEF IInv
<1> HIDE DEF s, at
<1>4. at <= Len(s) => at \in 1 .. Len(s)
  BY <1>2, <1>3
<1>5. at > 1 => at - 1 \in 1 .. Len(s)
  BY <1>2, <1>3
<1>6. ASSUME b + n \in IsFree PROVE at <= Len(s) /\ s[at] = b + n
  <2>1. PICK j \in 1 .. Len(s) : b + n = s[j]
    BY <1>3, <1>6
  <2>2. j >= at
    <3>1. ~ (s[j] < b)
      BY <2>1
    <3> QED
      BY <1>2, <3>1
  <2>3. at \in 1 .. Len(s)
    BY <1>2, <1>3, <2>2
  <2>4. s[at] > b /\ s[at] \in Nat /\ s[at] \in IsFree
    <3>1. at >= at
      BY <2>3
    <3> QED
      BY <1>2, <1>3, <2>3, <3>1
  <2>5. s[at] \notin Run(b, n)
    BY <2>4
  <2>6. s[at] >= b + n
    BY <2>4, <2>5 DEF Run
  <2>7. at < j => s[at] < s[j]
    BY <1>3, <2>3 DEF Sorted
  <2>8. at = j
    <3>1. ~ (at < j)
      BY <2>1, <2>4, <2>6, <2>7
    <3> QED
      BY <1>3, <2>2, <2>3, <3>1
  <2> QED
    BY <2>1, <2>3, <2>8
<1>7. ASSUME b - 1 \in IsFree PROVE at > 1 /\ s[at - 1] = b - 1
  <2>1. PICK j \in 1 .. Len(s) : b - 1 = s[j]
    BY <1>3, <1>7
  <2>2. j < at
    <3>1. ~ (s[j] > b)
      BY <2>1
    <3>2. ~ (j >= at)
      BY <1>2, <3>1
    <3> QED
      BY <1>2, <1>3, <3>2
  <2>3. at > 1 /\ at - 1 \in 1 .. Len(s) /\ at - 1 < at
    BY <1>2, <1>3, <2>2
  <2>4. s[at - 1] < b /\ s[at - 1] \in Nat
    BY <1>2, <1>3, <2>3
  <2>5. j < at - 1 => s[j] < s[at - 1]
    BY <1>3, <2>3 DEF Sorted
  <2>6. j = at - 1
    <3>1. ~ (j < at - 1)
      BY <2>1, <2>4, <2>5
    <3>2. at \in Nat /\ j \in Nat
      BY <1>2, <1>3
    <3> QED
      BY <2>2, <3>1, <3>2
  <2> QED
    BY <2>1, <2>3, <2>6
<1>8. at <= Len(s) /\ s[at] = b + n => b + n \in IsFree
  BY <1>3, <1>4
<1>9. at > 1 /\ s[at - 1] = b - 1 => b - 1 \in IsFree
  BY <1>3, <1>5
<1> QED
  BY <1>6, <1>7, <1>8, <1>9 DEF s, at

\* The sizes after both merges.
FreedSizes(b, n) ==
  MergePrev(MergeNext([property EXCEPT ![b] = n], b, n, Place(b)), b, Place(b))

\* A block of pages in use, as default_free_pages gets it.
ComesBack(b, n) ==
  /\ b \in Page /\ n \in Nat /\ 0 < n
  /\ Run(b, n) \cap IsFree = {} /\ Run(b, n) \subseteq Page
  /\ \A k \in Run(b + 1, n - 1) : property[k] = 0

\* The sizes default_free_pages leaves, after it joined the block with the
\* runs next to it, tell the longest runs again.
LEMMA FreeSizes ==
  ASSUME IInv, NEW b, NEW n, ComesBack(b, n), NEW g, g = FreedSizes(b, n)
  PROVE  /\ Sized(g, IsFree \cup Run(b, n)) /\ g \in [Page -> 0 .. npage]
         /\ \A q \in Page : q \notin IsFree \cup Run(b, n) => g[q] = property[q]
<1> USE DEF ComesBack
<1> DEFINE s == free_list
           at == Place(b)
           F == IsFree
           f == property
           start == [property EXCEPT ![b] = n]
           sizes == MergeNext(start, b, n, at)
           m == n + (IF b + n \in F THEN f[b + n] ELSE 0)
           heads == {j \in 1 .. at - 1 : sizes[s[j]] # 0}
           h == s[Max(heads)]
<1>1. /\ b \in Nat /\ b \in Run(b, n) /\ b \notin F
      /\ f \in [Page -> 0 .. npage] /\ F \subseteq Page /\ F \in SUBSET Nat
      /\ \A x \in F : f[x] \in Nat
      /\ Sized(f, F) /\ npage \in Nat
  <2>1. b \in Nat /\ npage \in Nat
    BY PagesAreNumbers
  <2>2. b \in Run(b, n)
    BY <2>1 DEF Run
  <2> QED
    BY <2>1, <2>2, InvFacts DEF IInv, TypeOK
<1>2. /\ at \in 1 .. Len(s) + 1
      /\ \A j \in 1 .. Len(s) : (j < at => s[j] < b) /\ (j >= at => s[j] > b)
  BY <1>1, PlaceIsBetween
<1>3. /\ b + n \in F <=> at <= Len(s) /\ s[at] = b + n
      /\ b - 1 \in F <=> at > 1 /\ s[at - 1] = b - 1
  BY <1>1, Neighbours
<1>4. /\ s \in Seq(Nat) /\ Len(s) \in Nat /\ Sorted(s) /\ Elems(s) = F
      /\ \A j \in 1 .. Len(s) : s[j] \in F /\ s[j] \in Nat
  BY InvFacts DEF IInv, IsFree
<1>5. /\ start[b] = n
      /\ \A q \in Page : q # b => start[q] = f[q]
      /\ DOMAIN start = Page
  BY <1>1
<1>6. sizes = IF b + n \in F THEN [start EXCEPT ![b] = n + start[b + n], ![b + n] = 0]
              ELSE start
  BY <1>3 DEF MergeNext
<1>7. g = IF b - 1 \in F /\ heads # {}
          THEN [sizes EXCEPT ![h] = sizes[h] + sizes[b], ![b] = 0] ELSE sizes
  BY <1>3 DEF MergePrev, FreedSizes
<1> HIDE DEF start
<1>8. b + n # b /\ b + n # b - 1
  BY <1>1
<1>9. /\ DOMAIN sizes = Page /\ sizes[b] = m
      /\ b + n \in F => sizes[b + n] = 0
      /\ \A q \in Page : q # b /\ q # b + n => sizes[q] = f[q]
      /\ b + n \notin F => \A q \in Page : q # b => sizes[q] = f[q]
  <2>1. CASE b + n \in F
    <3>1. sizes = [start EXCEPT ![b] = n + start[b + n], ![b + n] = 0]
      BY <1>6, <2>1
    <3>2. b + n \in Page /\ start[b + n] = f[b + n] /\ m = n + f[b + n]
      BY <1>1, <1>5, <1>8, <2>1
    <3> HIDE DEF sizes, f, m
    <3> QED
      BY <1>5, <1>8, <2>1, <3>1, <3>2
  <2>2. CASE b + n \notin F
    <3>1. sizes = start
      BY <1>6, <2>2
    <3>2. m = n
      BY <2>2
    <3> HIDE DEF sizes, f, m
    <3> QED
      BY <1>5, <2>2, <3>1, <3>2
  <2> QED
    BY <2>1, <2>2
<1> HIDE DEF sizes
<1>10. heads = {j \in 1 .. at - 1 : f[s[j]] # 0}
  <2>1. ASSUME NEW j \in 1 .. at - 1 PROVE sizes[s[j]] = f[s[j]]
    <3>1. j \in 1 .. Len(s) /\ j < at
      BY <1>2, <1>4
    <3>2. s[j] < b /\ s[j] \in Nat /\ s[j] \in Page
      BY <1>1, <1>2, <1>4, <3>1
    <3>3. s[j] # b /\ s[j] # b + n
      BY <1>1, <3>2
    <3> HIDE DEF s, f
    <3> QED
      BY <1>9, <3>2, <3>3
  <2> QED
    BY <2>1
<1> HIDE DEF s, at, heads, f, F
<1>11. ASSUME b - 1 \in F
       PROVE  /\ heads # {} /\ h \in F /\ h - 1 \notin F /\ h + f[h] = b
  <2>1. /\ at \in 2 .. Len(s) + 1 /\ s[at - 1] = b - 1
        /\ \A j \in at .. Len(s) : s[j] > b
    <3>1. at > 1 /\ s[at - 1] = b - 1
      BY <1>3, <1>11
    <3>2. \A j \in at .. Len(s) : j \in 1 .. Len(s) /\ j >= at
      BY <1>2, <1>4
    <3> QED
      BY <1>2, <1>4, <3>1, <3>2
  <2>2. /\ s \in Seq(Nat) /\ Sorted(s) /\ \A x \in Elems(s) : f[x] \in Nat
        /\ Sized(f, Elems(s)) /\ b \in Nat /\ b \notin Elems(s)
        /\ heads = {j \in 1 .. at - 1 : f[s[j]] # 0}
    BY <1>1, <1>4, <1>10
  <2>4. Walks(s, f, b, at, heads)
    BY <2>1, <2>2 DEF Walks
  <2>3. /\ heads # {} /\ Max(heads) \in 1 .. at - 1
        /\ s[Max(heads)] \in Elems(s) /\ s[Max(heads)] - 1 \notin Elems(s)
        /\ s[Max(heads)] + f[s[Max(heads)]] = b
    BY <2>2, <2>4, WalkBack
  <2> QED
    BY <1>4, <2>3
<1> HIDE DEF h
<1>12. b - 1 \in F => h \in Nat /\ h \in Page /\ h # b /\ h # b + n /\ h < b
  <2> SUFFICES ASSUME b - 1 \in F
               PROVE  h \in Nat /\ h \in Page /\ h # b /\ h # b + n /\ h < b
    OBVIOUS
  <2>1. h \in F /\ h \in Nat /\ h \in Page /\ f[h] \in Nat /\ h + f[h] = b /\ h # b
    BY <1>1, <1>11
  <2> QED
    BY <1>1, <2>1
<1>13. /\ DOMAIN g = Page
       /\ g[b] = IF b - 1 \in F THEN 0 ELSE m
       /\ b - 1 \in F => g[h] = f[h] + m
       /\ \A q \in Page : q # b /\ (b - 1 \in F => q # h) => g[q] = sizes[q]
  <2> HIDE DEF m
  <2>1. CASE b - 1 \in F
    <3>1. g = [sizes EXCEPT ![h] = sizes[h] + sizes[b], ![b] = 0]
      BY <1>7, <1>11, <2>1
    <3>2. sizes[h] = f[h] /\ sizes[b] = m
      BY <1>9, <1>12, <2>1
    <3> QED
      BY <1>9, <1>12, <2>1, <3>1, <3>2
  <2>2. CASE b - 1 \notin F
    <3>1. g = sizes
      BY <1>7, <2>2
    <3> QED
      BY <1>9, <2>2, <3>1
  <2> QED
    BY <2>1, <2>2
<1>14. /\ b + n \in F => g[b + n] = 0
       /\ \A q \in F : q # b + n /\ (b - 1 \in F => q # h) => g[q] = f[q]
       /\ \A k \in Run(b + 1, n - 1) : g[k] = 0
       /\ \A q \in Page : q \notin F \cup Run(b, n) => g[q] = f[q]
  <2> HIDE DEF m
  <2>1. ASSUME b + n \in F PROVE g[b + n] = 0
    <3>1. b + n \in Page /\ b + n # b /\ (b - 1 \in F => b + n # h)
      BY <1>1, <1>8, <1>12, <2>1
    <3>2. g[b + n] = sizes[b + n]
      BY <1>13, <3>1
    <3> QED
      BY <1>9, <2>1, <3>2
  <2>2. ASSUME NEW q \in F, q # b + n, b - 1 \in F => q # h PROVE g[q] = f[q]
    <3>1. q \in Page /\ q # b
      BY <1>1
    <3> QED
      BY <1>9, <1>13, <2>2, <3>1
  <2>3. ASSUME NEW q \in Page, q # b, q # b + n, q \notin F PROVE g[q] = f[q]
    <3>1. b - 1 \in F => q # h
      BY <1>11, <2>3
    <3> QED
      BY <1>9, <1>13, <2>3, <3>1
  <2>4. ASSUME NEW k \in Run(b + 1, n - 1) PROVE g[k] = 0
    <3>1. k \in Run(b, n) /\ k # b /\ k # b + n
      BY <1>1 DEF Run
    <3>2. k \in Page /\ k \notin F
      BY <3>1 DEF F
    <3>3. g[k] = f[k]
      BY <2>3, <3>1, <3>2
    <3> QED
      BY <3>3 DEF f
  <2>5. ASSUME NEW q \in Page, q \notin F \cup Run(b, n) PROVE g[q] = f[q]
    <3>1. CASE q = b + n
      <4>1. b + n \notin F
        BY <2>5, <3>1
      <4>2. q # b /\ (b - 1 \in F => q # h)
        BY <1>8, <1>12, <3>1
      <4> QED
        BY <1>9, <1>13, <4>1, <4>2
    <3>2. CASE q # b + n
      BY <1>1, <2>3, <2>5, <3>2
    <3> QED
      BY <3>1, <3>2
  <2> QED
    BY <2>1, <2>2, <2>4, <2>5
<1>15. Sized(g, F \cup Run(b, n)) /\ m \in Nat /\ Run(b, m) \subseteq F \cup Run(b, n)
  <2>1. m = n + (IF b + n \in F THEN f[b + n] ELSE 0)
    OBVIOUS
  <2> HIDE DEF m
  <2>2. /\ F \in SUBSET Nat /\ \A x \in F : f[x] \in Nat
        /\ Sized(f, F) /\ b \in Nat /\ Run(b, n) \cap F = {}
        /\ b - 1 \in F => h \in F /\ h - 1 \notin F /\ h + f[h] = b
        /\ \A k \in Run(b + 1, n - 1) : g[k] = 0
        /\ g[b] = IF b - 1 \in F THEN 0 ELSE m
        /\ b - 1 \in F => g[h] = f[h] + m
        /\ b + n \in F => g[b + n] = 0
        /\ \A q \in F : q # b + n /\ (b - 1 \in F => q # h) => g[q] = f[q]
    BY <1>1, <1>11, <1>13, <1>14 DEF F
  <2>3. Joins(f, F, b, n, m, h, g)
    BY <2>1, <2>2 DEF Joins
  <2> QED
    BY <2>2, <2>3, SizedAfterJoin
<1> DEFINE G == F \cup Run(b, n)
<1>16. G \subseteq Page
  BY <1>1
<1>17. \A x \in G : g[x] \in Nat
  <2> SUFFICES ASSUME NEW x \in G PROVE g[x] \in Nat
    OBVIOUS
  <2>1. CASE x = b
    BY <1>13, <1>15, <2>1
  <2>2. CASE b - 1 \in F /\ x = h
    <3>1. f[h] \in Nat /\ g[h] = f[h] + m
      BY <1>1, <1>11, <1>13, <2>2
    <3> QED
      BY <1>15, <2>2, <3>1
  <2>3. CASE x = b + n /\ x \in F
    <3>1. g[b + n] = 0
      BY <1>14, <2>3
    <3> QED
      BY <2>3, <3>1
  <2>4. CASE x \in Run(b + 1, n - 1)
    BY <1>14, <2>4
  <2>5. CASE x \in F /\ x # b + n /\ (b - 1 \in F => x # h)
    <3> HIDE DEF m
    <3> QED
      BY <1>1, <1>14, <2>5
  <2>6. x \in F \/ x = b \/ x \in Run(b + 1, n - 1)
    BY <1>1 DEF Run
  <2> HIDE DEF m, G
  <2> QED
    BY <2>1, <2>2, <2>3, <2>4, <2>5, <2>6
<1>18. \A x \in G : g[x] \in 0 .. npage
  <2> HIDE DEF G
  <2>1. Sized(g, G)
    BY <1>15 DEF G
  <2> QED
    BY <1>16, <1>17, <2>1, SizesFit
<1>19. g \in [Page -> 0 .. npage]
  <2>1. \A q \in Page : g[q] \in 0 .. npage
    BY <1>1, <1>14, <1>18
  <2>2. g = [q \in Page |-> g[q]]
    <3> HIDE DEF m
    <3>1. CASE b - 1 \in F
      BY <1>7, <1>9, <1>11, <3>1
    <3>2. CASE b - 1 \notin F
      <4>1. g = sizes
        BY <1>7, <3>2
      <4>2. CASE b + n \in F
        <5>1. sizes = [start EXCEPT ![b] = n + start[b + n], ![b + n] = 0]
          BY <1>6, <4>2 
        <5> QED
          BY <1>5, <4>1, <5>1
      <4>3. CASE b + n \notin F
        <5>1. sizes = start
          BY <1>6, <4>3
        <5> QED
          BY <4>1, <5>1, <1>1 DEF start, f
      <4> QED
        BY <4>2, <4>3
    <3> QED
      BY <3>1, <3>2
  <2> QED
    BY <2>1, <2>2
<1> QED
  BY <1>14, <1>15, <1>19 DEF F, f

\* default_free_pages keeps the invariant and returns just the pages of the
\* block.
LEMMA FreeStep ==
  ASSUME IInv, NEW block \in held, Free(block[1], block[2])
  PROVE  IInv' /\ IsFree' = IsFree \cup Run(block[1], block[2]) /\ held' = held \ {block}
<1> DEFINE b == block[1]
           n == block[2]
           others == held \ {block}
<1>1. held \subseteq Page \X (1 .. npage) /\ reserved \subseteq Page /\ npage \in Nat
  BY PagesAreNumbers DEF IInv, TypeOK
<1>2. b \in Page /\ n \in 1 .. npage /\ block = <<b, n>>
  BY <1>1
<1> HIDE DEF b, n
<1>3. b \in Nat /\ n \in Nat /\ 0 < n
  BY <1>1, <1>2, PagesAreNumbers
<1>4. Run(b, n) \cap IsFree = {} /\ Run(b, n) \subseteq Usable
  BY <1>2, InvFacts DEF b, n
<1>5. Usable \subseteq Page
  BY MemoryAssumption DEF Usable
<1>6. \A c \in others : Run(c[1], c[2]) \cap Run(b, n) = {}
  BY DEF IInv, EveryPageOnce, b, n
<1>7. \A k \in Run(b + 1, n - 1) : property[k] = 0
  BY DEF IInv, b, n
<1>8. /\ free_list' = SubSeq(free_list, 1, Place(b) - 1) \o Pages(b, n)
                      \o SubSeq(free_list, Place(b), Len(free_list))
      /\ property' = FreedSizes(b, n)
      /\ reserved' = reserved \ {b}
      /\ nr_free' = nr_free + n
      /\ held' = others
  BY <1>2 DEF Free, FreedSizes, b, n
<1>9. /\ free_list' \in Seq(Nat) /\ Sorted(free_list')
      /\ Elems(free_list') = IsFree \cup Run(b, n)
      /\ Len(free_list') = Len(free_list) + n
  BY <1>3, <1>4, <1>8, FreeLists
<1>10. IsFree' = IsFree \cup Run(b, n)
  BY <1>9 DEF IsFree
<1>11. /\ Sized(property', IsFree') /\ property' \in [Page -> 0 .. npage]
       /\ \A q \in Page : q \notin IsFree' => property'[q] = property[q]
  <2>1. Run(b, n) \subseteq Page
    BY <1>4, <1>5
  <2> DEFINE g == property'
  <2>2. g = FreedSizes(b, n)
    BY <1>8
  <2> HIDE DEF g
  <2>3. /\ Sized(g, IsFree \cup Run(b, n)) /\ g \in [Page -> 0 .. npage]
        /\ \A q \in Page : q \notin IsFree \cup Run(b, n) => g[q] = property[q]
    <3>1. ComesBack(b, n)
      BY <1>2, <1>3, <1>4, <1>7, <2>1 DEF ComesBack
    <3> QED
      BY <2>2, <3>1, FreeSizes
  <2> QED
    BY <1>10, <2>3 DEF g
<1>12. IsFree' \subseteq Page
  BY <1>4, <1>5, <1>10, InvFacts
<1>13. free_list' \in Seq(Page) /\ Len(free_list') \in Nat
  BY <1>9, <1>10, <1>12, SeqOfPages DEF IsFree
<1>14. nr_free' = Len(free_list') /\ nr_free' \in 0 .. npage
  <2>1. nr_free = Len(free_list)
    BY DEF IInv, NrFreeCounts
  <2>2. nr_free' = Len(free_list')
    BY <1>8, <1>9, <2>1
  <2>3. Len(free_list') <= npage
    <3> DEFINE s == free_list'
    <3>1. \A i \in 1 .. Len(s) : s[i] < npage
      <4>1. \A i \in 1 .. Len(s) : s[i] \in Page
        BY <1>13
      <4> QED
        BY <1>1, <4>1 DEF Page
    <3>2. s \in Seq(Nat) /\ Sorted(s)
      BY <1>9
    <3> HIDE DEF s
    <3>3. Len(s) <= npage
      BY <1>1, <3>1, <3>2, SortedIsShort
    <3> QED
      BY <3>3 DEF s
  <2> QED
    BY <1>1, <1>13, <2>2, <2>3
<1>15. TypeOK'
  BY <1>1, <1>8, <1>11, <1>13, <1>14 DEF TypeOK
<1>16. EveryPageOnce'
  <2>1. ToSet(free_list)' = IsFree'
    BY <1>13 DEF ToSet, IsFree, Elems
  <2>2. \A i, j \in 1 .. Len(free_list') : free_list'[i] = free_list'[j] => i = j
    <3> SUFFICES ASSUME NEW i \in 1 .. Len(free_list'), NEW j \in 1 .. Len(free_list'),
                        free_list'[i] = free_list'[j]
                 PROVE  i = j
      OBVIOUS
    <3>1. free_list'[i] \in Nat /\ free_list'[j] \in Nat
      BY <1>9
    <3>2. (i < j => free_list'[i] < free_list'[j]) /\ (j < i => free_list'[j] < free_list'[i])
      BY <1>9 DEF Sorted
    <3> QED
      BY <1>13, <3>1, <3>2
  <2>3. \A x, y \in held' : Run(x[1], x[2]) \cap Run(y[1], y[2]) # {} => x = y
    <3>1. \A x, y \in held : Run(x[1], x[2]) \cap Run(y[1], y[2]) # {} => x = y
      BY DEF IInv, EveryPageOnce
    <3> QED
      BY <1>8, <3>1
  <2>4. \A x \in held' : Run(x[1], x[2]) \cap IsFree' = {}
    <3>1. \A x \in held : Run(x[1], x[2]) \cap IsFree = {}
      BY InvFacts
    <3> QED
      BY <1>6, <1>8, <1>10, <3>1
  <2>5. IsFree' \cup UNION {Run(x[1], x[2]) : x \in held'} = Usable
    <3>1. ASSUME NEW p \in Usable
          PROVE  p \in IsFree' \cup UNION {Run(x[1], x[2]) : x \in held'}
      <4>1. p \in IsFree \/ \E x \in held : p \in Run(x[1], x[2])
        BY InvFacts
      <4>2. ASSUME NEW x \in held, p \in Run(x[1], x[2])
            PROVE  p \in Run(b, n) \/ x \in held'
        BY <1>8, <4>2 DEF b, n
      <4> QED
        BY <1>10, <4>1, <4>2
    <3>2. ASSUME NEW p \in IsFree' \cup UNION {Run(x[1], x[2]) : x \in held'}
          PROVE  p \in Usable
      <4>1. p \in IsFree \/ p \in Run(b, n) \/ \E x \in held : p \in Run(x[1], x[2])
        BY <1>8, <1>10
      <4> QED
        BY <1>4, <4>1, InvFacts
    <3> QED
      BY <3>1, <3>2
  <2> QED
    BY <2>1, <2>2, <2>3, <2>4, <2>5 DEF EveryPageOnce
<1>17. \A c \in held' : \A q \in Run(c[1] + 1, c[2] - 1) : property'[q] = 0
  <2> SUFFICES ASSUME NEW c \in held', NEW q \in Run(c[1] + 1, c[2] - 1)
               PROVE  property'[q] = 0
    OBVIOUS
  <2>1. c \in held /\ c \in others /\ c[1] \in Page /\ c[2] \in 1 .. npage
    BY <1>1, <1>8
  <2>2. property[q] = 0
    <3>1. \A x \in held : \A y \in Run(x[1] + 1, x[2] - 1) : property[y] = 0
      BY DEF IInv
    <3> QED
      BY <2>1, <3>1
  <2>3. q \in Run(c[1], c[2])
    <3>1. c[1] \in Nat
      BY <2>1, PagesAreNumbers
    <3>2. c[2] \in Nat
      BY <1>1, <2>1
    <3> QED
      BY <3>1, <3>2 DEF Run
  <2>4. q \notin IsFree'
    <3>1. Run(c[1], c[2]) \cap IsFree = {} /\ Run(c[1], c[2]) \cap Run(b, n) = {}
      BY <1>6, <2>1, InvFacts
    <3> QED
      BY <1>10, <2>3, <3>1
  <2>5. q \in Page
    <3>1. q \in Usable
      BY <2>1, <2>3, InvFacts
    <3> QED
      BY <1>5, <3>1
  <2> QED
    BY <1>11, <2>2, <2>4, <2>5
<1>18. HeldIsReserved'
  <2>1. \A c \in held : Run(c[1], c[2]) \subseteq reserved
    BY DEF IInv, HeldIsReserved
  <2>2. b \in Run(b, n)
    BY <1>3 DEF Run
  <2>3. \A c \in held' : c \in held /\ b \notin Run(c[1], c[2])
    BY <1>6, <1>8, <2>2
  <2> QED
    BY <1>8, <2>1, <2>3 DEF HeldIsReserved
<1>19. NrFreeCounts'
  BY <1>14 DEF NrFreeCounts
<1>20. Sorted(free_list)' /\ Sized(property, IsFree)'
  BY <1>9, <1>11
<1>21. IInv'
  BY <1>15, <1>16, <1>17, <1>18, <1>19, <1>20 DEF IInv
<1> QED
  BY <1>8, <1>10, <1>21 DEF b, n

----------------------------------------------------------------------------
(* page_init                                                               *)

\* FlattenSeq can go on as long as it takes.
LEMMA FlattenRuns ==
  ASSUME NEW blocks, NEW N \in Nat
  PROVE  \E f : f = [i \in 1 .. N |-> IF i = 1 THEN blocks[i] ELSE f[i - 1] \o blocks[i]]
<1> DEFINE F(f, k) == [i \in 1 .. k |-> IF i = 1 THEN blocks[i] ELSE f[i - 1] \o blocks[i]]
           Bad == {k \in Nat : ~ \E f : f = F(f, k)}
<1>1. Bad = {}
  <2> SUFFICES ASSUME Bad # {}
               PROVE  FALSE
    OBVIOUS
  <2>1. PICK k \in Bad : \A j \in Bad : k <= j
    <3>1. Bad \in SUBSET Nat
      OBVIOUS
    <3> HIDE DEF Bad
    <3> QED
      BY <3>1, LeastOf
  <2>2. k \in Nat /\ ~ \E f : f = F(f, k)
    BY <2>1
  <2>3. k # 0
    <3> DEFINE f == [i \in 1 .. 0 |-> blocks[i]]
    <3>1. f = F(f, 0)
      OBVIOUS
    <3> HIDE DEF f
    <3> QED
      BY <2>2, <3>1
  <2>4. k - 1 \in Nat /\ k - 1 \notin Bad
    <3> HIDE DEF Bad
    <3> QED
      BY <2>1, <2>2, <2>3
  <2>5. PICK f : f = F(f, k - 1)
    BY <2>4
  <2> DEFINE R(g, i) == IF i = 1 THEN blocks[i] ELSE g[i - 1] \o blocks[i]
             g == [i \in 1 .. k |-> IF i = k THEN R(f, i) ELSE f[i]]
  <2>6. ASSUME NEW i \in 1 .. k
        PROVE  g[i] = R(g, i)
    <3>1. i # 1 => i - 1 \in 1 .. k /\ i - 1 # k
      BY <2>2
    <3>2. CASE i = k
      <4>1. i # 1 => g[i - 1] = f[i - 1]
        BY <3>1
      <4>2. g[i] = R(f, i)
        BY <3>2
      <4> HIDE DEF g
      <4> QED
        BY <4>1, <4>2
    <3>3. CASE i # k
      <4>1. i \in 1 .. k - 1
        BY <2>2, <3>3
      <4>2. f[i] = R(f, i)
        BY <2>5, <4>1
      <4>3. i # 1 => g[i - 1] = f[i - 1]
        BY <3>1
      <4>4. g[i] = f[i]
        BY <3>3
      <4> HIDE DEF g
      <4> QED
        BY <4>2, <4>3, <4>4
    <3> QED
      BY <3>2, <3>3
  <2>7. g = F(g, k)
    BY <2>6
  <2> HIDE DEF g
  <2> QED
    BY <2>2, <2>7
<1>2. \E f : f = F(f, N)
  BY <1>1
<1> QED
  BY <1>2

\* The regions one after the other, as pages.
Blocks == [i \in 1 .. Len(Regions) |-> Pages(Regions[i][1], Regions[i][2])]

\* What the memory map says of a region.
LEMMA RegionFacts ==
  /\ Len(Regions) \in Nat
  /\ \A i \in 1 .. Len(Regions) :
       /\ Regions[i][1] \in Nat /\ Regions[i][2] \in Nat /\ Regions[i][2] > 0
       /\ Regions[i] \in Page \X (Nat \ {0})
       /\ Run(Regions[i][1], Regions[i][2]) \subseteq Usable
       /\ Regions[i][1] \in Run(Regions[i][1], Regions[i][2])
  /\ \A i, j \in 1 .. Len(Regions) : i < j => Regions[i][1] + Regions[i][2] < Regions[j][1]
  /\ \A p \in Usable : \E i \in 1 .. Len(Regions) : p \in Run(Regions[i][1], Regions[i][2])
  /\ Usable \subseteq Page
<1>1. /\ Len(Regions) \in Nat
      /\ \A i \in 1 .. Len(Regions) : Regions[i] \in Page \X (Nat \ {0})
  BY MemoryAssumption
<1>2. \A i, j \in 1 .. Len(Regions) : i < j => Regions[i][1] + Regions[i][2] < Regions[j][1]
  BY MemoryAssumption
<1>3. \A i \in 1 .. Len(Regions) : Run(Regions[i][1], Regions[i][2]) \subseteq Page
  BY MemoryAssumption DEF RegionPages
<1>4. /\ \A p \in Usable : \E i \in 1 .. Len(Regions) : p \in Run(Regions[i][1], Regions[i][2])
      /\ \A i \in 1 .. Len(Regions) : Run(Regions[i][1], Regions[i][2]) \subseteq Usable
  BY DEF Usable, RegionPages
<1>5. ASSUME NEW i \in 1 .. Len(Regions)
      PROVE  /\ Regions[i][1] \in Nat /\ Regions[i][2] \in Nat /\ Regions[i][2] > 0
             /\ Regions[i][1] \in Run(Regions[i][1], Regions[i][2])
  <2>1. Regions[i][1] \in Nat
    BY <1>1, PagesAreNumbers
  <2>2. Regions[i][2] \in Nat \ {0}
    BY <1>1
  <2> QED
    BY <2>1, <2>2 DEF Run
<1>6. Usable \subseteq Page
  BY <1>3, <1>4
<1> QED
  BY <1>1, <1>2, <1>4, <1>5, <1>6

\* init_memmap of one region after the other makes a sorted list of them all.
LEMMA FlatBlocks ==
  ASSUME NEW s, s = FlattenSeq(Blocks)
  PROVE  s \in Seq(Nat) /\ Sorted(s) /\ Elems(s) = Usable
<1> DEFINE N == Len(Regions)
           First(i) == UNION {Run(Regions[j][1], Regions[j][2]) : j \in 1 .. i}
<1>1. N \in Nat /\ Len(Blocks) = N
  BY RegionFacts DEF Blocks
<1>2. \A i \in 1 .. N :
        /\ Blocks[i] \in Seq(Nat) /\ Sorted(Blocks[i])
        /\ Elems(Blocks[i]) = Run(Regions[i][1], Regions[i][2])
  <2> SUFFICES ASSUME NEW i \in 1 .. N
               PROVE  /\ Blocks[i] \in Seq(Nat) /\ Sorted(Blocks[i])
                      /\ Elems(Blocks[i]) = Run(Regions[i][1], Regions[i][2])
    OBVIOUS
  <2>1. Blocks[i] = Pages(Regions[i][1], Regions[i][2])
    BY DEF Blocks
  <2>2. Regions[i][1] \in Nat /\ Regions[i][2] \in Nat
    BY RegionFacts
  <2> QED
    BY <2>1, <2>2, PagesSorted
<1>3. CASE N = 0
  <2>1. s = Blocks /\ Blocks = <<>>
    BY <1>1, <1>3 DEF FlattenSeq, Blocks
  <2>2. s \in Seq(Nat) /\ Len(s) = 0
    BY <2>1
  <2>3. \A p : p \notin Usable
    BY <1>3, RegionFacts
  <2> QED
    BY <2>2, <2>3 DEF Sorted, Elems
<1>4. CASE N # 0
  <2> DEFINE F(f) == [i \in 1 .. N |-> IF i = 1 THEN Blocks[i] ELSE f[i - 1] \o Blocks[i]]
             K == CHOOSE f : f = F(f)
  <2>1. s = K[N]
    BY <1>1, <1>4 DEF FlattenSeq
  <2> HIDE DEF N
  <2>2. K = F(K)
    BY <1>1, FlattenRuns
  <2> HIDE DEF K
  <2>3. \A i \in 1 .. N : K[i] = IF i = 1 THEN Blocks[i] ELSE K[i - 1] \o Blocks[i]
    BY <2>2
  <2> DEFINE Good(i) == K[i] \in Seq(Nat) /\ Sorted(K[i]) /\ Elems(K[i]) = First(i)
             Bad == {i \in Nat : i \in 1 .. N /\ ~ Good(i)}
  <2>4. ASSUME NEW i \in 1 .. N, i # 1 => Good(i - 1) PROVE Good(i)
    <3>1. CASE i = 1
      <4>1. First(1) = Run(Regions[1][1], Regions[1][2])
        <5>1. \A j : j \in 1 .. 1 <=> j = 1
          OBVIOUS
        <5> QED
          BY <5>1
      <4>2. K[1] = Blocks[1]
        BY <2>3, <3>1
      <4> HIDE DEF First
      <4> QED
        BY <1>2, <3>1, <4>1, <4>2
    <3>2. CASE i # 1
      <4>1. i - 1 \in 1 .. N /\ Good(i - 1) /\ K[i] = K[i - 1] \o Blocks[i]
        <5>1. i - 1 \in 1 .. N
          BY <1>1, <3>2
        <5>2. K[i] = K[i - 1] \o Blocks[i]
          BY <2>3, <3>2
        <5> HIDE DEF Good
        <5> QED
          BY <2>4, <3>2, <5>1, <5>2
      <4>2. \A x \in Elems(K[i - 1]), y \in Elems(Blocks[i]) : x < y
        <5> SUFFICES ASSUME NEW x \in First(i - 1), NEW y \in Run(Regions[i][1], Regions[i][2])
                     PROVE  x < y
          BY <1>2, <4>1
        <5>1. PICK j \in 1 .. i - 1 : x \in Run(Regions[j][1], Regions[j][2])
          OBVIOUS
        <5>2. j \in 1 .. N /\ j < i
          BY <1>1
        <5>3. Regions[j][1] + Regions[j][2] < Regions[i][1]
          BY <5>2, RegionFacts DEF N
        <5>4. /\ Regions[j][1] \in Nat /\ Regions[j][2] \in Nat
              /\ Regions[i][1] \in Nat /\ Regions[i][2] \in Nat
          BY <5>2, RegionFacts DEF N
        <5> QED
          BY <5>1, <5>3, <5>4 DEF Run
      <4>3. First(i) = First(i - 1) \cup Run(Regions[i][1], Regions[i][2])
        <5>1. \A j : j \in 1 .. i <=> j \in 1 .. i - 1 \/ j = i
          BY <1>1, <3>2
        <5>2. ASSUME NEW x \in First(i)
              PROVE  x \in First(i - 1) \cup Run(Regions[i][1], Regions[i][2])
          <6>1. PICK j \in 1 .. i : x \in Run(Regions[j][1], Regions[j][2])
            OBVIOUS
          <6> QED
            BY <5>1, <6>1
        <5>3. ASSUME NEW x \in First(i - 1) PROVE x \in First(i)
          <6>1. PICK j \in 1 .. i - 1 : x \in Run(Regions[j][1], Regions[j][2])
            OBVIOUS
          <6> QED
            BY <5>1, <6>1
        <5>4. ASSUME NEW x \in Run(Regions[i][1], Regions[i][2]) PROVE x \in First(i)
          BY <5>1
        <5> QED
          BY <5>2, <5>3, <5>4
      <4> HIDE DEF First
      <4>4. Blocks[i] \in Seq(Nat) /\ Sorted(Blocks[i])
            /\ Elems(Blocks[i]) = Run(Regions[i][1], Regions[i][2])
        BY <1>2
      <4> DEFINE A == K[i - 1]
                 B == Blocks[i]
      <4>5. A \in Seq(Nat) /\ Sorted(A) /\ B \in Seq(Nat) /\ Sorted(B)
            /\ \A x \in Elems(A), y \in Elems(B) : x < y
        BY <4>1, <4>2, <4>4
      <4>6. K[i] = A \o B
        BY <4>1
      <4>7. Elems(A) = First(i - 1) /\ Elems(B) = Run(Regions[i][1], Regions[i][2])
        BY <4>1, <4>4
      <4> HIDE DEF A, B
      <4>8. K[i] \in Seq(Nat) /\ Sorted(K[i]) /\ Elems(K[i]) = Elems(A) \cup Elems(B)
        BY <4>5, <4>6, SortedConcat
      <4> QED
        BY <4>3, <4>7, <4>8
    <3> QED
      BY <3>1, <3>2
  <2> HIDE DEF Good
  <2>5. Bad = {}
    <3> SUFFICES ASSUME Bad # {}
                 PROVE  FALSE
      OBVIOUS
    <3>1. PICK i \in Bad : \A j \in Bad : i <= j
      <4>1. Bad \in SUBSET Nat
        OBVIOUS
      <4> HIDE DEF Bad
      <4> QED
        BY <4>1, LeastOf
    <3>2. i \in 1 .. N /\ ~ Good(i)
      BY <3>1
    <3>3. i # 1 => i - 1 \notin Bad
      <4> HIDE DEF Bad
      <4> QED
        BY <1>1, <3>1, <3>2
    <3>4. i # 1 => Good(i - 1)
      BY <1>1, <3>2, <3>3
    <3> QED
      BY <2>4, <3>2, <3>4
  <2>6. Good(N)
    <3>1. N \in 1 .. N
      BY <1>1, <1>4 DEF N
    <3> QED
      BY <1>1, <2>5, <3>1
  <2>7. First(N) = Usable
    BY DEF Usable, RegionPages, N
  <2> QED
    BY <2>1, <2>6, <2>7 DEF Good
<1> QED
  BY <1>3, <1>4

\* A region is a longest run: behind and before it there are other pages.
LEMMA RegionsApart ==
  ASSUME NEW i \in 1 .. Len(Regions), NEW j \in 1 .. Len(Regions), NEW p \in Nat,
         p \in Run(Regions[j][1], Regions[j][2]), i # j
  PROVE  p < Regions[i][1] - 1 \/ p > Regions[i][1] + Regions[i][2]
<1>1. /\ Regions[i][1] \in Nat /\ Regions[i][2] \in Nat
      /\ Regions[j][1] \in Nat /\ Regions[j][2] \in Nat
  BY RegionFacts
<1>2. i \in Nat /\ j \in Nat
  OBVIOUS
<1>3. CASE i < j
  <2>1. Regions[i][1] + Regions[i][2] < Regions[j][1]
    BY <1>3, RegionFacts
  <2> QED
    BY <1>1, <2>1 DEF Run
<1>4. CASE j < i
  <2>1. Regions[j][1] + Regions[j][2] < Regions[i][1]
    BY <1>4, RegionFacts
  <2> QED
    BY <1>1, <2>1 DEF Run
<1> QED
  BY <1>2, <1>3, <1>4

\* page_init leaves the invariant true and every usable page free.
LEMMA Initially == Init => IInv /\ IsFree = Usable
<1> SUFFICES ASSUME Init PROVE IInv /\ IsFree = Usable
  OBVIOUS
<1>1. free_list \in Seq(Nat) /\ Sorted(free_list) /\ IsFree = Usable
  <2>1. free_list = FlattenSeq(Blocks)
    BY DEF Init, Blocks
  <2> QED
    BY <2>1, FlatBlocks DEF IsFree
<1>2. Usable \subseteq Page /\ Page \in SUBSET Nat /\ npage \in Nat
  BY RegionFacts, PagesAreNumbers
<1>3. free_list \in Seq(Page) /\ Len(free_list) \in Nat
  <2>1. Elems(free_list) \subseteq Page
    BY <1>1, <1>2 DEF IsFree
  <2> QED
    BY <1>1, <2>1, SeqOfPages
<1>4. Len(free_list) <= npage
  <2>1. \A i \in 1 .. Len(free_list) : free_list[i] < npage
    <3>1. \A i \in 1 .. Len(free_list) : free_list[i] \in Page
      BY <1>3
    <3> QED
      BY <1>2, <3>1 DEF Page
  <2> QED
    BY <1>1, <1>2, <2>1, SortedIsShort
<1> DEFINE Starts(p) == \E i \in 1 .. Len(Regions) : Regions[i][1] = p
<1>5. property = [p \in Page |-> IF Starts(p)
                                 THEN (CHOOSE r \in ToSet(Regions) : r[1] = p)[2] ELSE 0]
  BY DEF Init
<1>6. ASSUME NEW i \in 1 .. Len(Regions)
      PROVE  property[Regions[i][1]] = Regions[i][2]
  <2> DEFINE p == Regions[i][1]
  <2>1. p \in Page /\ Starts(p) /\ Regions[i] \in ToSet(Regions) /\ Regions[i][1] = p
    <3>1. Regions[i] \in ToSet(Regions)
      BY MemoryAssumption DEF ToSet
    <3> QED
      BY <3>1, RegionFacts
  <2>2. ASSUME NEW r \in ToSet(Regions), r[1] = p PROVE r = Regions[i]
    <3>1. PICK j \in 1 .. Len(Regions) : r = Regions[j]
      BY MemoryAssumption DEF ToSet
    <3>2. p \in Nat /\ p \in Run(Regions[j][1], Regions[j][2])
      BY <2>2, <3>1, RegionFacts
    <3>3. Regions[i][1] \in Nat /\ Regions[i][2] \in Nat
      BY RegionFacts
    <3>4. i = j
      <4> SUFFICES ASSUME i # j PROVE FALSE
        OBVIOUS
      <4>1. p < Regions[i][1] - 1 \/ p > Regions[i][1] + Regions[i][2]
        BY <3>2, RegionsApart
      <4> QED
        BY <3>3, <4>1
    <3> QED
      BY <3>1, <3>4
  <2> HIDE DEF p
  <2>3. (CHOOSE r \in ToSet(Regions) : r[1] = p) = Regions[i]
    BY <2>1, <2>2
  <2>4. property[p] = (CHOOSE r \in ToSet(Regions) : r[1] = p)[2]
    BY <1>5, <2>1
  <2> QED
    BY <2>3, <2>4 DEF p
<1>7. ASSUME NEW p \in Page, ~ Starts(p)
      PROVE  property[p] = 0
  <2> HIDE DEF Starts
  <2> QED
    BY <1>5, <1>7
<1>8. DOMAIN property = Page /\ property = [p \in Page |-> property[p]]
  <2> HIDE DEF Starts
  <2> QED
    BY <1>5
<1>9. ASSUME NEW p \in Usable
      PROVE  /\ property[p] \in Nat
             /\ IF p - 1 \in Usable THEN property[p] = 0
                ELSE /\ property[p] > 0
                     /\ Run(p, property[p]) \subseteq Usable
                     /\ p + property[p] \notin Usable
  <2>1. PICK i \in 1 .. Len(Regions) : p \in Run(Regions[i][1], Regions[i][2])
    BY RegionFacts
  <2> DEFINE a == Regions[i][1]
             n == Regions[i][2]
  <2>2. /\ a \in Nat /\ n \in Nat /\ n > 0 /\ p \in Nat /\ p \in Page
        /\ Run(a, n) \subseteq Usable /\ property[a] = n
    BY <1>2, <1>6, RegionFacts
  <2>3. \A q \in Nat : q \in Usable => \/ q \in Run(a, n)
                                       \/ q < a - 1 \/ q > a + n
    <3> SUFFICES ASSUME NEW q \in Nat, q \in Usable, q \notin Run(a, n)
                 PROVE  q < a - 1 \/ q > a + n
      OBVIOUS
    <3>1. PICK j \in 1 .. Len(Regions) : q \in Run(Regions[j][1], Regions[j][2])
      BY RegionFacts
    <3>2. i # j
      BY <3>1
    <3> QED
      BY <3>1, <3>2, RegionsApart
  <2>4. \A j \in 1 .. Len(Regions) : Regions[j][1] = p => p = a
    <3> SUFFICES ASSUME NEW j \in 1 .. Len(Regions), Regions[j][1] = p, i # j
                 PROVE  FALSE
      OBVIOUS
    <3>1. p \in Run(Regions[j][1], Regions[j][2])
      BY RegionFacts
    <3>2. p < a - 1 \/ p > a + n
      BY <2>2, <3>1, RegionsApart
    <3> QED
      BY <2>1, <2>2, <3>2 DEF Run
  <2>5. p \in Run(a, n)
    BY <2>1
  <2> HIDE DEF a, n
  <2>6. CASE p = a
    <3>1. a - 1 \notin Usable
      <4> SUFFICES ASSUME a - 1 \in Usable PROVE FALSE
        OBVIOUS
      <4>1. a - 1 \in Nat
        BY <1>2
      <4>2. a - 1 \in Run(a, n) \/ a - 1 < a - 1 \/ a - 1 > a + n
        BY <2>3, <4>1
      <4> QED
        BY <2>2, <4>2 DEF Run
    <3>2. a + n \notin Usable
      <4>1. a + n \in Nat /\ a + n \notin Run(a, n)
        BY <2>2 DEF Run
      <4> QED
        BY <2>2, <2>3, <4>1
    <3> QED
      BY <2>2, <2>6, <3>1, <3>2
  <2>7. CASE p # a
    <3>1. p - 1 \in Run(a, n)
      BY <2>2, <2>5, <2>7 DEF Run
    <3>2. property[p] = 0
      BY <1>7, <2>2, <2>4, <2>7
    <3> QED
      BY <2>2, <3>1, <3>2
  <2> QED
    BY <2>6, <2>7
<1>10. Sized(property, Usable)
  BY <1>9 DEF Sized
<1>11. property \in [Page -> 0 .. npage]
  <2>1. \A x \in Usable : property[x] \in 0 .. npage
    <3> DEFINE g == property
    <3>1. Sized(g, Usable) /\ \A x \in Usable : g[x] \in Nat
      BY <1>9, <1>10
    <3> HIDE DEF g
    <3>2. \A x \in Usable : g[x] \in 0 .. npage
      BY <1>2, <3>1, SizesFit
    <3> QED
      BY <3>2 DEF g
  <2>2. ASSUME NEW p \in Page PROVE property[p] \in 0 .. npage
    <3>1. CASE Starts(p)
      <4>1. p \in Usable
        BY <3>1, RegionFacts
      <4> QED
        BY <2>1, <4>1
    <3>2. CASE ~ Starts(p)
      BY <1>2, <1>7, <3>2
    <3> QED
      BY <3>1, <3>2
  <2> QED
    BY <1>8, <2>2
<1>12. held = {} /\ reserved = Page \ Usable /\ nr_free = Len(free_list)
  BY DEF Init
<1>13. TypeOK
  BY <1>2, <1>3, <1>4, <1>11, <1>12 DEF TypeOK
<1>14. EveryPageOnce
  <2>1. ToSet(free_list) = IsFree
    BY <1>3 DEF ToSet, IsFree, Elems
  <2>2. \A i, j \in 1 .. Len(free_list) : free_list[i] = free_list[j] => i = j
    <3> SUFFICES ASSUME NEW i \in 1 .. Len(free_list), NEW j \in 1 .. Len(free_list),
                        free_list[i] = free_list[j]
                 PROVE  i = j
      OBVIOUS
    <3>1. free_list[i] \in Nat /\ free_list[j] \in Nat
      BY <1>1
    <3>2. (i < j => free_list[i] < free_list[j]) /\ (j < i => free_list[j] < free_list[i])
      BY <1>1 DEF Sorted
    <3> QED
      BY <1>3, <3>1, <3>2
  <2>3. UNION {Run(b[1], b[2]) : b \in held} = {}
    BY <1>12
  <2> QED
    BY <1>1, <1>12, <2>1, <2>2, <2>3 DEF EveryPageOnce
<1> QED
  BY <1>1, <1>10, <1>12, <1>13, <1>14 DEF IInv, NrFreeCounts, HeldIsReserved

----------------------------------------------------------------------------
(* The properties of FirstFit.                                             *)

\* The list, the sizes and the blocks in use agree in every behaviour.
THEOREM Invariance == Spec => []IInv
<1>1. Init => IInv
  BY Initially
<1>2. IInv /\ [Next]_vars => IInv'
  <2> SUFFICES ASSUME IInv, [Next]_vars
               PROVE  IInv'
    OBVIOUS
  <2>1. ASSUME NEW n \in 1 .. MaxReq, Alloc(n) PROVE IInv'
    BY <2>1, AllocStep
  <2>2. ASSUME NEW block \in held, Free(block[1], block[2]) PROVE IInv'
    BY <2>2, FreeStep
  <2>3. ASSUME UNCHANGED vars PROVE IInv'
    BY <2>3 DEF vars, IInv, TypeOK, EveryPageOnce, NrFreeCounts, HeldIsReserved, IsFree
  <2> QED
    BY <2>1, <2>2, <2>3 DEF Next
<1> QED
  BY <1>1, <1>2, PTL DEF Spec

\* Through any sequence of splits and merges every usable page stays in one
\* place, a size stands on the first page of a longest run of free pages and
\* nowhere else, and no request is refused that could be served.
THEOREM FreeListStaysSound == Spec => []FreeListIsSound
BY Invariance, InvSound, PTL

\* default_alloc_pages and default_free_pages implement the pool: a request
\* gets the lowest run of free pages of its size.
THEOREM Refinement == Spec => ImplementsPool
<1>1. Init => Pool!Init
  <2> SUFFICES ASSUME Init PROVE Pool!Init
    OBVIOUS
  <2>1. ToSet(free_list) = IsFree /\ IsFree = Usable /\ held = {}
    BY Initially, InvFacts DEF Init
  <2> QED
    BY <2>1 DEF Pool!Init
<1>2. IInv /\ IInv' /\ [Next]_vars => [Pool!Next]_(Pool!pool)
  <2> SUFFICES ASSUME IInv, IInv', [Next]_vars
               PROVE  [Pool!Next]_(Pool!pool)
    OBVIOUS
  <2>0. ToSet(free_list) = IsFree /\ ToSet(free_list)' = IsFree'
    <3>1. ToSet(free_list) = IsFree
      BY InvFacts
    <3>2. free_list' \in Seq(Page)
      BY DEF IInv, TypeOK
    <3>3. ToSet(free_list)' = IsFree'
      BY <3>2 DEF ToSet, IsFree, Elems
    <3> QED
      BY <3>1, <3>3
  <2>1. ASSUME NEW n \in 1 .. MaxReq, Alloc(n)
        PROVE  Pool!Next
    <3>1. PICK p \in IsFree :
            /\ Run(p, n) \subseteq IsFree
            /\ \A q \in IsFree : Run(q, n) \subseteq IsFree => p <= q
            /\ IsFree' = IsFree \ Run(p, n)
            /\ held' = held \cup {<<p, n>>}
      BY <2>1, AllocTakes
    <3>2. Pool!Fitting(n) = {q \in IsFree : Run(q, n) \subseteq IsFree}
      BY <2>0 DEF Pool!Fitting, Pool!Run, Run
    <3>3. Pool!Run(p, n) = Run(p, n)
      BY DEF Pool!Run, Run
    <3>4. p \in Pool!Fitting(n) /\ \A q \in Pool!Fitting(n) : p <= q
      BY <3>1, <3>2
    <3>5. Pool!Alloc(n)
      BY <2>0, <3>1, <3>3, <3>4 DEF Pool!Alloc
    <3> QED
      BY <3>5 DEF Pool!Next
  <2>2. ASSUME NEW block \in held, Free(block[1], block[2])
        PROVE  Pool!Next
    <3>1. /\ IsFree' = IsFree \cup Run(block[1], block[2])
          /\ held' = held \ {block}
      BY <2>2, FreeStep
    <3>2. Pool!Run(block[1], block[2]) = Run(block[1], block[2])
      BY DEF Pool!Run, Run
    <3>3. Pool!Free(block)
      BY <2>0, <3>1, <3>2 DEF Pool!Free
    <3> QED
      BY <3>3 DEF Pool!Next
  <2>3. ASSUME UNCHANGED vars PROVE UNCHANGED Pool!pool
    BY <2>3 DEF vars, Pool!pool, ToSet
  <2> QED
    BY <2>1, <2>2, <2>3 DEF Next
<1> QED
  BY <1>1, <1>2, Invariance, PTL DEF Spec, ImplementsPool, Pool!Spec

=============================================================================
