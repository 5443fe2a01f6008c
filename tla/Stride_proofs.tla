---------------------------- MODULE Stride_proofs ----------------------------
(***************************************************************************)
(* Proofs about Stride, for any number of processes, words of any width    *)
(* and any priorities.                                                     *)
(*                                                                         *)
(* First the arithmetic of StrideOrder: strides on one half of the circle  *)
(* are ordered, and a turn of the first of them leaves them on one half.   *)
(* Then skew heaps: a merge joins two heaps into one of the processes of   *)
(* both, in which nobody stands above another it comes after, so that on   *)
(* one half of the circle the first stands at the top.  The scheduler      *)
(* keeps such a heap of those that wait.                                   *)
(***************************************************************************)
EXTENDS Stride, FiniteSetTheorems, WellFoundedInduction, TLAPS

\* The least element: induction over the naturals, for sets.
LEMMA LeastOf ==
  ASSUME NEW N \in SUBSET Nat, N # {}
  PROVE  \E m \in N : \A k \in N : m <= k
<1>1. PICK m \in N : \A k \in N : <<k, m>> \notin OpToRel(<, Nat)
  BY WFMin, NatLessThanWellFounded, Zenon
<1>2. ASSUME NEW k \in N PROVE ~ (k < m)
  BY <1>1, Zenon DEF OpToRel
<1> QED
  BY <1>2

----------------------------------------------------------------------------
(* Strides                                                                 *)

\* A quotient is no larger than what is divided.
LEMMA QuotientInRange ==
  ASSUME NEW x \in Nat, NEW n \in Nat \ {0}
  PROVE  x \div n \in 0 .. x
<1> DEFINE d == x \div n
<1>1. d \in Int /\ n * d <= x /\ x < n * d + n
  BY SMT
<1> HIDE DEF d
<1>2. d >= 0
  <2>1. SUFFICES ASSUME d <= -1 PROVE FALSE
    BY <1>1
  <2>2. n * d <= n * (-1)
    BY <1>1, <2>1
  <2> QED
    BY <1>1, <2>2
<1>3. d <= n * d
  BY <1>1, <1>2
<1> QED
  BY <1>1, <1>2, <1>3 DEF d

\* One turn, whatever the priority, adds at most half a circle.
THEOREM TurnIsAtMostHalf == \A n \in Nat : Pass(n) \in 0 .. BIG_STRIDE
<1> TAKE n \in Nat
<1>1. CASE n = 0
  BY <1>1, WidthAssumption DEF Pass
<1>2. CASE n # 0
  BY <1>2, WidthAssumption, QuotientInRange DEF Pass
<1> QED
  BY <1>1, <1>2

\* On one half of the circle the comparison of strides is a strict order in
\* which any two words are ordered, and there is a first one.
THEOREM HalfCircleIsOrdered ==
  ASSUME NEW S \in SUBSET Word, OnHalfCircle(S)
  PROVE  /\ \A a, b \in S : a # b => (Before(a, b) <=> ~ Before(b, a))
         /\ \A a \in S : ~ Before(a, a)
         /\ \A a, b, c \in S : Before(a, b) /\ Before(b, c) => Before(a, c)
         /\ \E a \in S : \A b \in S : ~ Before(b, a)
<1> USE WidthAssumption
<1> PICK f \in S : FirstOf(f, S)
  BY DEF OnHalfCircle
<1>1. f \in Word /\ \A b \in S : b \in Word /\ Ahead(b, f) <= BIG_STRIDE
  BY DEF FirstOf
<1>2. ASSUME NEW a \in S, NEW b \in S
      PROVE  Before(a, b) <=> Ahead(a, f) < Ahead(b, f)
  BY <1>1 DEF Before, Ahead, Word, Words
<1>3. \A a \in S : Ahead(a, f) \in Int
  BY <1>1 DEF Ahead, Word, Words
<1>4. \A a, b \in S : a # b => Ahead(a, f) # Ahead(b, f)
  BY <1>1 DEF Ahead, Word, Words
<1>5. \A b \in S : ~ Before(b, f)
  BY <1>1, <1>3 DEF Before
<1> QED
  BY <1>2, <1>3, <1>4, <1>5

\* Words that none is behind m lie on one half of the circle, which begins with
\* one of them.
LEMMA FrontBegins ==
  ASSUME NEW S \in SUBSET Word, S # {}, NEW m \in Word, FirstOf(m, S)
  PROVE  OnHalfCircle(S)
<1> USE WidthAssumption
<1> DEFINE Ranks == {Ahead(b, m) : b \in S}
<1>1. \A b \in S : b \in Word /\ Ahead(b, m) \in 0 .. BIG_STRIDE
  BY DEF FirstOf, Ahead, Word, Words
<1>2. PICK r \in Ranks : \A k \in Ranks : r <= k
  <2>1. Ranks \in SUBSET Nat /\ Ranks # {}
    BY <1>1
  <2> HIDE DEF Ranks
  <2> QED
    BY <2>1, LeastOf
<1>3. PICK f \in S : \A b \in S : Ahead(f, m) <= Ahead(b, m)
  BY <1>2
<1>4. ASSUME NEW b \in S PROVE Ahead(b, f) <= BIG_STRIDE
  BY <1>1, <1>3 DEF Ahead, Word, Words
<1> QED
  BY <1>4 DEF OnHalfCircle, FirstOf

\* A turn of a process that none of the others is behind leaves all strides
\* on one half of the circle.
THEOREM TurnKeepsHalfCircle ==
  ASSUME NEW S \in SUBSET Word, NEW m \in Word, FirstOf(m, S), NEW n \in Nat
  PROVE  OnHalfCircle(S \union {Advanced(m, Pass(n))})
<1> USE WidthAssumption
<1> DEFINE d == Pass(n)
           t == Advanced(m, d)
<1>1. d \in 0 .. BIG_STRIDE
  BY TurnIsAtMostHalf
<1> HIDE DEF d
<1>2. t \in Word /\ Ahead(t, m) <= BIG_STRIDE
  BY <1>1 DEF Advanced, Ahead, Word, Words
<1> HIDE DEF t
<1>3. FirstOf(m, S \union {t})
  BY <1>2 DEF FirstOf
<1>4. OnHalfCircle(S \union {t})
  BY <1>2, <1>3, FrontBegins
<1> QED
  BY <1>4 DEF t, d

----------------------------------------------------------------------------
(* Heaps                                                                   *)

Cuts(S) == {c \in S \X SUBSET S : c[1] \notin c[2]}
Rest(S, c) == S \ (c[2] \union {c[1]})

\* One level of the definition of Heaps.
Grown(f, S) ==
  IF S = {} THEN {<<>>}
  ELSE UNION {{c[1]} \X f[c[2]] \X f[Rest(S, c)] : c \in Cuts(S)}

Small(n) == {S \in SUBSET Procs : Cardinality(S) <= n}

\* Sets of processes are finite.
LEMMA Counted ==
  ASSUME NEW S \in SUBSET Procs
  PROVE  IsFiniteSet(S) /\ Cardinality(S) \in Nat /\ Cardinality(S) <= Cardinality(Procs)
         /\ Cardinality(Procs) \in Nat
BY StrideAssumption, FS_Subset, FS_CardinalityType

\* A part without one of the processes is smaller.
LEMMA PartIsSmaller ==
  ASSUME NEW S \in SUBSET Procs, NEW T \in SUBSET S, NEW p \in S, p \notin T
  PROVE  T \in SUBSET Procs /\ Cardinality(T) < Cardinality(S)
<1>1. IsFiniteSet(S) /\ Cardinality(S) \in Nat /\ Cardinality(T) \in Nat
  BY Counted
<1>2. Cardinality(T) <= Cardinality(S) /\ Cardinality(T) # Cardinality(S)
  BY <1>1, FS_Subset
<1> QED
  BY <1>1, <1>2

\* The parts under the top.
LEMMA CutIsSmaller ==
  ASSUME NEW S \in SUBSET Procs, NEW c \in Cuts(S)
  PROVE  /\ c[1] \in S /\ c[2] \in SUBSET Procs /\ Rest(S, c) \in SUBSET Procs
         /\ Cardinality(c[2]) < Cardinality(S) /\ Cardinality(Rest(S, c)) < Cardinality(S)
<1>1. c[1] \in S /\ c[2] \in SUBSET S /\ c[1] \notin c[2]
  BY DEF Cuts
<1>2. Rest(S, c) \in SUBSET S /\ c[1] \notin Rest(S, c)
  BY DEF Rest
<1> QED
  BY <1>1, <1>2, PartIsSmaller

\* A level depends on smaller ones only.
LEMMA GrownSame ==
  ASSUME NEW S \in SUBSET Procs, NEW f, NEW g,
         \A T \in SUBSET Procs : Cardinality(T) < Cardinality(S) => f[T] = g[T]
  PROVE  Grown(f, S) = Grown(g, S)
<1>1. \A c \in Cuts(S) : f[c[2]] = g[c[2]] /\ f[Rest(S, c)] = g[Rest(S, c)]
  BY CutIsSmaller
<1>2. {{c[1]} \X f[c[2]] \X f[Rest(S, c)] : c \in Cuts(S)}
        = {{c[1]} \X g[c[2]] \X g[Rest(S, c)] : c \in Cuts(S)}
  BY <1>1
<1> QED
  BY <1>2 DEF Grown

\* The definition of Heaps has a solution.
LEMMA HeapsExist == \E f : f = [S \in SUBSET Procs |-> Grown(f, S)]
<1> DEFINE F(f, n) == [S \in Small(n) |-> Grown(f, S)]
           Bad == {n \in Nat : ~ \E f : f = F(f, n)}
<1>1. Bad = {}
  <2> SUFFICES ASSUME Bad # {}
               PROVE  FALSE
    OBVIOUS
  <2>1. PICK k \in Bad : \A j \in Bad : k <= j
    <3>1. Bad \in SUBSET Nat
      OBVIOUS
    <3> HIDE DEF Bad
    <3> QED
      BY <3>1, LeastOf
  <2>2. k \in Nat /\ ~ \E f : f = F(f, k)
    BY <2>1
  <2>3. PICK f : \A S \in Small(k - 1) : f[S] = Grown(f, S)
    <3>1. CASE k = 0
      <4>1. \A S \in SUBSET Procs : ~ (Cardinality(S) <= k - 1)
        BY <3>1, Counted
      <4> QED
        BY <4>1 DEF Small
    <3>2. CASE k # 0
      <4>1. k - 1 \in Nat /\ k - 1 \notin Bad
        <5> HIDE DEF Bad
        <5> QED
          BY <2>1, <2>2, <3>2
      <4>2. PICK f : f = F(f, k - 1)
        BY <4>1
      <4> QED
        BY <4>2
    <3> QED
      BY <3>1, <3>2
  <2> DEFINE g == F(f, k)
  <2>4. ASSUME NEW S \in Small(k) PROVE Grown(g, S) = Grown(f, S)
    <3>1. S \in SUBSET Procs /\ Cardinality(S) <= k /\ Cardinality(S) \in Nat
      BY Counted DEF Small
    <3>2. ASSUME NEW T \in SUBSET Procs, Cardinality(T) < Cardinality(S)
          PROVE  g[T] = f[T]
      <4>1. Cardinality(T) \in Nat
        BY Counted
      <4>2. T \in Small(k - 1) /\ T \in Small(k)
        BY <2>2, <3>1, <3>2, <4>1 DEF Small
      <4>3. g[T] = Grown(f, T)
        BY <4>2
      <4> QED
        BY <2>3, <4>2, <4>3
    <3> HIDE DEF g
    <3> QED
      BY <3>1, <3>2, GrownSame
  <2>5. g = F(g, k)
    BY <2>4
  <2> HIDE DEF g
  <2> QED
    BY <2>2, <2>5
<1>2. Cardinality(Procs) \in Nat /\ Small(Cardinality(Procs)) = SUBSET Procs
  BY Counted DEF Small
<1>3. \E f : f = F(f, Cardinality(Procs))
  BY <1>1, <1>2
<1> QED
  BY <1>2, <1>3

\* So Heaps is that solution.
LEMMA HeapsAre == \A S \in SUBSET Procs : Heaps[S] = Grown(Heaps, S)
<1> DEFINE F(f) == [S \in SUBSET Procs |-> Grown(f, S)]
<1>1. Heaps = CHOOSE f : f = F(f)
  BY DEF Heaps, Grown, Cuts, Rest
<1>2. \E f : f = F(f)
  BY HeapsExist
<1>3. Heaps = F(Heaps)
  <2> HIDE DEF F
  <2> QED
    BY <1>1, <1>2
<1> QED
  BY <1>3

\* The members of a product.
LEMMA Triples ==
  ASSUME NEW A, NEW B, NEW C
  PROVE  /\ \A t \in A \X B \X C : /\ t = <<t[1], t[2], t[3]>> /\ t # <<>>
                                   /\ t[1] \in A /\ t[2] \in B /\ t[3] \in C
         /\ \A x \in A, y \in B, z \in C : <<x, y, z>> \in A \X B \X C
<1>1. ASSUME NEW t \in A \X B \X C
      PROVE  t = <<t[1], t[2], t[3]>> /\ t[1] \in A /\ t[2] \in B /\ t[3] \in C
  OBVIOUS
<1>2. \A x, y, z : <<x, y, z>> # <<>>
  OBVIOUS
<1>3. ASSUME NEW t \in A \X B \X C PROVE t # <<>>
  BY <1>1, <1>2, Zenon
<1>4. \A x \in A, y \in B, z \in C : <<x, y, z>> \in A \X B \X C
  OBVIOUS
<1> QED
  BY <1>1, <1>3, <1>4, Zenon

\* One level, taken apart: a heap of some processes and what is under its top.
LEMMA LevelIs ==
  ASSUME NEW S \in SUBSET Procs, S # {}
  PROVE  /\ \A h \in Heaps[S] : \E c \in Cuts(S) :
               h \in {c[1]} \X Heaps[c[2]] \X Heaps[Rest(S, c)]
         /\ \A c \in Cuts(S) : \A h \in {c[1]} \X Heaps[c[2]] \X Heaps[Rest(S, c)] :
               h \in Heaps[S]
<1>1. Heaps[S] = Grown(Heaps, S)
  BY HeapsAre
<1>2. Grown(Heaps, S)
        = UNION {{c[1]} \X Heaps[c[2]] \X Heaps[Rest(S, c)] : c \in Cuts(S)}
  BY DEF Grown
<1> DEFINE Part(c) == {c[1]} \X Heaps[c[2]] \X Heaps[Rest(S, c)]
<1>3. Heaps[S] = UNION {Part(c) : c \in Cuts(S)}
  BY <1>1, <1>2
<1> HIDE DEF Part
<1>4. (\A h \in Heaps[S] : \E c \in Cuts(S) : h \in Part(c))
      /\ \A c \in Cuts(S) : \A h \in Part(c) : h \in Heaps[S]
  BY <1>3
<1> QED
  BY <1>4 DEF Part

\* The heap of no process is empty, and no other one is.
LEMMA EmptyHeap ==
  /\ Heaps[{}] = {<<>>}
  /\ \A S \in SUBSET Procs : <<>> \in Heaps[S] => S = {}
<1>1. Heaps[{}] = {<<>>}
  BY HeapsAre DEF Grown
<1>2. ASSUME NEW S \in SUBSET Procs, <<>> \in Heaps[S], S # {} PROVE FALSE
  <2>1. PICK c \in Cuts(S) : <<>> \in {c[1]} \X Heaps[c[2]] \X Heaps[Rest(S, c)]
    BY <1>2, LevelIs
  <2> QED
    BY <2>1, Triples
<1> QED
  BY <1>1, <1>2

\* A process above two heaps without it that share none.
LEMMA Compose ==
  ASSUME NEW p \in Procs, NEW L \in SUBSET Procs, NEW R \in SUBSET Procs,
         p \notin L, p \notin R, L \cap R = {}, NEW l \in Heaps[L], NEW r \in Heaps[R]
  PROVE  <<p, l, r>> \in Heaps[{p} \union L \union R]
<1> DEFINE S == ({p} \union L) \union R
           c == <<p, L>>
<1>1. S \in SUBSET Procs /\ S # {}
  OBVIOUS
<1>2. c \in Cuts(S) /\ c[1] = p /\ c[2] = L
  BY DEF Cuts
<1>3. Rest(S, c) = R
  BY DEF Rest
<1> HIDE DEF c
<1> HIDE DEF S
<1>4. p \in {c[1]} /\ l \in Heaps[c[2]] /\ r \in Heaps[Rest(S, c)]
  BY <1>2, <1>3
<1>5. <<p, l, r>> \in {c[1]} \X Heaps[c[2]] \X Heaps[Rest(S, c)]
  BY <1>4, Triples
<1>6. <<p, l, r>> \in Heaps[S]
  BY <1>1, <1>2, <1>5, LevelIs
<1> QED
  BY <1>6 DEF S

\* What is under the top of a heap.
Under(S, h, L, R) ==
  /\ L \in SUBSET Procs /\ R \in SUBSET Procs /\ L \cap R = {}
  /\ h[1] \in Procs /\ h[1] \notin L /\ h[1] \notin R
  /\ S = ({h[1]} \union L) \union R
  /\ h = <<h[1], h[2], h[3]>> /\ h[2] \in Heaps[L] /\ h[3] \in Heaps[R]
  /\ Cardinality(L) < Cardinality(S) /\ Cardinality(R) < Cardinality(S)

\* A heap that is not empty is so composed.
LEMMA Decompose ==
  ASSUME NEW S \in SUBSET Procs, NEW h \in Heaps[S], h # <<>>
  PROVE  \E L, R : Under(S, h, L, R)
<1>1. S # {}
  BY EmptyHeap
<1>2. PICK c \in Cuts(S) : h \in {c[1]} \X Heaps[c[2]] \X Heaps[Rest(S, c)]
  BY <1>1, LevelIs
<1>3. h[1] = c[1] /\ h[2] \in Heaps[c[2]] /\ h[3] \in Heaps[Rest(S, c)]
      /\ h = <<h[1], h[2], h[3]>>
  BY <1>2, Triples
<1>4. c[1] \in S /\ c[2] \in SUBSET S /\ c[1] \notin c[2]
  BY DEF Cuts
<1>5. S = ({c[1]} \union c[2]) \union Rest(S, c) /\ c[2] \cap Rest(S, c) = {}
      /\ c[1] \notin Rest(S, c)
  BY <1>4 DEF Rest
<1>6. Under(S, h, c[2], Rest(S, c))
  BY <1>3, <1>4, <1>5, CutIsSmaller DEF Under
<1> QED
  BY <1>6

----------------------------------------------------------------------------
(* The order of a heap                                                     *)

\* The heaps of some of the processes of S.
Inside(S) == UNION {Heaps[T] : T \in SUBSET S}

\* The comparison of proc_stride_comp_f lets m stand above n.
NotAfter(m, n) == Before(m, n) \/ ~ Before(n, m)

\* The top of a heap does not come after those that stand next to it.
OrderedAt(g, s) == \A k \in {g[2], g[3]} : k # <<>> => NotAfter(s[g[1]], s[k[1]])

\* G holds what is under the heaps in it, and they are ordered.
Closed(G, s) == \A g \in G : g # <<>> => g[2] \in G /\ g[3] \in G /\ OrderedAt(g, s)

\* No process stands above one it comes after, in a heap of processes of S.
InOrder(S, h, s) == \E G \in SUBSET Inside(S) : h \in G /\ Closed(G, s)

\* What is under a heap of some of S is one.
LEMMA InsideGoesDown ==
  ASSUME NEW S \in SUBSET Procs, NEW g \in Inside(S), g # <<>>
  PROVE  g[1] \in S /\ g[2] \in Inside(S) /\ g[3] \in Inside(S)
<1>1. PICK T \in SUBSET S : g \in Heaps[T]
  BY DEF Inside
<1>2. PICK L, R : Under(T, g, L, R)
  BY <1>1, Decompose
<1>3. g[1] \in T /\ L \in SUBSET S /\ R \in SUBSET S
  BY <1>2 DEF Under
<1>4. g[2] \in Heaps[L] /\ g[3] \in Heaps[R]
  BY <1>2 DEF Under
<1> QED
  BY <1>3, <1>4 DEF Inside

\* Order is a matter of the processes that stand in the heap.
LEMMA OrderNarrows ==
  ASSUME NEW S \in SUBSET Procs, NEW T \in SUBSET Procs, NEW h \in Inside(T), NEW s,
         InOrder(S, h, s)
  PROVE  InOrder(T, h, s)
<1>1. PICK G \in SUBSET Inside(S) : h \in G /\ Closed(G, s)
  BY DEF InOrder
<1>2. ASSUME NEW g \in G \cap Inside(T), g # <<>>
      PROVE  g[2] \in G \cap Inside(T) /\ g[3] \in G \cap Inside(T) /\ OrderedAt(g, s)
  BY <1>1, <1>2, InsideGoesDown DEF Closed
<1>3. Closed(G \cap Inside(T), s)
  BY <1>2 DEF Closed
<1> QED
  BY <1>1, <1>3 DEF InOrder

\* Only the strides of those that stand in the heap matter.
LEMMA OrderSame ==
  ASSUME NEW S \in SUBSET Procs, NEW h, NEW s, NEW z, InOrder(S, h, s),
         \A p \in S : z[p] = s[p]
  PROVE  InOrder(S, h, z)
<1>1. PICK G \in SUBSET Inside(S) : h \in G /\ Closed(G, s)
  BY DEF InOrder
<1>2. ASSUME NEW g \in G, g # <<>>
      PROVE  OrderedAt(g, z)
  <2>1. g[1] \in S /\ g[2] \in G /\ g[3] \in G /\ OrderedAt(g, s)
    BY <1>1, <1>2, InsideGoesDown DEF Closed
  <2>2. \A k \in {g[2], g[3]} : k # <<>> => k[1] \in S
    BY <2>1, InsideGoesDown
  <2>3. z[g[1]] = s[g[1]] /\ \A k \in {g[2], g[3]} : k # <<>> => z[k[1]] = s[k[1]]
    BY <2>1, <2>2
  <2> QED
    BY <2>1, <2>3 DEF OrderedAt
<1>3. Closed(G, z)
  BY <1>1, <1>2 DEF Closed
<1> QED
  BY <1>1, <1>3 DEF InOrder

\* The empty heap is in order.
LEMMA OrderOfNone == \A s : InOrder({}, <<>>, s)
<1>1. <<>> \in Inside({})
  BY EmptyHeap DEF Inside
<1>2. \A s : Closed({<<>>}, s)
  BY DEF Closed
<1> QED
  BY <1>1, <1>2 DEF InOrder

\* A heap in order is so under its top.
LEMMA OrderUnderTop ==
  ASSUME NEW S \in SUBSET Procs, NEW h, NEW s, NEW L, NEW R,
         Under(S, h, L, R), h # <<>>, InOrder(S, h, s)
  PROVE  InOrder(L, h[2], s) /\ InOrder(R, h[3], s) /\ OrderedAt(h, s)
<1>1. PICK G \in SUBSET Inside(S) : h \in G /\ Closed(G, s)
  BY DEF InOrder
<1>2. h[2] \in G /\ h[3] \in G /\ OrderedAt(h, s)
  BY <1>1 DEF Closed
<1>3. InOrder(S, h[2], s) /\ InOrder(S, h[3], s)
  BY <1>1, <1>2 DEF InOrder
<1>4. L \in SUBSET Procs /\ R \in SUBSET Procs /\ h[2] \in Inside(L) /\ h[3] \in Inside(R)
  BY DEF Under, Inside
<1> QED
  BY <1>2, <1>3, <1>4, OrderNarrows

\* And a top that comes after neither of those next to it leaves them in order.
LEMMA OrderOver ==
  ASSUME NEW S \in SUBSET Procs, NEW h \in Heaps[S], NEW s, NEW L, NEW R,
         Under(S, h, L, R),
         InOrder(L, h[2], s), InOrder(R, h[3], s), OrderedAt(h, s)
  PROVE  InOrder(S, h, s)
<1>1. PICK A \in SUBSET Inside(L) : h[2] \in A /\ Closed(A, s)
  BY DEF InOrder
<1>2. PICK B \in SUBSET Inside(R) : h[3] \in B /\ Closed(B, s)
  BY DEF InOrder
<1> DEFINE G == (A \union B) \union {h}
<1>3. L \in SUBSET S /\ R \in SUBSET S
  BY DEF Under
<1>4. Inside(L) \in SUBSET Inside(S) /\ Inside(R) \in SUBSET Inside(S) /\ h \in Inside(S)
  BY <1>3 DEF Inside
<1>5. G \in SUBSET Inside(S) /\ h \in G
  BY <1>4
<1>6. Closed(G, s)
  BY <1>1, <1>2 DEF Closed
<1> HIDE DEF G
<1> QED
  BY <1>5, <1>6 DEF InOrder

\* While strides are on one half of the circle, those above are no further on.
LEMMA TopIsBehind ==
  ASSUME NEW f \in Word, NEW m \in Word, NEW n \in Word,
         Ahead(m, f) <= BIG_STRIDE, Ahead(n, f) <= BIG_STRIDE, NotAfter(m, n)
  PROVE  Ahead(m, f) <= Ahead(n, f)
BY WidthAssumption DEF NotAfter, Before, Ahead, Word, Words

\* Strides of which none is behind f.
AllAhead(f, S, s) == f \in Word /\ \A p \in S : s[p] \in Word /\ Ahead(s[p], f) <= BIG_STRIDE

\* Then a heap in order has at its top a process none other is behind.
LEMMA TopIsFirst ==
  ASSUME NEW s, NEW f
  PROVE  \A S \in SUBSET Procs : \A h \in Heaps[S] :
           h # <<>> /\ InOrder(S, h, s) /\ AllAhead(f, S, s)
             => h[1] \in S /\ \A p \in S : Ahead(s[h[1]], f) <= Ahead(s[p], f)
<1> DEFINE Right(S, h) ==
             h # <<>> /\ InOrder(S, h, s) /\ AllAhead(f, S, s)
               => h[1] \in S /\ \A p \in S : Ahead(s[h[1]], f) <= Ahead(s[p], f)
           Bad == {n \in Nat : \E S \in SUBSET Procs : \E h \in Heaps[S] :
                                 Cardinality(S) = n /\ ~ Right(S, h)}
<1>1. Bad = {}
  <2> SUFFICES ASSUME Bad # {}
               PROVE  FALSE
    OBVIOUS
  <2>1. PICK k \in Bad : \A j \in Bad : k <= j
    <3>1. Bad \in SUBSET Nat
      OBVIOUS
    <3> HIDE DEF Bad
    <3> QED
      BY <3>1, LeastOf
  <2> PICK S \in SUBSET Procs : \E h \in Heaps[S] : Cardinality(S) = k /\ ~ Right(S, h)
    BY <2>1
  <2>2. PICK h \in Heaps[S] : Cardinality(S) = k /\ ~ Right(S, h)
    OBVIOUS
  <2>3. ASSUME NEW T \in SUBSET Procs, NEW g \in Heaps[T], Cardinality(T) < Cardinality(S)
        PROVE  Right(T, g)
    <3>1. Cardinality(T) \in Nat /\ Cardinality(S) \in Nat
      BY Counted
    <3>2. Cardinality(T) \notin Bad
      <4> HIDE DEF Bad
      <4> QED
        BY <2>1, <2>2, <2>3, <3>1
    <3> HIDE DEF Right
    <3> QED
      BY <3>1, <3>2
  <2>4. h # <<>> /\ InOrder(S, h, s) /\ AllAhead(f, S, s)
    BY <2>2
  <2>5. PICK L, R : Under(S, h, L, R)
    BY <2>4, Decompose
  <2>6. InOrder(L, h[2], s) /\ InOrder(R, h[3], s) /\ OrderedAt(h, s)
    BY <2>4, <2>5, OrderUnderTop
  <2>7. /\ S = ({h[1]} \union L) \union R
        /\ L \in SUBSET Procs /\ R \in SUBSET Procs
        /\ h[2] \in Heaps[L] /\ h[3] \in Heaps[R]
        /\ Cardinality(L) < Cardinality(S) /\ Cardinality(R) < Cardinality(S)
    BY <2>5 DEF Under
  <2>8. AllAhead(f, L, s) /\ AllAhead(f, R, s)
    BY <2>4, <2>7 DEF AllAhead
  <2>9. ASSUME NEW T \in SUBSET S, NEW g \in Heaps[T], Right(T, g), InOrder(T, g, s),
               AllAhead(f, T, s), g # <<>> => NotAfter(s[h[1]], s[g[1]])
        PROVE  \A p \in T : Ahead(s[h[1]], f) <= Ahead(s[p], f)
    <3>1. CASE g = <<>>
      <4>1. T = {}
        BY <3>1, EmptyHeap
      <4> QED
        BY <4>1
    <3>2. CASE g # <<>>
      <4>1. g[1] \in T /\ \A p \in T : Ahead(s[g[1]], f) <= Ahead(s[p], f)
        BY <2>9, <3>2
      <4>2. s[h[1]] \in Word /\ s[g[1]] \in Word /\ f \in Word
            /\ Ahead(s[h[1]], f) <= BIG_STRIDE /\ Ahead(s[g[1]], f) <= BIG_STRIDE
            /\ \A p \in T : s[p] \in Word
        BY <2>4, <2>7, <4>1 DEF AllAhead
      <4>3. Ahead(s[h[1]], f) <= Ahead(s[g[1]], f)
        BY <2>9, <3>2, <4>2, TopIsBehind
      <4>4. \A m \in Word : Ahead(m, f) \in Int
        BY <4>2, WidthAssumption DEF Ahead, Word, Words
      <4> QED
        BY <4>1, <4>2, <4>3, <4>4
    <3> QED
      BY <3>1, <3>2
  <2>10. Right(L, h[2]) /\ Right(R, h[3])
    <3> HIDE DEF Right
    <3> QED
      BY <2>3, <2>7
  <2>11. (h[2] # <<>> => NotAfter(s[h[1]], s[h[2][1]]))
         /\ (h[3] # <<>> => NotAfter(s[h[1]], s[h[3][1]]))
    BY <2>6 DEF OrderedAt
  <2>12. \A p \in L \union R : Ahead(s[h[1]], f) <= Ahead(s[p], f)
    <3>1. L \in SUBSET S /\ R \in SUBSET S
      BY <2>7
    <3> HIDE DEF Right
    <3>2. \A p \in L : Ahead(s[h[1]], f) <= Ahead(s[p], f)
      BY <2>6, <2>7, <2>8, <2>9, <2>10, <2>11, <3>1
    <3>3. \A p \in R : Ahead(s[h[1]], f) <= Ahead(s[p], f)
      BY <2>6, <2>7, <2>8, <2>9, <2>10, <2>11, <3>1
    <3> QED
      BY <3>2, <3>3
  <2>13. Ahead(s[h[1]], f) \in Int
    BY <2>4, <2>7, WidthAssumption DEF AllAhead, Ahead, Word, Words
  <2>14. Right(S, h)
    BY <2>7, <2>12, <2>13
  <2> QED
    BY <2>2, <2>14
<1>2. ASSUME NEW S \in SUBSET Procs, NEW h \in Heaps[S] PROVE Right(S, h)
  <2>1. Cardinality(S) \in Nat
    BY Counted
  <2> HIDE DEF Right
  <2> QED
    BY <1>1, <2>1
<1> QED
  BY <1>2

----------------------------------------------------------------------------
(* skew_heap_merge                                                         *)

\* One level of the definition of Merge.
Joined(f, s, h) ==
  LET a == h[1]
      b == h[2]
  IN  IF a = <<>> THEN b
      ELSE IF b = <<>> THEN a
      ELSE IF Before(s[a[1]], s[b[1]]) THEN <<a[1], f[<<a[3], b>>], a[2]>>
      ELSE <<b[1], f[<<a, b[3]>>], b[2]>>

\* Heaps of S and of T, of no more than n processes together.
OfSize(a, b, S, T, n) ==
  /\ a \in Heaps[S] /\ b \in Heaps[T]
  /\ Cardinality(S) + Cardinality(T) <= n

\* Two heaps of no more than n processes together.
Two(n) == {h \in Heap \X Heap :
             \E S, T \in SUBSET Procs : OfSize(h[1], h[2], S, T, n)}

\* The heaps merged on the level below are smaller.
LEMMA BelowIsSmaller ==
  ASSUME NEW n \in Nat, NEW h \in Two(n), h[1] # <<>>, h[2] # <<>>
  PROVE  n - 1 \in Nat /\ <<h[1][3], h[2]>> \in Two(n - 1) /\ <<h[1], h[2][3]>> \in Two(n - 1)
<1>1. PICK S \in SUBSET Procs : \E T \in SUBSET Procs : OfSize(h[1], h[2], S, T, n)
  BY DEF Two
<1>2. PICK T \in SUBSET Procs : OfSize(h[1], h[2], S, T, n)
  BY <1>1
<1>3. h[1] \in Heaps[S] /\ h[2] \in Heaps[T] /\ Cardinality(S) + Cardinality(T) <= n
  BY <1>2 DEF OfSize
<1>4. PICK L, R : Under(S, h[1], L, R)
  BY <1>3, Decompose
<1>5. PICK M, Q : Under(T, h[2], M, Q)
  BY <1>3, Decompose
<1>6. /\ R \in SUBSET Procs /\ h[1][3] \in Heaps[R] /\ Cardinality(R) < Cardinality(S)
      /\ Q \in SUBSET Procs /\ h[2][3] \in Heaps[Q] /\ Cardinality(Q) < Cardinality(T)
  BY <1>4, <1>5 DEF Under
<1>7. Cardinality(S) \in Nat /\ Cardinality(T) \in Nat /\ Cardinality(R) \in Nat
      /\ Cardinality(Q) \in Nat
  BY <1>6, Counted
<1>8. OfSize(h[1][3], h[2], R, T, n - 1) /\ OfSize(h[1], h[2][3], S, Q, n - 1)
  BY <1>3, <1>6, <1>7 DEF OfSize
<1>9. n - 1 \in Nat
  BY <1>3, <1>6, <1>7
<1>10. h[1] \in Heap /\ h[2] \in Heap /\ h[1][3] \in Heap /\ h[2][3] \in Heap
  BY <1>3, <1>6 DEF Heap
<1>11. <<h[1][3], h[2]>> \in Two(n - 1)
  BY <1>6, <1>8, <1>10 DEF Two
<1>12. <<h[1], h[2][3]>> \in Two(n - 1)
  BY <1>6, <1>8, <1>10 DEF Two
<1> QED
  BY <1>9, <1>11, <1>12

\* A level depends on smaller ones only.
LEMMA JoinedSame ==
  ASSUME NEW n \in Nat, NEW h \in Two(n), NEW s, NEW f, NEW g,
         n - 1 \in Nat => \A k \in Two(n - 1) : f[k] = g[k]
  PROVE  Joined(f, s, h) = Joined(g, s, h)
<1>1. CASE h[1] = <<>> \/ h[2] = <<>>
  BY <1>1 DEF Joined
<1>2. CASE h[1] # <<>> /\ h[2] # <<>>
  <2>1. f[<<h[1][3], h[2]>>] = g[<<h[1][3], h[2]>>]
        /\ f[<<h[1], h[2][3]>>] = g[<<h[1], h[2][3]>>]
    BY <1>2, BelowIsSmaller
  <2> QED
    BY <2>1 DEF Joined
<1> QED
  BY <1>1, <1>2

\* All heaps are of some size.
LEMMA TwoAreCounted ==
  \E n \in Nat : Two(n) = Heap \X Heap
<1> DEFINE c == Cardinality(Procs)
<1>1. c + c \in Nat
  BY Counted
<1>2. ASSUME NEW h \in Heap \X Heap PROVE h \in Two(c + c)
  <2>1. h[1] \in Heap /\ h[2] \in Heap
    OBVIOUS
  <2>2. PICK S \in SUBSET Procs : h[1] \in Heaps[S]
    BY <2>1 DEF Heap
  <2>3. PICK T \in SUBSET Procs : h[2] \in Heaps[T]
    BY <2>1 DEF Heap
  <2>4. Cardinality(S) + Cardinality(T) <= c + c
    BY Counted
  <2>5. OfSize(h[1], h[2], S, T, c + c)
    BY <2>2, <2>3, <2>4 DEF OfSize
  <2> QED
    BY <2>5 DEF Two
<1> HIDE DEF c
<1>3. Two(c + c) = Heap \X Heap
  BY <1>2 DEF Two
<1> QED
  BY <1>1, <1>3

\* The definition of Merge has a solution.
LEMMA MergeExists ==
  ASSUME NEW s
  PROVE  \E f : f = [h \in Heap \X Heap |-> Joined(f, s, h)]
<1> DEFINE F(f, n) == [h \in Two(n) |-> Joined(f, s, h)]
           Bad == {n \in Nat : ~ \E f : f = F(f, n)}
<1>1. Bad = {}
  <2> SUFFICES ASSUME Bad # {}
               PROVE  FALSE
    OBVIOUS
  <2>1. PICK k \in Bad : \A j \in Bad : k <= j
    <3>1. Bad \in SUBSET Nat
      OBVIOUS
    <3> HIDE DEF Bad
    <3> QED
      BY <3>1, LeastOf
  <2>2. k \in Nat /\ ~ \E f : f = F(f, k)
    BY <2>1
  <2>3. PICK f : k - 1 \in Nat => \A h \in Two(k - 1) : f[h] = Joined(f, s, h)
    <3>1. CASE k - 1 \in Nat
      <4>1. k - 1 \notin Bad
        <5> HIDE DEF Bad
        <5> QED
          BY <2>1, <2>2, <3>1
      <4>2. PICK f : f = F(f, k - 1)
        BY <3>1, <4>1
      <4> QED
        BY <4>2
    <3> QED
      BY <3>1
  <2> DEFINE g == F(f, k)
  <2>4. ASSUME NEW h \in Two(k) PROVE Joined(g, s, h) = Joined(f, s, h)
    <3>1. ASSUME k - 1 \in Nat, NEW j \in Two(k - 1)
          PROVE  g[j] = f[j]
      <4>1. j \in Two(k)
        <5>1. j \in Heap \X Heap
              /\ \E S, T \in SUBSET Procs : OfSize(j[1], j[2], S, T, k - 1)
          BY DEF Two
        <5>2. PICK S \in SUBSET Procs : \E T \in SUBSET Procs : OfSize(j[1], j[2], S, T, k - 1)
          BY <5>1
        <5>3. PICK T \in SUBSET Procs : OfSize(j[1], j[2], S, T, k - 1)
          BY <5>2
        <5>4. Cardinality(S) \in Nat /\ Cardinality(T) \in Nat
          BY Counted
        <5>5. OfSize(j[1], j[2], S, T, k)
          BY <2>2, <5>3, <5>4 DEF OfSize
        <5> QED
          BY <5>1, <5>5 DEF Two
      <4>2. g[j] = Joined(f, s, j)
        BY <4>1
      <4> QED
        BY <2>3, <3>1, <4>2
    <3> HIDE DEF g
    <3> QED
      BY <2>2, <3>1, JoinedSame
  <2>5. g = F(g, k)
    BY <2>4
  <2> HIDE DEF g
  <2> QED
    BY <2>2, <2>5
<1>2. PICK n \in Nat : Two(n) = Heap \X Heap
  BY TwoAreCounted
<1>3. \E f : f = F(f, n)
  BY <1>1, <1>2
<1> QED
  BY <1>2, <1>3

\* So Merge is defined by its levels.
LEMMA MergeIs ==
  ASSUME NEW s
  PROVE  \E f : /\ \A x \in Heap, y \in Heap : f[<<x, y>>] = Joined(f, s, <<x, y>>)
                /\ \A x, y : Merge(x, y, s) = f[<<x, y>>]
<1> DEFINE F(f) == [h \in Heap \X Heap |-> Joined(f, s, h)]
           m == CHOOSE f : f = F(f)
<1>1. m = F(m)
  <2>1. \E f : f = F(f)
    BY MergeExists
  <2> HIDE DEF F
  <2> QED
    BY <2>1
<1>2. \A x, y : Merge(x, y, s) = m[<<x, y>>]
  BY DEF Merge, Joined
<1>3. \A h \in Heap \X Heap : m[h] = Joined(m, s, h)
  <2> HIDE DEF m
  <2> QED
    BY <1>1
<1>4. \A x \in Heap, y \in Heap : m[<<x, y>>] = Joined(m, s, <<x, y>>)
  <2> HIDE DEF m
  <2> QED
    BY <1>3
<1> HIDE DEF m
<1> QED
  BY <1>2, <1>4

\* One step of the merge of two heaps.
LEMMA MergeStep ==
  ASSUME NEW s
  PROVE  /\ \A x \in Heap : Merge(<<>>, x, s) = x /\ Merge(x, <<>>, s) = x
         /\ \A x \in Heap, y \in Heap :
              x # <<>> /\ y # <<>> =>
                Merge(x, y, s) = IF Before(s[x[1]], s[y[1]])
                                 THEN <<x[1], Merge(x[3], y, s), x[2]>>
                                 ELSE <<y[1], Merge(x, y[3], s), y[2]>>
<1>1. PICK f : /\ \A x \in Heap, y \in Heap : f[<<x, y>>] = Joined(f, s, <<x, y>>)
               /\ \A x, y : Merge(x, y, s) = f[<<x, y>>]
  BY MergeIs
<1>2. <<>> \in Heap
  BY EmptyHeap DEF Heap
<1>3. ASSUME NEW x \in Heap
      PROVE  Merge(<<>>, x, s) = x /\ Merge(x, <<>>, s) = x
  <2>1. Joined(f, s, <<<<>>, x>>) = x /\ Joined(f, s, <<x, <<>>>>) = x
    BY DEF Joined
  <2> QED
    BY <1>1, <1>2, <2>1
<1>4. ASSUME NEW x \in Heap, NEW y \in Heap, x # <<>>, y # <<>>
      PROVE  Merge(x, y, s) = IF Before(s[x[1]], s[y[1]])
                              THEN <<x[1], Merge(x[3], y, s), x[2]>>
                              ELSE <<y[1], Merge(x, y[3], s), y[2]>>
  <2>1. Joined(f, s, <<x, y>>) = IF Before(s[x[1]], s[y[1]])
                                 THEN <<x[1], f[<<x[3], y>>], x[2]>>
                                 ELSE <<y[1], f[<<x, y[3]>>], y[2]>>
    BY <1>4 DEF Joined
  <2> QED
    BY <1>1, <2>1
<1> QED
  BY <1>3, <1>4

\* Heaps of different processes.
Apart(a, b, S, T) ==
  /\ a \in Heaps[S] /\ b \in Heaps[T] /\ S \cap T = {}

\* What is promised of their merge m: it has the processes of both, the top of
\* one of them stands at its top, and it is in order when they are.
Joins(m, a, b, S, T, s) ==
  /\ m \in Heaps[S \union T]
  /\ a = <<>> => m = b
  /\ b = <<>> => m = a
  /\ a # <<>> /\ b # <<>> => m # <<>> /\ (m[1] = a[1] \/ m[1] = b[1])
  /\ InOrder(S, a, s) /\ InOrder(T, b, s) => InOrder(S \union T, m, s)

\* Both heaps are alike in this.
LEMMA JoinsAlike ==
  ASSUME NEW S, NEW T, NEW a, NEW b, NEW s, NEW m, Joins(m, a, b, S, T, s)
  PROVE  Joins(m, b, a, T, S, s)
<1>1. T \union S = S \union T
  OBVIOUS
<1> QED
  BY <1>1 DEF Joins

\* The step in which the top of a stays above the merge m of its right heap
\* with b.
LEMMA JoinsAbove ==
  ASSUME NEW S \in SUBSET Procs, NEW T \in SUBSET Procs, NEW a, NEW b, NEW s,
         NEW L, NEW R, NEW m,
         Apart(a, b, S, T), a # <<>>, b # <<>>, Under(S, a, L, R),
         NotAfter(s[a[1]], s[b[1]]), Joins(m, a[3], b, R, T, s)
  PROVE  Joins(<<a[1], m, a[2]>>, a, b, S, T, s)
<1> DEFINE h == <<a[1], m, a[2]>>
           U == R \union T
<1>1. /\ L \in SUBSET Procs /\ R \in SUBSET Procs /\ L \cap R = {}
      /\ a[1] \in Procs /\ a[1] \notin L /\ a[1] \notin R
      /\ S = ({a[1]} \union L) \union R
      /\ a[2] \in Heaps[L] /\ a[3] \in Heaps[R]
  BY DEF Under
<1>2. S \cap T = {} /\ b \in Heaps[T] /\ a \in Heaps[S]
  BY DEF Apart
<1>3. m \in Heaps[U]
  BY DEF Joins
<1>4. U \in SUBSET Procs /\ U \cap L = {} /\ a[1] \notin U
      /\ ({a[1]} \union U) \union L = S \union T
  BY <1>1, <1>2
<1> HIDE DEF U
<1>5. h \in Heaps[S \union T]
  <2>1. <<a[1], m, a[2]>> \in Heaps[({a[1]} \union U) \union L]
    BY <1>1, <1>3, <1>4, Compose
  <2> QED
    BY <1>4, <2>1
<1>6. h[1] = a[1] /\ h[2] = m /\ h[3] = a[2] /\ h # <<>>
  OBVIOUS
<1> HIDE DEF h
<1>7. Under(S \union T, h, U, L)
  <2>1. S \union T \in SUBSET Procs /\ a[1] \in S \union T /\ U \in SUBSET (S \union T)
        /\ L \in SUBSET (S \union T)
    BY <1>1, <1>4
  <2>2. Cardinality(U) < Cardinality(S \union T)
        /\ Cardinality(L) < Cardinality(S \union T)
    BY <1>1, <1>4, <2>1, PartIsSmaller
  <2>3. h = <<h[1], h[2], h[3]>>
    BY <1>6 DEF h
  <2> QED
    BY <1>1, <1>3, <1>4, <1>6, <2>2, <2>3 DEF Under
<1>8. ASSUME InOrder(S, a, s), InOrder(T, b, s)
      PROVE  InOrder(S \union T, h, s)
  <2>1. InOrder(L, a[2], s) /\ InOrder(R, a[3], s) /\ OrderedAt(a, s)
    BY <1>8, OrderUnderTop
  <2>2. InOrder(U, m, s)
    BY <1>8, <2>1 DEF Joins, U
  <2>3. m # <<>> => m[1] = b[1] \/ (a[3] # <<>> /\ m[1] = a[3][1])
    BY DEF Joins
  <2>4. /\ m # <<>> => NotAfter(s[a[1]], s[m[1]])
        /\ a[2] # <<>> => NotAfter(s[a[1]], s[a[2][1]])
    BY <2>1, <2>3 DEF OrderedAt
  <2>5. OrderedAt(h, s)
    BY <1>6, <2>4 DEF OrderedAt
  <2>6. InOrder(U, h[2], s) /\ InOrder(L, h[3], s)
    BY <1>6, <2>1, <2>2
  <2> QED
    BY <1>1, <1>2, <1>5, <1>7, <2>5, <2>6, OrderOver
<1>9. Joins(h, a, b, S, T, s)
  BY <1>5, <1>6, <1>8 DEF Joins
<1> QED
  BY <1>9 DEF h

\* skew_heap_merge joins two heaps.
LEMMA MergeJoins ==
  ASSUME NEW s
  PROVE  \A S, T \in SUBSET Procs : \A a, b :
           Apart(a, b, S, T) => Joins(Merge(a, b, s), a, b, S, T, s)
<1> DEFINE Right(a, b, S, T) ==
             Apart(a, b, S, T) => Joins(Merge(a, b, s), a, b, S, T, s)
           Bad == {n \in Nat : \E S, T \in SUBSET Procs : \E a, b :
                     Cardinality(S) + Cardinality(T) = n /\ ~ Right(a, b, S, T)}
<1>1. Bad = {}
  <2> SUFFICES ASSUME Bad # {}
               PROVE  FALSE
    OBVIOUS
  <2>1. PICK k \in Bad : \A j \in Bad : k <= j
    <3>1. Bad \in SUBSET Nat
      OBVIOUS
    <3> HIDE DEF Bad
    <3> QED
      BY <3>1, LeastOf
  <2>2. k \in Nat /\ \E S, T \in SUBSET Procs : \E a, b :
                       Cardinality(S) + Cardinality(T) = k /\ ~ Right(a, b, S, T)
    BY <2>1
  <2> PICK S \in SUBSET Procs : \E T \in SUBSET Procs : \E a, b :
                       Cardinality(S) + Cardinality(T) = k /\ ~ Right(a, b, S, T)
    BY <2>2
  <2> PICK T \in SUBSET Procs : \E a, b :
                       Cardinality(S) + Cardinality(T) = k /\ ~ Right(a, b, S, T)
    OBVIOUS
  <2>3. PICK a, b : Cardinality(S) + Cardinality(T) = k /\ ~ Right(a, b, S, T)
    OBVIOUS
  <2>4. ASSUME NEW V \in SUBSET Procs, NEW W \in SUBSET Procs, NEW x, NEW y,
               Cardinality(V) + Cardinality(W) < k
        PROVE  Right(x, y, V, W)
    <3>1. Cardinality(V) + Cardinality(W) \in Nat
      BY Counted
    <3>2. Cardinality(V) + Cardinality(W) \notin Bad
      <4> HIDE DEF Bad
      <4> QED
        BY <2>1, <2>2, <2>4, <3>1
    <3> HIDE DEF Right
    <3> QED
      BY <3>1, <3>2
  <2>5. Apart(a, b, S, T) /\ ~ Joins(Merge(a, b, s), a, b, S, T, s)
    BY <2>3
  <2>6. a \in Heaps[S] /\ b \in Heaps[T] /\ S \cap T = {} /\ a \in Heap /\ b \in Heap
    BY <2>5 DEF Apart, Heap
  <2>7. CASE a = <<>>
    <3>1. S = {} /\ Merge(a, b, s) = b
      BY <2>6, <2>7, EmptyHeap, MergeStep
    <3>2. S \union T = T
      BY <3>1
    <3>3. Joins(b, a, b, S, T, s)
      BY <2>6, <2>7, <3>2 DEF Joins
    <3> QED
      BY <2>5, <3>1, <3>3
  <2>8. CASE b = <<>>
    <3>1. T = {} /\ Merge(a, b, s) = a
      BY <2>6, <2>8, EmptyHeap, MergeStep
    <3>2. S \union T = S
      BY <3>1
    <3>3. Joins(a, a, b, S, T, s)
      BY <2>6, <2>8, <3>2 DEF Joins
    <3> QED
      BY <2>5, <3>1, <3>3
  <2>9. CASE a # <<>> /\ b # <<>>
    <3>1. PICK L, R : Under(S, a, L, R)
      BY <2>6, <2>9, Decompose
    <3>2. PICK M, Q : Under(T, b, M, Q)
      BY <2>6, <2>9, Decompose
    <3>3. /\ R \in SUBSET S /\ a[3] \in Heaps[R] /\ Cardinality(R) < Cardinality(S)
          /\ Q \in SUBSET T /\ b[3] \in Heaps[Q] /\ Cardinality(Q) < Cardinality(T)
      BY <3>1, <3>2 DEF Under
    <3>4. R \in SUBSET Procs /\ Q \in SUBSET Procs
      BY <3>3
    <3>5. Cardinality(S) \in Nat /\ Cardinality(T) \in Nat /\ Cardinality(R) \in Nat
          /\ Cardinality(Q) \in Nat
      BY <3>4, Counted
    <3>6. CASE Before(s[a[1]], s[b[1]])
      <4>1. Merge(a, b, s) = <<a[1], Merge(a[3], b, s), a[2]>>
        BY <2>6, <2>9, <3>6, MergeStep
      <4>2. Apart(a[3], b, R, T) /\ Cardinality(R) + Cardinality(T) < k
        BY <2>3, <2>6, <3>3, <3>5 DEF Apart
      <4>3. Joins(Merge(a[3], b, s), a[3], b, R, T, s)
        BY <2>4, <3>4, <4>2
      <4>4. NotAfter(s[a[1]], s[b[1]])
        BY <3>6 DEF NotAfter
      <4>5. Joins(<<a[1], Merge(a[3], b, s), a[2]>>, a, b, S, T, s)
        BY <2>5, <2>9, <3>1, <4>3, <4>4, JoinsAbove
      <4> QED
        BY <2>5, <4>1, <4>5
    <3>7. CASE ~ Before(s[a[1]], s[b[1]])
      <4>1. Merge(a, b, s) = <<b[1], Merge(a, b[3], s), b[2]>>
        BY <2>6, <2>9, <3>7, MergeStep
      <4>2. Apart(a, b[3], S, Q) /\ Cardinality(S) + Cardinality(Q) < k
        BY <2>3, <2>6, <3>3, <3>5 DEF Apart
      <4>3. Joins(Merge(a, b[3], s), a, b[3], S, Q, s)
        BY <2>4, <3>4, <4>2
      <4>4. Joins(Merge(a, b[3], s), b[3], a, Q, S, s)
        BY <4>3, JoinsAlike
      <4>5. NotAfter(s[b[1]], s[a[1]]) /\ Apart(b, a, T, S)
        BY <2>6, <3>7 DEF NotAfter, Apart
      <4>6. Joins(<<b[1], Merge(a, b[3], s), b[2]>>, b, a, T, S, s)
        BY <2>9, <3>2, <4>4, <4>5, JoinsAbove
      <4>7. Joins(<<b[1], Merge(a, b[3], s), b[2]>>, a, b, S, T, s)
        BY <4>6, JoinsAlike
      <4> QED
        BY <2>5, <4>1, <4>7
    <3> QED
      BY <3>6, <3>7
  <2> QED
    BY <2>7, <2>8, <2>9
<1>2. ASSUME NEW S \in SUBSET Procs, NEW T \in SUBSET Procs, NEW a, NEW b
      PROVE  Right(a, b, S, T)
  <2>1. Cardinality(S) + Cardinality(T) \in Nat
    BY Counted
  <2> HIDE DEF Right
  <2> QED
    BY <1>1, <2>1
<1> QED
  BY <1>2

----------------------------------------------------------------------------
(* The pool                                                                *)

\* The heap has the processes of R, in order.
Holds(h, s, R) == h \in Heaps[R] /\ InOrder(R, h, s)

\* A heap of one process.
LEMMA OneHolds ==
  ASSUME NEW p \in Procs, NEW s
  PROVE  Holds(<<p, <<>>, <<>>>>, s, {p})
<1> DEFINE h == <<p, <<>>, <<>>>>
<1>1. {p} \in SUBSET Procs /\ ({p} \union {}) \union {} = {p}
  OBVIOUS
<1>2. <<>> \in Heaps[{}]
  BY EmptyHeap
<1>3. h \in Heaps[{p}]
  <2>1. <<p, <<>>, <<>>>> \in Heaps[({p} \union {}) \union {}]
    BY <1>2, Compose
  <2> QED
    BY <1>1, <2>1
<1>4. h[1] = p /\ h[2] = <<>> /\ h[3] = <<>> /\ h = <<h[1], h[2], h[3]>>
  OBVIOUS
<1> HIDE DEF h
<1>5. Cardinality({}) < Cardinality({p})
  BY <1>1, PartIsSmaller
<1>6. Under({p}, h, {}, {})
  BY <1>2, <1>4, <1>5 DEF Under
<1>7. OrderedAt(h, s)
  BY <1>4 DEF OrderedAt
<1>8. InOrder({p}, h, s)
  BY <1>1, <1>3, <1>4, <1>6, <1>7, OrderOfNone, OrderOver
<1> QED
  BY <1>3, <1>8 DEF Holds, h

\* skew_heap_insert adds a process that is not in the heap.
LEMMA InsertHolds ==
  ASSUME NEW R \in SUBSET Procs, NEW p \in Procs \ R, NEW h, NEW s, Holds(h, s, R)
  PROVE  Holds(Insert(h, p, s), s, R \union {p})
<1> DEFINE b == <<p, <<>>, <<>>>>
           m == Merge(h, b, s)
<1>1. b \in Heaps[{p}] /\ InOrder({p}, b, s)
  BY OneHolds DEF Holds
<1> HIDE DEF b
<1>2. R \cap {p} = {} /\ {p} \in SUBSET Procs
  OBVIOUS
<1>3. Apart(h, b, R, {p})
  BY <1>1, <1>2 DEF Holds, Apart
<1>4. Joins(m, h, b, R, {p}, s)
  BY <1>2, <1>3, MergeJoins
<1> HIDE DEF m
<1>5. Holds(m, s, R \union {p})
  BY <1>1, <1>4 DEF Joins, Holds
<1> QED
  BY <1>5 DEF Insert, m, b

\* skew_heap_remove takes the process at the top out, whatever its own stride
\* has become.
LEMMA RemoveHolds ==
  ASSUME NEW R \in SUBSET Procs, NEW h, NEW s, NEW z, Holds(h, s, R), h # <<>>,
         \A p \in R \ {h[1]} : z[p] = s[p]
  PROVE  h[1] \in R /\ Holds(RemoveRoot(h, z), z, R \ {h[1]})
<1>1. h \in Heaps[R] /\ InOrder(R, h, s)
  BY DEF Holds
<1>2. PICK L, S : Under(R, h, L, S)
  BY <1>1, Decompose
<1>3. /\ L \in SUBSET Procs /\ S \in SUBSET Procs /\ L \cap S = {}
      /\ h[2] \in Heaps[L] /\ h[3] \in Heaps[S]
      /\ h[1] \in R /\ R \ {h[1]} = L \union S
  BY <1>2 DEF Under
<1>4. InOrder(L, h[2], s) /\ InOrder(S, h[3], s)
  BY <1>1, <1>2, OrderUnderTop
<1>5. (\A p \in L : z[p] = s[p]) /\ \A p \in S : z[p] = s[p]
  BY <1>3
<1>6. InOrder(L, h[2], z)
  BY <1>3, <1>4, <1>5, OrderSame
<1>7. InOrder(S, h[3], z)
  BY <1>3, <1>4, <1>5, OrderSame
<1>8. Apart(h[2], h[3], L, S)
  BY <1>3 DEF Apart
<1> DEFINE m == Merge(h[2], h[3], z)
<1>9. Joins(m, h[2], h[3], L, S, z)
  BY <1>3, <1>8, MergeJoins
<1> HIDE DEF m
<1>10. Holds(m, z, R \ {h[1]})
  BY <1>3, <1>6, <1>7, <1>9 DEF Joins, Holds
<1> QED
  BY <1>3, <1>10 DEF RemoveRoot, m

\* The heap is empty when nobody is in it.
LEMMA EmptyHolds ==
  ASSUME NEW R \in SUBSET Procs, NEW h, NEW s, Holds(h, s, R)
  PROVE  h = <<>> <=> R = {}
BY EmptyHeap DEF Holds

----------------------------------------------------------------------------
(* The invariant, one action at a time.                                    *)

\* The processes that wait for the CPU.
Waiting == Ready \ {current}

\* A process that is executing its own code is runnable.
CurrentRuns == Running => state[current] = "RUNNABLE"

IInv == /\ TypeOK
        /\ Holds(pool, lab6_stride, Waiting)
        /\ CurrentRuns

\* A heap of processes is a heap.
LEMMA HoldsType ==
  ASSUME NEW R \in SUBSET Procs, NEW h, NEW s, Holds(h, s, R)
  PROVE  h \in Heap
BY DEF Holds, Heap

\* stride_enqueue leaves a process with a slice in range.
LEMMA GrantedSlice ==
  ASSUME NEW slice \in Nat
  PROVE  Granted(slice) \in 0 .. max_time_slice
BY StrideAssumption DEF Granted

\* A turn leaves a word.
LEMMA AdvancedIsWord ==
  ASSUME NEW m \in Word, NEW n \in Nat
  PROVE  Advanced(m, Pass(n)) \in Word
<1>1. Pass(n) \in 0 .. BIG_STRIDE
  BY TurnIsAtMostHalf
<1> QED
  BY <1>1, WidthAssumption DEF Advanced, Word, Words

\* The waiting processes after a change of one process's state.
LEMMA WaitingAfter ==
  ASSUME TypeOK, NEW p \in Procs, NEW s \in States,
         state' = [state EXCEPT ![p] = s], current' = current
  PROVE  Waiting' = IF s = "RUNNABLE" /\ p # current THEN Waiting \union {p}
                    ELSE Waiting \ {p}
<1>1. \A q \in Procs : state'[q] = IF q = p THEN s ELSE state[q]
  BY DEF TypeOK, AllProcs
<1> QED
  BY <1>1 DEF Waiting, Ready

\* Of a process that is not waiting the stride does not matter.
LEMMA StrideHolds ==
  ASSUME NEW R \in SUBSET Procs, NEW p \in Procs \ R, NEW n, NEW h, NEW s,
         s \in [Procs -> Word], Holds(h, s, R)
  PROVE  Holds(h, [s EXCEPT ![p] = n], R)
<1> DEFINE z == [s EXCEPT ![p] = n]
<1>1. \A q \in R : z[q] = s[q]
  OBVIOUS
<1> HIDE DEF z
<1>2. Holds(h, z, R)
  BY <1>1, OrderSame DEF Holds
<1> QED
  BY <1>2 DEF z

LEMMA InitInv == Init => IInv
<1> SUFFICES ASSUME Init PROVE IInv
  OBVIOUS
<1>1. PICK init \in Procs :
        /\ state = [p \in AllProcs |->
                      IF p \in {Idle, init} THEN "RUNNABLE" ELSE "UNINIT"]
        /\ current = Idle
        /\ leaving = FALSE
        /\ need_resched = [p \in AllProcs |-> p = Idle]
        /\ pool = <<init, <<>>, <<>>>>
        /\ lab6_stride = [p \in Procs |-> 0]
        /\ lab6_priority = [p \in Procs |-> 0]
        /\ time_slice = [p \in Procs |-> IF p = init THEN max_time_slice ELSE 0]
  BY DEF Init
<1>2. Idle \notin Procs /\ max_time_slice \in Nat \ {0} /\ 0 \in Word
  BY StrideAssumption, WidthAssumption DEF Word, Words
<1>3. Waiting = {init}
  BY <1>1, <1>2 DEF Waiting, Ready, AllProcs
<1>4. Holds(pool, lab6_stride, Waiting)
  BY <1>1, <1>3, OneHolds
<1>5. TypeOK
  <2>1. pool \in Heap
    BY <1>3, <1>4, HoldsType
  <2>2. state \in [AllProcs -> States] /\ current \in AllProcs
    BY <1>1 DEF AllProcs, States
  <2>3. leaving \in BOOLEAN /\ need_resched \in [AllProcs -> BOOLEAN]
    BY <1>1
  <2>4. lab6_stride \in [Procs -> Word] /\ lab6_priority \in [Procs -> Nat]
    BY <1>1, <1>2
  <2>5. time_slice \in [Procs -> 0 .. max_time_slice]
    BY <1>1, <1>2
  <2> QED
    BY <2>1, <2>2, <2>3, <2>4, <2>5 DEF TypeOK
<1>6. CurrentRuns
  BY <1>1, <1>2 DEF CurrentRuns, Running
<1> QED
  BY <1>4, <1>5, <1>6 DEF IInv

\* wakeup_proc of a process that is not in the pool enqueues it.
LEMMA EnqueueInv ==
  ASSUME IInv, NEW p \in Procs \ Waiting, Enqueue(p)
  PROVE  /\ Holds(pool', lab6_stride, Waiting \union {p})
         /\ pool' \in Heap
         /\ time_slice' \in [Procs -> 0 .. max_time_slice]
<1>1. Waiting \in SUBSET Procs /\ Waiting \union {p} \in SUBSET Procs
  BY DEF Waiting, Ready
<1>2. Holds(pool', lab6_stride, Waiting \union {p})
  BY <1>1, InsertHolds DEF IInv, Enqueue
<1>3. time_slice' \in [Procs -> 0 .. max_time_slice]
  <2>1. time_slice[p] \in Nat
    BY DEF IInv, TypeOK
  <2>2. Granted(time_slice[p]) \in 0 .. max_time_slice
    BY <2>1, GrantedSlice
  <2> QED
    BY <2>2 DEF IInv, TypeOK, Enqueue
<1> QED
  BY <1>1, <1>2, <1>3, HoldsType

\* do_fork
LEMMA ForkInv == ASSUME IInv, NEW p \in Procs, Fork(p) PROVE IInv'
<1>1. /\ state' = [state EXCEPT ![p] = "RUNNABLE"]
      /\ state[p] = "UNINIT" /\ Enqueue(p)
      /\ current' = current /\ leaving' = leaving /\ need_resched' = need_resched
      /\ lab6_stride' = lab6_stride /\ lab6_priority' = lab6_priority
      /\ current \in Procs /\ ~ leaving
  BY DEF Fork, Running
<1>2. p # current /\ p \notin Waiting
  BY <1>1 DEF IInv, CurrentRuns, Running, Waiting, Ready
<1>3. Waiting' = Waiting \union {p}
  BY <1>1, <1>2, WaitingAfter DEF IInv, States
<1>4. Holds(pool', lab6_stride', Waiting') /\ pool' \in Heap
      /\ time_slice' \in [Procs -> 0 .. max_time_slice]
  BY <1>1, <1>2, <1>3, EnqueueInv
<1>5. TypeOK'
  BY <1>1, <1>4 DEF IInv, TypeOK, AllProcs, States
<1>6. CurrentRuns'
  BY <1>1, <1>2 DEF IInv, TypeOK, CurrentRuns, Running, AllProcs
<1> QED
  BY <1>4, <1>5, <1>6 DEF IInv

\* wakeup_proc
LEMMA WakeupInv == ASSUME IInv, NEW p \in Procs, Wakeup(p) PROVE IInv'
<1>1. /\ state' = [state EXCEPT ![p] = "RUNNABLE"]
      /\ state[p] = "SLEEPING"
      /\ current' = current /\ leaving' = leaving /\ need_resched' = need_resched
      /\ lab6_stride' = lab6_stride /\ lab6_priority' = lab6_priority
      /\ p # current => Enqueue(p)
      /\ p = current => pool' = pool /\ time_slice' = time_slice
  BY DEF Wakeup
<1>2. p \notin Waiting
  BY <1>1 DEF Waiting, Ready
<1>3. Holds(pool', lab6_stride', Waiting') /\ pool' \in Heap
      /\ time_slice' \in [Procs -> 0 .. max_time_slice]
  <2>1. CASE p # current
    <3>1. Waiting' = Waiting \union {p}
      BY <1>1, <2>1, WaitingAfter DEF IInv, States
    <3> QED
      BY <1>1, <1>2, <2>1, <3>1, EnqueueInv
  <2>2. CASE p = current
    <3>1. Waiting' = Waiting
      <4>1. Waiting' = Waiting \ {p}
        BY <1>1, <2>2, WaitingAfter DEF IInv, States
      <4> QED
        BY <1>2, <4>1
    <3> QED
      BY <1>1, <2>2, <3>1 DEF IInv, TypeOK
  <2> QED
    BY <2>1, <2>2
<1>4. TypeOK'
  BY <1>1, <1>3 DEF IInv, TypeOK, AllProcs, States
<1>5. CurrentRuns'
  BY <1>1 DEF IInv, TypeOK, CurrentRuns, Running, AllProcs
<1> QED
  BY <1>3, <1>4, <1>5 DEF IInv

\* do_wait frees a zombie.
LEMMA ReapInv == ASSUME IInv, NEW p \in Procs, Reap(p) PROVE IInv'
<1>1. /\ state' = [state EXCEPT ![p] = "UNINIT"]
      /\ state[p] = "ZOMBIE"
      /\ time_slice' = [time_slice EXCEPT ![p] = 0]
      /\ lab6_stride' = [lab6_stride EXCEPT ![p] = 0]
      /\ lab6_priority' = [lab6_priority EXCEPT ![p] = 0]
      /\ current' = current /\ leaving' = leaving
      /\ need_resched' = need_resched /\ pool' = pool
      /\ current \in Procs /\ ~ leaving
  BY DEF Reap, Running
<1>2. p # current /\ p \notin Waiting /\ Waiting \in SUBSET Procs
  BY <1>1 DEF IInv, CurrentRuns, Running, Waiting, Ready
<1>3. Waiting' = Waiting
  <2>1. Waiting' = Waiting \ {p}
    BY <1>1, WaitingAfter DEF IInv, States
  <2> QED
    BY <1>2, <2>1
<1>4. Holds(pool', lab6_stride', Waiting')
  <2>1. lab6_stride \in [Procs -> Word] /\ Holds(pool, lab6_stride, Waiting)
    BY DEF IInv, TypeOK
  <2>2. Holds(pool, [lab6_stride EXCEPT ![p] = 0], Waiting)
    BY <1>2, <2>1, StrideHolds
  <2> QED
    BY <1>1, <1>3, <2>2
<1>5. TypeOK'
  <2>1. 0 \in Word /\ 0 \in 0 .. max_time_slice /\ 0 \in Nat
    BY StrideAssumption, WidthAssumption DEF Word, Words
  <2> QED
    BY <1>1, <2>1 DEF IInv, TypeOK, AllProcs, States
<1>6. CurrentRuns'
  BY <1>1, <1>2 DEF IInv, TypeOK, CurrentRuns, Running, AllProcs
<1> QED
  BY <1>4, <1>5, <1>6 DEF IInv

\* do_wait and do_exit, up to their call of schedule()
LEMMA LeaveInv ==
  ASSUME IInv, NEW s \in {"SLEEPING", "ZOMBIE"}, Leave(s) PROVE IInv'
<1>1. /\ state' = [state EXCEPT ![current] = s]
      /\ leaving' = TRUE
      /\ UNCHANGED <<current, need_resched, pool, lab6_stride, lab6_priority, time_slice>>
      /\ current \in Procs
  BY DEF Leave, Running
<1>2. Waiting' = Waiting
  <2>1. Waiting' = Waiting \ {current}
    BY <1>1, WaitingAfter DEF IInv, States
  <2> QED
    BY <2>1 DEF Waiting
<1>3. Holds(pool', lab6_stride', Waiting')
  BY <1>1, <1>2 DEF IInv
<1>4. TypeOK'
  BY <1>1 DEF IInv, TypeOK, AllProcs, States
<1>5. CurrentRuns'
  BY <1>1 DEF CurrentRuns, Running
<1> QED
  BY <1>3, <1>4, <1>5 DEF IInv

\* do_yield and lab6_set_priority
LEMMA OwnInv ==
  ASSUME IInv, Yield \/ \E n \in Priorities : SetPriority(n) PROVE IInv'
<1>1. /\ UNCHANGED <<state, current, leaving, pool, lab6_stride, time_slice>>
      /\ current \in Procs
  BY DEF Yield, SetPriority, Running
<1>2. Waiting' = Waiting
  BY <1>1 DEF Waiting, Ready
<1>3. Holds(pool', lab6_stride', Waiting') /\ CurrentRuns'
  BY <1>1, <1>2 DEF IInv, CurrentRuns, Running
<1>4. need_resched' \in [AllProcs -> BOOLEAN] /\ lab6_priority' \in [Procs -> Nat]
  <2>1. CASE Yield
    BY <2>1 DEF Yield, IInv, TypeOK
  <2>2. ASSUME NEW n \in Priorities, SetPriority(n)
        PROVE  need_resched' \in [AllProcs -> BOOLEAN] /\ lab6_priority' \in [Procs -> Nat]
    BY <2>2, StrideAssumption DEF SetPriority, IInv, TypeOK
  <2> QED
    BY <2>1, <2>2
<1>5. TypeOK'
  BY <1>1, <1>4 DEF IInv, TypeOK
<1> QED
  BY <1>3, <1>5 DEF IInv

\* run_timer_list
LEMMA TickInv == ASSUME IInv, Tick PROVE IInv'
<1>1. UNCHANGED <<state, current, leaving, pool, lab6_stride, lab6_priority>>
      /\ Waiting' = Waiting
  BY DEF Tick, Waiting, Ready
<1>2. Holds(pool', lab6_stride', Waiting') /\ CurrentRuns'
  BY <1>1 DEF IInv, CurrentRuns, Running
<1>3. /\ need_resched' \in [AllProcs -> BOOLEAN]
      /\ time_slice' \in [Procs -> 0 .. max_time_slice]
  <2>1. CASE current = Idle
    BY <2>1 DEF Tick, IInv, TypeOK
  <2>2. CASE current # Idle
    <3> DEFINE left == IF time_slice[current] > 0 THEN time_slice[current] - 1
                       ELSE time_slice[current]
    <3>1. /\ time_slice' = [time_slice EXCEPT ![current] = left]
          /\ need_resched' = [need_resched EXCEPT ![current] =
                                @ \/ time_slice'[current] = 0]
      BY <2>2 DEF Tick, ProcTick
    <3>2. current \in Procs
      BY <2>2 DEF IInv, TypeOK, AllProcs
    <3>3. left \in 0 .. max_time_slice
      BY <3>2, StrideAssumption DEF IInv, TypeOK
    <3> HIDE DEF left
    <3> QED
      BY <3>1, <3>2, <3>3 DEF IInv, TypeOK, AllProcs
  <2> QED
    BY <2>1, <2>2
<1>4. TypeOK'
  BY <1>1, <1>3 DEF IInv, TypeOK
<1> QED
  BY <1>2, <1>4 DEF IInv

\* After schedule() put the current process back, the heap holds all that are
\* runnable.
LEMMA RequeuedHolds ==
  ASSUME IInv PROVE Holds(Requeued, lab6_stride, Ready)
<1>1. CASE GoesOn
  <2>1. current \in Procs \ Waiting /\ Waiting \in SUBSET Procs
    BY <1>1 DEF GoesOn, IInv, TypeOK, AllProcs, Waiting, Ready
  <2>2. Ready = Waiting \union {current}
    BY <1>1, <2>1 DEF GoesOn, Waiting, Ready
  <2> QED
    BY <1>1, <2>1, <2>2, InsertHolds DEF IInv, Requeued
<1>2. CASE ~ GoesOn
  <2>1. Ready = Waiting
    BY <1>2, StrideAssumption DEF GoesOn, Waiting, Ready
  <2> QED
    BY <1>2, <2>1 DEF IInv, Requeued
<1> QED
  BY <1>1, <1>2

\* What schedule() does.
LEMMA ScheduleEffect ==
  ASSUME IInv, Schedule
  PROVE  \/ /\ Ready = {}
            /\ current' = Idle
            /\ lab6_stride' = lab6_stride
            /\ Holds(pool', lab6_stride', {})
         \/ /\ current' \in Ready
            /\ Requeued # <<>> /\ current' = Requeued[1]
            /\ lab6_stride' = [lab6_stride EXCEPT ![current'] =
                                 Advanced(@, Pass(lab6_priority[current']))]
            /\ Holds(pool', lab6_stride', Ready \ {current'})
<1>1. Holds(Requeued, lab6_stride, Ready) /\ Ready \in SUBSET Procs
  BY RequeuedHolds DEF Ready
<1>2. CASE Requeued = <<>>
  <2>1. current' = Idle /\ pool' = <<>> /\ lab6_stride' = lab6_stride
    BY <1>2 DEF Schedule
  <2>2. Ready = {}
    BY <1>1, <1>2, EmptyHolds
  <2> QED
    BY <1>1, <1>2, <2>1, <2>2
<1>3. CASE Requeued # <<>>
  <2>1. /\ current' = Requeued[1]
        /\ lab6_stride' = [lab6_stride EXCEPT ![current'] =
                             Advanced(@, Pass(lab6_priority[current']))]
        /\ pool' = RemoveRoot(Requeued, lab6_stride')
    BY <1>3 DEF Schedule
  <2>2. \A p \in Ready \ {Requeued[1]} : lab6_stride'[p] = lab6_stride[p]
    BY <1>1, <2>1 DEF IInv, TypeOK
  <2>3. Requeued[1] \in Ready
        /\ Holds(RemoveRoot(Requeued, lab6_stride'), lab6_stride', Ready \ {Requeued[1]})
    BY <1>1, <1>3, <2>2, RemoveHolds
  <2> QED
    BY <1>3, <2>1, <2>3
<1> QED
  BY <1>2, <1>3

\* schedule()
LEMMA ScheduleInv == ASSUME IInv, Schedule PROVE IInv'
<1>1. /\ leaving' = FALSE
      /\ need_resched' = [need_resched EXCEPT ![current] = FALSE]
      /\ state' = state /\ lab6_priority' = lab6_priority
      /\ time_slice' = [p \in Procs |-> IF GoesOn /\ p = current
                                        THEN Granted(time_slice[p]) ELSE time_slice[p]]
  BY DEF Schedule
<1>2. Idle \notin Procs /\ Ready \in SUBSET Procs /\ Waiting' = Ready \ {current'}
  BY <1>1, StrideAssumption DEF Ready, Waiting
<1>3. /\ current' \in AllProcs
      /\ current' \in Procs => state[current'] = "RUNNABLE"
      /\ Holds(pool', lab6_stride', Waiting')
      /\ lab6_stride' \in [Procs -> Word]
  <2>1. CASE /\ Ready = {}
             /\ current' = Idle
             /\ lab6_stride' = lab6_stride
             /\ Holds(pool', lab6_stride', {})
    BY <1>2, <2>1 DEF AllProcs, IInv, TypeOK
  <2>2. CASE /\ current' \in Ready
             /\ Requeued # <<>> /\ current' = Requeued[1]
             /\ lab6_stride' = [lab6_stride EXCEPT ![current'] =
                                  Advanced(@, Pass(lab6_priority[current']))]
             /\ Holds(pool', lab6_stride', Ready \ {current'})
    <3>1. current' \in Procs /\ state[current'] = "RUNNABLE"
      BY <2>2 DEF Ready
    <3>2. lab6_stride \in [Procs -> Word] /\ lab6_stride[current'] \in Word
          /\ lab6_priority[current'] \in Nat
      BY <3>1 DEF IInv, TypeOK
    <3>3. Advanced(lab6_stride[current'], Pass(lab6_priority[current'])) \in Word
      BY <3>2, AdvancedIsWord
    <3>4. lab6_stride' \in [Procs -> Word]
      BY <2>2, <3>2, <3>3
    <3> QED
      BY <1>2, <2>2, <3>1, <3>4 DEF AllProcs
  <2> QED
    BY <2>1, <2>2, ScheduleEffect
<1>4. time_slice' \in [Procs -> 0 .. max_time_slice]
  <2>1. ASSUME NEW p \in Procs
        PROVE  time_slice[p] \in 0 .. max_time_slice
               /\ Granted(time_slice[p]) \in 0 .. max_time_slice
    <3>1. time_slice[p] \in 0 .. max_time_slice
      BY DEF IInv, TypeOK
    <3>2. time_slice[p] \in Nat
      BY <3>1
    <3> QED
      BY <3>1, <3>2, GrantedSlice
  <2> QED
    BY <1>1, <2>1
<1>5. Waiting' \in SUBSET Procs
  BY <1>2
<1>6. pool' \in Heap
  BY <1>3, <1>5, HoldsType
<1>7. need_resched' \in [AllProcs -> BOOLEAN]
  BY <1>1 DEF IInv, TypeOK
<1>8. TypeOK'
  BY <1>1, <1>3, <1>4, <1>6, <1>7 DEF IInv, TypeOK
<1>9. CurrentRuns'
  BY <1>1, <1>3 DEF CurrentRuns, Running
<1> QED
  BY <1>3, <1>8, <1>9 DEF IInv

\* Every step preserves the invariant.
LEMMA NextInv == IInv /\ [Next]_vars => IInv'
<1> SUFFICES ASSUME IInv, [Next]_vars PROVE IInv'
  OBVIOUS
<1>1. ASSUME NEW p \in Procs, Fork(p) PROVE IInv'
  BY <1>1, ForkInv
<1>2. ASSUME NEW p \in Procs, Wakeup(p) PROVE IInv'
  BY <1>2, WakeupInv
<1>3. ASSUME NEW p \in Procs, Reap(p) PROVE IInv'
  BY <1>3, ReapInv
<1>4. CASE Sleep
  BY <1>4, LeaveInv DEF Sleep
<1>5. CASE Exit
  BY <1>5, LeaveInv DEF Exit
<1>6. CASE Yield \/ \E n \in Priorities : SetPriority(n)
  BY <1>6, OwnInv
<1>7. CASE Tick
  BY <1>7, TickInv
<1>8. CASE Schedule
  BY <1>8, ScheduleInv
<1>9. CASE UNCHANGED vars
  BY <1>9 DEF vars, IInv, TypeOK, Waiting, Ready, CurrentRuns, Running
<1> QED
  BY <1>1, <1>2, <1>3, <1>4, <1>5, <1>6, <1>7, <1>8, <1>9 DEF Next

\* The heap holds those that wait, in order, in every behaviour of sched.c with
\* default_sched_class.
THEOREM Invariance == Spec => []IInv
<1>1. Init => IInv
  BY InitInv
<1>2. IInv /\ [Next]_vars => IInv'
  BY NextInv
<1> QED
  BY <1>1, <1>2, PTL DEF Spec

----------------------------------------------------------------------------
(* The properties of Stride.                                               *)

\* However insertions and removals shape the heap, a process stands in it once
\* when it is runnable and not running, and not at all otherwise.
THEOREM PoolAlwaysAgrees == Spec => []PoolAgrees
<1>1. IInv => PoolAgrees
  BY DEF IInv, Holds, Waiting, PoolAgrees
<1> QED
  BY <1>1, Invariance, PTL

\* The scheduler with this class implements SchedCore: it hands the CPU to a
\* runnable process whenever there is one, and to idleproc only otherwise.
THEOREM Refinement == Spec => ImplementsCore
<1>1. Init => Core!Init
  BY DEF Init, Core!Init, AllProcs, Core!AllProcs
<1>2. IInv /\ [Next]_vars => [Core!Next]_(Core!vars)
  <2> SUFFICES ASSUME IInv, [Next]_vars
               PROVE  Core!Next \/ UNCHANGED <<state, current>>
    BY DEF Core!vars
  <2>1. Running => Core!Running
    BY DEF IInv, CurrentRuns, Running, Core!Running
  <2>2. ASSUME NEW p \in Procs, Fork(p) PROVE Core!Fork(p)
    BY <2>1, <2>2 DEF Fork, Core!Fork, Core!SetState
  <2>3. ASSUME NEW p \in Procs, Wakeup(p) PROVE Core!Wakeup(p)
    BY <2>3 DEF Wakeup, Core!Wakeup, Core!SetState
  <2>4. ASSUME NEW p \in Procs, Reap(p) PROVE Core!Reap(p)
    BY <2>1, <2>4 DEF Reap, Core!Reap, Core!SetState
  <2>5. CASE Sleep
    BY <2>1, <2>5 DEF Sleep, Leave, Core!Next, Core!Sleep, Core!SetState
  <2>6. CASE Exit
    BY <2>1, <2>6 DEF Exit, Leave, Core!Next, Core!Exit, Core!SetState
  <2>7. CASE Yield \/ (\E n \in Priorities : SetPriority(n)) \/ Tick \/ UNCHANGED vars
    BY <2>7 DEF Yield, SetPriority, Tick, vars
  <2>8. CASE Schedule
    <3>1. state' = state
      BY <2>8 DEF Schedule
    <3>2. \/ Ready = {} /\ current' = Idle
          \/ current' \in Ready
      BY <2>8, ScheduleEffect
    <3> QED
      BY <3>1, <3>2 DEF Core!Next, Core!Schedule, Ready
  <2> QED
    BY <2>2, <2>3, <2>4, <2>5, <2>6, <2>7, <2>8 DEF Next, Core!Next
<1> QED
  BY <1>1, <1>2, Invariance, PTL DEF Spec, ImplementsCore, Core!Spec

\* Which steps change a stride: the turn of a process, and the end of a slot
\* that is reaped.
LEMMA StrideSteps ==
  ASSUME Next, lab6_stride' # lab6_stride
  PROVE  Schedule \/ \E p \in Procs : Reap(p)
BY DEF Next, Fork, Wakeup, SetPriority, Sleep, Exit, Leave, Yield, Tick

\* The process dispatched is the first of those that are ready, whenever their
\* strides have a first one.
LEMMA RootIsFirst ==
  ASSUME IInv, Requeued # <<>>, OnHalfCircle(Strides(Ready))
  PROVE  FirstOf(lab6_stride[Requeued[1]], Strides(Ready))
<1>1. Requeued \in Heaps[Ready] /\ InOrder(Ready, Requeued, lab6_stride)
      /\ Ready \in SUBSET Procs
  BY RequeuedHolds DEF Holds, Ready
<1>2. \A p \in Ready : lab6_stride[p] \in Word
  BY <1>1 DEF IInv, TypeOK
<1>3. PICK f \in Strides(Ready) : FirstOf(f, Strides(Ready))
  BY DEF OnHalfCircle
<1>4. AllAhead(f, Ready, lab6_stride)
  BY <1>2, <1>3 DEF AllAhead, FirstOf, Strides
<1>5. /\ Requeued[1] \in Ready
      /\ \A p \in Ready : Ahead(lab6_stride[Requeued[1]], f) <= Ahead(lab6_stride[p], f)
  BY <1>1, <1>4, TopIsFirst
<1>6. ASSUME NEW p \in Ready
      PROVE  Ahead(lab6_stride[p], lab6_stride[Requeued[1]]) <= BIG_STRIDE
  <2> DEFINE m == lab6_stride[Requeued[1]]
             n == lab6_stride[p]
  <2>1. f \in Word /\ m \in Word /\ n \in Word
        /\ Ahead(m, f) <= Ahead(n, f) /\ Ahead(n, f) <= BIG_STRIDE
    BY <1>2, <1>4, <1>5 DEF AllAhead
  <2> HIDE DEF m, n
  <2>2. Ahead(n, m) <= BIG_STRIDE
    BY <2>1, WidthAssumption DEF Ahead, Word, Words
  <2> QED
    BY <2>2 DEF m, n
<1> QED
  BY <1>6 DEF FirstOf, Strides

\* What a dispatch does to the strides of the ready processes: only that of
\* the process dispatched moves.
LEMMA DispatchedStrides ==
  ASSUME IInv, Schedule, Ready # {}
  PROVE  /\ current' \in Ready /\ Requeued # <<>> /\ current' = Requeued[1]
         /\ Ready' = Ready
         /\ Strides(Ready) = Strides(Ready \ {current'}) \union {lab6_stride[current']}
         /\ Strides(Ready)' = Strides(Ready \ {current'}) \union
                {Advanced(lab6_stride[current'], Pass(lab6_priority[current']))}
         /\ Strides(Ready) \in SUBSET Word
         /\ lab6_stride[current'] \in Word /\ lab6_priority[current'] \in Nat
<1>1. /\ current' \in Ready /\ Requeued # <<>> /\ current' = Requeued[1]
      /\ lab6_stride' = [lab6_stride EXCEPT ![current'] =
                           Advanced(@, Pass(lab6_priority[current']))]
  BY ScheduleEffect
<1>2. Ready' = Ready /\ Ready \in SUBSET Procs
  BY DEF Schedule, Ready
<1>3. lab6_stride \in [Procs -> Word] /\ lab6_priority \in [Procs -> Nat]
  BY DEF IInv, TypeOK
<1>4. \A p \in Ready : lab6_stride'[p] =
         IF p = current' THEN Advanced(lab6_stride[current'], Pass(lab6_priority[current']))
         ELSE lab6_stride[p]
  BY <1>1, <1>2, <1>3
<1>5. Strides(Ready) = Strides(Ready \ {current'}) \union {lab6_stride[current']}
  BY <1>1 DEF Strides
<1>6. Strides(Ready)' = Strides(Ready \ {current'}) \union
                {Advanced(lab6_stride[current'], Pass(lab6_priority[current']))}
  BY <1>1, <1>2, <1>4 DEF Strides
<1> QED
  BY <1>1, <1>2, <1>3, <1>5, <1>6 DEF Strides

\* stride_pick_next picks a process with the minimum value of stride, whatever
\* the strides were when the heap was built.
THEOREM LeastIsPicked == Spec => PicksMinimum
<1>1. ASSUME IInv, Next, current' \in Procs, lab6_stride'[current'] # lab6_stride[current'],
             OnHalfCircle(Strides(Ready' \ {current'}) \union {lab6_stride[current']})
      PROVE  FirstOf(lab6_stride[current'], Strides(Ready' \ {current'}))
  <2>1. CASE Schedule
    <3>1. Ready # {}
      <4>1. ASSUME Ready = {} PROVE FALSE
        BY <1>1, <2>1, <4>1, ScheduleEffect
      <4> QED
        BY <4>1
    <3>2. /\ Requeued # <<>> /\ current' = Requeued[1] /\ Ready' = Ready
          /\ Strides(Ready) = Strides(Ready \ {current'}) \union {lab6_stride[current']}
      BY <1>1, <2>1, <3>1, DispatchedStrides
    <3>3. FirstOf(lab6_stride[current'], Strides(Ready))
      BY <1>1, <3>2, RootIsFirst
    <3>4. Strides(Ready \ {current'}) \in SUBSET Strides(Ready)
      BY <3>2
    <3> QED
      BY <3>2, <3>3, <3>4 DEF FirstOf
  <2>2. ASSUME NEW p \in Procs, Reap(p) PROVE FALSE
    <3>1. current' = current /\ state[current] = "RUNNABLE" /\ state[p] = "ZOMBIE"
          /\ lab6_stride' = [lab6_stride EXCEPT ![p] = 0]
      BY <1>1, <2>2 DEF IInv, CurrentRuns, Reap
    <3> QED
      BY <1>1, <3>1 DEF IInv, TypeOK
  <2>3. lab6_stride' # lab6_stride
    BY <1>1
  <2> QED
    BY <1>1, <2>1, <2>2, <2>3, StrideSteps
<1>2. IInv /\ [Next]_vars =>
        [LET chosen == lab6_stride[current']
             others == Strides(Ready' \ {current'})
         IN  /\ current' \in Procs
             /\ lab6_stride'[current'] # chosen
             /\ OnHalfCircle(others \union {chosen})
             => FirstOf(chosen, others)]_lab6_stride
  BY <1>1 DEF vars
<1> QED
  BY <1>2, Invariance, PTL DEF Spec, PicksMinimum

\* The strides of those that are ready stay on one half of the circle: no turn,
\* whatever the priority, makes the comparison of two of them turn around.
THEOREM StaysInStep == Spec => StridesStayInStep
<1>1. ASSUME IInv, Next, lab6_stride' # lab6_stride,
             Ready' # {}, Ready' \in SUBSET Ready, OnHalfCircle(Strides(Ready))
      PROVE  OnHalfCircle(Strides(Ready)')
  <2>1. CASE Schedule
    <3>1. /\ Requeued # <<>> /\ current' = Requeued[1] /\ Ready' = Ready
          /\ Strides(Ready) = Strides(Ready \ {current'}) \union {lab6_stride[current']}
          /\ Strides(Ready)' = Strides(Ready \ {current'}) \union
                {Advanced(lab6_stride[current'], Pass(lab6_priority[current']))}
          /\ Strides(Ready) \in SUBSET Word
          /\ lab6_stride[current'] \in Word /\ lab6_priority[current'] \in Nat
      BY <1>1, <2>1, DispatchedStrides
    <3>2. FirstOf(lab6_stride[current'], Strides(Ready))
      BY <1>1, <3>1, RootIsFirst
    <3> DEFINE others == Strides(Ready \ {current'})
    <3>3. others \in SUBSET Word /\ FirstOf(lab6_stride[current'], others)
      BY <3>1, <3>2 DEF FirstOf
    <3> HIDE DEF others
    <3>4. OnHalfCircle(others \union
                {Advanced(lab6_stride[current'], Pass(lab6_priority[current']))})
      BY <3>1, <3>3, TurnKeepsHalfCircle
    <3> QED
      BY <3>1, <3>4 DEF others
  <2>2. ASSUME NEW p \in Procs, Reap(p) PROVE OnHalfCircle(Strides(Ready)')
    <3>1. state[p] = "ZOMBIE" /\ state' = [state EXCEPT ![p] = "UNINIT"]
          /\ lab6_stride' = [lab6_stride EXCEPT ![p] = 0]
      BY <2>2 DEF Reap
    <3>2. Ready' = Ready /\ \A q \in Ready : lab6_stride'[q] = lab6_stride[q]
      BY <1>1, <3>1 DEF IInv, TypeOK, Ready, AllProcs
    <3>3. Strides(Ready)' = Strides(Ready)
      BY <3>2 DEF Strides
    <3> QED
      BY <1>1, <3>3
  <2> QED
    BY <1>1, <2>1, <2>2, StrideSteps
<1>2. IInv /\ [Next]_vars =>
        [Ready' # {} /\ Ready' \subseteq Ready /\ OnHalfCircle(Strides(Ready))
          => OnHalfCircle(Strides(Ready)')]_lab6_stride
  BY <1>1 DEF vars
<1> QED
  BY <1>2, Invariance, PTL DEF Spec, StridesStayInStep
=============================================================================
