--------------------------- MODULE ProcLife_proofs ---------------------------
(***************************************************************************)
(* Proofs about the life of processes.                                     *)
(*                                                                         *)
(* The sibling lists are described by a function L from the processes to   *)
(* sequences: L[p] are the children of p, the youngest first.  Chains says *)
(* that the pointers link exactly these lists.  One lemma per pointer      *)
(* operation gives the lists that it leaves; from there on the proofs are  *)
(* about parents, states and the set of processes only.  The last part is  *)
(* about the pids of processes, which are in GetPid.                       *)
(***************************************************************************)
EXTENDS ProcLife, GetPid, SequenceFacts, FiniteSetTheorems, SequenceTheorems,
        TLAPS

LinksType == [parent : [Procs -> AllProcs \cup {NULL}],
              cptr   : [AllProcs -> Ptr],
              optr   : [Procs -> Ptr],
              yptr   : [Procs -> Ptr]]

\* The i-th entry of a list, and behind its ends the null pointer.
Nth(s, i) == IF i \in 1 .. Len(s) THEN s[i] ELSE NULL

\* The pointers o lead from each entry to the next, the pointers y from each
\* to the one before, and the one of the first is null.
Down(s, o) == \A i \in 1 .. Len(s) : o[s[i]] = Nth(s, i + 1)
Up(s, y) == \A i \in 2 .. Len(s) : y[s[i]] = s[i - 1]
Top(s, y) == s # <<>> => y[s[1]] = NULL

\* c before the first entry; the list without its k-th entry.
Push(c, s) == [i \in 1 .. Len(s) + 1 |-> IF i = 1 THEN c ELSE s[i - 1]]
Cut(s, k) == [i \in 1 .. Len(s) - 1 |-> IF i < k THEN s[i] ELSE s[i + 1]]

----------------------------------------------------------------------------
(* Lists.                                                                  *)

\* A list none of whose entries is touched stays linked as it is.
LEMMA KeepList ==
  ASSUME NEW s \in Seq(Procs), NEW o, NEW o2, NEW y, NEW y2,
         \A x \in Elems(s) : o2[x] = o[x] /\ y2[x] = y[x]
  PROVE  /\ Down(s, o) => Down(s, o2)
         /\ Up(s, y) => Up(s, y2)
         /\ Top(s, y) => Top(s, y2)
<1>1. \A i \in 1 .. Len(s) : s[i] \in Elems(s)
  BY DEF Elems
<1>2. s # <<>> => 1 \in 1 .. Len(s)
  OBVIOUS
<1>3. \A i \in 2 .. Len(s) : i \in 1 .. Len(s)
  OBVIOUS
<1> QED
  BY <1>1, <1>2, <1>3 DEF Down, Up, Top

\* A new first entry: its o leads to the old one, whose y leads back.
LEMMA PushList ==
  ASSUME NEW s \in Seq(Procs), Once(s), NEW c \in Procs, c \notin Elems(s),
         NEW o, NEW o2, NEW y, NEW y2, Down(s, o), Up(s, y),
         o2[c] = Nth(s, 1), y2[c] = NULL,
         \A x \in Elems(s) : o2[x] = o[x],
         s # <<>> => y2[s[1]] = c,
         \A x \in Elems(s) : x # s[1] => y2[x] = y[x]
  PROVE  /\ Push(c, s) \in Seq(Procs) /\ Once(Push(c, s))
         /\ Elems(Push(c, s)) = Elems(s) \cup {c}
         /\ Nth(Push(c, s), 1) = c
         /\ Down(Push(c, s), o2) /\ Up(Push(c, s), y2) /\ Top(Push(c, s), y2)
<1> DEFINE n == Len(s)
           r == Push(c, s)
<1>1. /\ n \in Nat /\ r \in Seq(Procs) /\ Len(r) = n + 1
      /\ r[1] = c
      /\ \A i \in 1 .. n : s[i] \in Elems(s) /\ s[i] # c /\ r[i + 1] = s[i]
  <2>1. n \in Nat /\ \A i \in 1 .. n : s[i] \in Elems(s) /\ s[i] # c /\ s[i] \in Procs
    BY DEF Elems
  <2>2. r \in [1 .. n + 1 -> Procs]
    BY <2>1 DEF Push
  <2>3. r \in Seq(Procs) /\ Len(r) = n + 1
    BY <2>1, <2>2
  <2> QED
    BY <2>1, <2>3 DEF Push
<1> HIDE DEF r
<1>2. \A i \in 1 .. n + 1 : i = 1 \/ i - 1 \in 1 .. n
  BY <1>1
<1>3. \A i \in 1 .. n + 1 : i # 1 => r[i] = s[i - 1]
  BY <1>1, <1>2
<1>4. Once(r)
  <2> SUFFICES ASSUME NEW i \in 1 .. n + 1, NEW j \in 1 .. n + 1, r[i] = r[j]
               PROVE  i = j
    BY <1>1 DEF Once
  <2>0. \A k \in 1 .. n + 1 : k # 1 => r[k] # c
    BY <1>1, <1>2, <1>3
  <2>1. i = 1 <=> j = 1
    BY <1>1, <2>0
  <2>2. CASE i # 1
    <3>1. i - 1 \in 1 .. n /\ j - 1 \in 1 .. n /\ s[i - 1] = s[j - 1]
      BY <1>2, <1>3, <2>1, <2>2
    <3>2. i - 1 = j - 1
      BY <3>1 DEF Once
    <3> QED
      BY <3>2
  <2> QED
    BY <2>1, <2>2
<1>5. Elems(r) = Elems(s) \cup {c}
  <2>1. \A i \in 1 .. n + 1 : r[i] \in Elems(s) \cup {c}
    BY <1>1, <1>2, <1>3
  <2>2. ASSUME NEW i \in 1 .. n
        PROVE  s[i] \in Elems(r)
    <3>1. i + 1 \in 1 .. n + 1 /\ r[i + 1] = s[i]
      BY <1>1
    <3> QED
      BY <1>1, <3>1 DEF Elems
  <2>3. c \in Elems(r)
    <3>1. 1 \in 1 .. n + 1
      BY <1>1
    <3> QED
      BY <1>1, <3>1 DEF Elems
  <2>4. ASSUME NEW x \in Elems(r)
        PROVE  x \in Elems(s) \cup {c}
    <3>1. PICK i \in 1 .. n + 1 : x = r[i]
      BY <1>1 DEF Elems
    <3> QED
      BY <2>1, <3>1
  <2>5. \A x \in Elems(s) : x \in Elems(r)
    BY <2>2 DEF Elems
  <2> QED
    BY <2>3, <2>4, <2>5
<1>6. Nth(r, 1) = c
  BY <1>1 DEF Nth
<1>7. \A i \in 1 .. n + 1 : Nth(r, i + 1) = Nth(s, i)
  BY <1>1 DEF Nth
<1>8. Down(r, o2)
  <2> SUFFICES ASSUME NEW i \in 1 .. n + 1
               PROVE  o2[r[i]] = Nth(s, i)
    BY <1>1, <1>7 DEF Down
  <2>1. CASE i = 1
    BY <1>1, <2>1
  <2>2. CASE i # 1
    <3>1. i - 1 \in 1 .. n /\ r[i] = s[i - 1] /\ (i - 1) + 1 = i
      BY <1>2, <1>3, <2>2
    <3>2. o2[s[i - 1]] = o[s[i - 1]]
      BY <1>1, <3>1
    <3>3. o[s[i - 1]] = Nth(s, i)
      BY <3>1 DEF Down
    <3> QED
      BY <3>1, <3>2, <3>3
  <2> QED
    BY <2>1, <2>2
<1>9. Up(r, y2)
  <2> SUFFICES ASSUME NEW i \in 2 .. n + 1
               PROVE  y2[r[i]] = r[i - 1]
    BY <1>1 DEF Up
  <2>1. CASE i = 2
    <3>1. 1 \in 1 .. n /\ s # <<>> /\ r[2] = s[1] /\ r[1] = c
      BY <1>1, <1>3, <2>1
    <3> QED
      BY <2>1, <3>1
  <2>2. CASE i # 2
    <3>1. /\ i - 1 \in 2 .. n /\ i - 1 \in 1 .. n /\ 1 \in 1 .. n
          /\ r[i] = s[i - 1] /\ r[i - 1] = s[i - 2]
          /\ (i - 1) - 1 = i - 2
      BY <1>1, <1>3, <2>2
    <3>2. s[i - 1] # s[1] /\ s[i - 1] \in Elems(s)
      BY <1>1, <3>1 DEF Once
    <3>3. y[s[i - 1]] = s[i - 2]
      BY <3>1 DEF Up
    <3> QED
      BY <3>1, <3>2, <3>3
  <2> QED
    BY <2>1, <2>2
<1>10. Top(r, y2)
  BY <1>1 DEF Top
<1> QED
  BY <1>1, <1>4, <1>5, <1>6, <1>8, <1>9, <1>10 DEF r

\* The list without its first entry.
LEMMA PopList ==
  ASSUME NEW s \in Seq(Procs), Once(s), s # <<>>,
         NEW o, NEW o2, NEW y, NEW y2, Down(s, o), Up(s, y),
         \A x \in Elems(s) \ {s[1]} : o2[x] = o[x] /\ y2[x] = y[x]
  PROVE  /\ s[1] \in Elems(s)
         /\ Tail(s) \in Seq(Procs) /\ Once(Tail(s))
         /\ Elems(Tail(s)) = Elems(s) \ {s[1]}
         /\ Len(Tail(s)) = Len(s) - 1
         /\ Nth(Tail(s), 1) = o[s[1]]
         /\ Down(Tail(s), o2) /\ Up(Tail(s), y2)
<1> DEFINE n == Len(s)
           r == Tail(s)
<1>1. /\ n \in Nat \ {0} /\ Head(s) = s[1] /\ r \in Seq(Procs)
      /\ Len(r) = n - 1
      /\ \A i \in 1 .. n - 1 : r[i] = s[i + 1]
  OBVIOUS
<1>2. /\ s[1] \in Elems(s) /\ Once(r) /\ Elems(r) = Elems(s) \ {s[1]}
  BY <1>1, TailOnce
<1> HIDE DEF r
<1>3. \A i \in 1 .. n - 1 : r[i] \in Elems(s) \ {s[1]}
  BY <1>1, <1>2 DEF Elems
<1>4. \A i \in 0 .. n : Nth(r, i) = IF i = 0 THEN NULL ELSE Nth(s, i + 1)
  BY <1>1 DEF Nth
<1>5. Nth(r, 1) = o[s[1]]
  BY <1>1, <1>4 DEF Down
<1>6. Down(r, o2)
  <2> SUFFICES ASSUME NEW i \in 1 .. n - 1
               PROVE  o2[r[i]] = Nth(r, i + 1)
    BY <1>1 DEF Down
  <2>1. i + 1 \in 1 .. n /\ i + 1 \in 0 .. n /\ i + 1 # 0
    BY <1>1
  <2>2. o[s[i + 1]] = Nth(s, (i + 1) + 1)
    BY <2>1 DEF Down
  <2>3. o2[r[i]] = o[s[i + 1]]
    BY <1>1, <1>3
  <2> QED
    BY <1>4, <2>1, <2>2, <2>3
<1>7. Up(r, y2)
  <2> SUFFICES ASSUME NEW i \in 2 .. n - 1
               PROVE  y2[r[i]] = r[i - 1]
    BY <1>1 DEF Up
  <2>1. i + 1 \in 2 .. n /\ i \in 1 .. n - 1 /\ i - 1 \in 1 .. n - 1
        /\ (i + 1) - 1 = i /\ (i - 1) + 1 = i
    BY <1>1
  <2>2. y[s[i + 1]] = s[i]
    BY <2>1 DEF Up
  <2>3. y2[r[i]] = y[s[i + 1]] /\ r[i - 1] = s[i]
    BY <1>1, <1>3, <2>1
  <2> QED
    BY <2>2, <2>3
<1> QED
  BY <1>1, <1>2, <1>5, <1>6, <1>7 DEF r

\* The neighbours of the k-th entry are linked to each other.
Bridged(s, k, o, o2, y, y2) ==
  \A x \in Elems(s) \ {s[k]} :
    /\ o2[x] = IF x = Nth(s, k - 1) THEN Nth(s, k + 1) ELSE o[x]
    /\ y2[x] = IF x = Nth(s, k + 1) THEN Nth(s, k - 1) ELSE y[x]

\* remove_links in a list: the neighbours of the k-th entry are linked to each
\* other, or the pointer to the first entry gets the second one.
LEMMA CutList ==
  ASSUME NEW s \in Seq(Procs), Once(s), NEW k \in 1 .. Len(s),
         NEW o, NEW o2, NEW y, NEW y2, Down(s, o), Up(s, y), Top(s, y),
         Bridged(s, k, o, o2, y, y2)
  PROVE  /\ Cut(s, k) \in Seq(Procs) /\ Once(Cut(s, k))
         /\ Elems(Cut(s, k)) = Elems(s) \ {s[k]}
         /\ Nth(Cut(s, k), 1) = IF k = 1 THEN Nth(s, 2) ELSE s[1]
         /\ Down(Cut(s, k), o2) /\ Up(Cut(s, k), y2) /\ Top(Cut(s, k), y2)
<1> DEFINE n == Len(s)
           r == Cut(s, k)
<1>1. /\ n \in Nat \ {0} /\ k \in 1 .. n
      /\ \A i \in 1 .. n : s[i] \in Elems(s) /\ s[i] \in Procs
      /\ \A i, j \in 1 .. n : i # j => s[i] # s[j]
  BY DEF Elems, Once
<1>2. /\ r \in Seq(Procs) /\ Len(r) = n - 1
      /\ \A i \in 1 .. n - 1 : r[i] = IF i < k THEN s[i] ELSE s[i + 1]
  <2>1. r \in [1 .. n - 1 -> Procs]
    BY <1>1 DEF Cut
  <2>2. r \in Seq(Procs) /\ Len(r) = n - 1
    BY <1>1, <2>1
  <2> QED
    BY <2>2 DEF Cut
<1> HIDE DEF r
<1> DEFINE at(i) == IF i < k THEN i ELSE i + 1
<1>3. \A i \in 1 .. n - 1 :
        at(i) \in 1 .. n /\ at(i) # k /\ r[i] = s[at(i)]
  BY <1>1, <1>2
<1>4. \A i \in 1 .. n - 1 : r[i] \in Elems(s) \ {s[k]}
  BY <1>1, <1>3
<1>5. Once(r)
  <2> SUFFICES ASSUME NEW i \in 1 .. n - 1, NEW j \in 1 .. n - 1, r[i] = r[j]
               PROVE  i = j
    BY <1>2 DEF Once
  <2>1. at(i) = at(j)
    BY <1>1, <1>3
  <2> QED
    BY <1>1, <2>1
<1>6. Elems(r) = Elems(s) \ {s[k]}
  <2>1. ASSUME NEW x \in Elems(r)
        PROVE  x \in Elems(s) \ {s[k]}
    <3>1. PICK i \in 1 .. n - 1 : x = r[i]
      BY <1>2 DEF Elems
    <3> QED
      BY <1>4, <3>1
  <2>2. ASSUME NEW x \in Elems(s) \ {s[k]}
        PROVE  x \in Elems(r)
    <3>1. PICK i \in 1 .. n : x = s[i]
      BY DEF Elems
    <3>2. PICK j \in 1 .. n - 1 : at(j) = i
      <4>1. CASE i < k
        <5>1. i \in 1 .. n - 1 /\ at(i) = i
          BY <1>1, <4>1
        <5> QED
          BY <5>1
      <4>2. CASE i > k
        <5>1. i - 1 \in 1 .. n - 1 /\ at(i - 1) = i
          BY <1>1, <4>2
        <5> QED
          BY <5>1
      <4> QED
        BY <1>1, <2>2, <3>1, <4>1, <4>2
    <3>3. r[j] = x
      BY <1>3, <3>1, <3>2
    <3> QED
      BY <1>2, <3>3 DEF Elems
  <2> QED
    BY <2>1, <2>2
<1>7. Nth(r, 1) = IF k = 1 THEN Nth(s, 2) ELSE s[1]
  BY <1>1, <1>2 DEF Nth
<1>8. /\ \A i \in 1 .. n : s[i] = Nth(s, k - 1) <=> i = k - 1
      /\ \A i \in 1 .. n : s[i] = Nth(s, k + 1) <=> i = k + 1
  <2>1. NULL \notin Procs
    BY LifeAssumption
  <2> QED
    BY <1>1, <2>1 DEF Nth
<1>9. Down(r, o2)
  <2> SUFFICES ASSUME NEW i \in 1 .. n - 1
               PROVE  o2[r[i]] = Nth(r, i + 1)
    BY <1>2 DEF Down
  <2>1. o2[r[i]] = IF at(i) = k - 1 THEN Nth(s, k + 1) ELSE o[s[at(i)]]
    <3>1. r[i] \in Elems(s) \ {s[k]}
      BY <1>4
    <3>2. o2[r[i]] = IF r[i] = Nth(s, k - 1) THEN Nth(s, k + 1) ELSE o[r[i]]
      BY <3>1 DEF Bridged
    <3>3. r[i] = Nth(s, k - 1) <=> at(i) = k - 1
      BY <1>3, <1>8
    <3> QED
      BY <1>3, <3>2, <3>3
  <2>2. o[s[at(i)]] = Nth(s, at(i) + 1)
    BY <1>3 DEF Down
  <2>3. Nth(r, i + 1) = IF i + 1 < k THEN Nth(s, i + 1) ELSE Nth(s, i + 2)
    BY <1>1, <1>2 DEF Nth
  <2>4. CASE i + 1 < k
    BY <1>1, <2>1, <2>2, <2>3, <2>4
  <2>5. CASE i + 1 = k
    BY <1>1, <2>1, <2>3, <2>5
  <2>6. CASE i + 1 > k
    BY <1>1, <2>1, <2>2, <2>3, <2>6
  <2> QED
    BY <1>1, <2>4, <2>5, <2>6
<1>10. ASSUME NEW i \in 1 .. n - 1
       PROVE  y2[r[i]] = IF at(i) = k + 1 THEN Nth(s, k - 1) ELSE y[s[at(i)]]
  <2>1. r[i] \in Elems(s) \ {s[k]}
    BY <1>4
  <2>2. y2[r[i]] = IF r[i] = Nth(s, k + 1) THEN Nth(s, k - 1) ELSE y[r[i]]
    BY <2>1 DEF Bridged
  <2>3. r[i] = Nth(s, k + 1) <=> at(i) = k + 1
    BY <1>3, <1>8
  <2> QED
    BY <1>3, <2>2, <2>3
<1>11. Up(r, y2)
  <2> SUFFICES ASSUME NEW i \in 2 .. n - 1
               PROVE  y2[r[i]] = r[i - 1]
    BY <1>2 DEF Up
  <2>1. i \in 1 .. n - 1 /\ i - 1 \in 1 .. n - 1
    BY <1>1
  <2>2. \A j \in 2 .. n : y[s[j]] = s[j - 1]
    BY DEF Up
  <2>3. r[i - 1] = IF i - 1 < k THEN s[i - 1] ELSE s[i]
    BY <1>2, <2>1
  <2>4. CASE i < k
    <3>1. y2[r[i]] = y[s[i]]
      BY <1>1, <1>10, <2>1, <2>4
    <3> QED
      BY <1>1, <2>2, <2>3, <2>4, <3>1
  <2>5. CASE i = k
    <3>1. y2[r[i]] = Nth(s, k - 1)
      BY <1>1, <1>10, <2>1, <2>5
    <3> QED
      BY <1>1, <2>3, <2>5, <3>1 DEF Nth
  <2>6. CASE i > k
    <3>1. y2[r[i]] = y[s[i + 1]] /\ i + 1 \in 2 .. n /\ (i + 1) - 1 = i
      BY <1>1, <1>10, <2>1, <2>6
    <3> QED
      BY <1>1, <2>2, <2>3, <2>6, <3>1
  <2> QED
    BY <1>1, <2>4, <2>5, <2>6
<1>12. Top(r, y2)
  <2> SUFFICES ASSUME r # <<>>
               PROVE  y2[r[1]] = NULL
    BY DEF Top
  <2>1. 1 \in 1 .. n - 1 /\ s # <<>>
    BY <1>1, <1>2
  <2>2. CASE k = 1
    <3>1. y2[r[1]] = Nth(s, 0)
      BY <1>1, <1>10, <2>1, <2>2
    <3> QED
      BY <3>1 DEF Nth
  <2>3. CASE k # 1
    <3>1. y2[r[1]] = y[s[1]]
      BY <1>1, <1>10, <2>1, <2>3
    <3> QED
      BY <2>1, <3>1 DEF Top
  <2> QED
    BY <2>2, <2>3
<1> QED
  BY <1>2, <1>5, <1>6, <1>7, <1>9, <1>11, <1>12 DEF r

----------------------------------------------------------------------------
(* The pointers of all the processes.                                      *)

\* L[p] is the list of the children of p, for the processes H, as the links t
\* have it; but for what the first entries have in yptr.
Forest(t, H, L) ==
  /\ t \in LinksType /\ H \subseteq Procs
  /\ L \in [AllProcs -> Seq(Procs)]
  /\ \A p \in AllProcs : Once(L[p])
  /\ \A p \in AllProcs, c \in Procs :
       c \in Elems(L[p]) <=> c \in H /\ t.parent[c] = p
  /\ \A p \in AllProcs : /\ t.cptr[p] = Nth(L[p], 1)
                         /\ Down(L[p], t.optr) /\ Up(L[p], t.yptr)

Tops(t, L, X) == \A p \in X : Top(L[p], t.yptr)

\* All but the list of p, which is being taken apart from the front.
TopsBut(t, L, p) == Tops(t, L, AllProcs \ {p})

\* The lists when the first child of p has become the first of init.
Adopted(L, p) == [L EXCEPT ![p] = Tail(@), ![InitProc] = Push(L[p][1], @)]

Chains(t, H, L) == Forest(t, H, L) /\ Tops(t, L, AllProcs)

\* No process is in two lists.
LEMMA OneParent ==
  ASSUME NEW t, NEW H, NEW L, Forest(t, H, L),
         NEW p \in AllProcs, NEW q \in AllProcs, NEW c,
         c \in Elems(L[p]), c \in Elems(L[q])
  PROVE  p = q
<1>1. c \in Procs
  BY ElemsType DEF Forest
<1> QED
  BY <1>1 DEF Forest

\* The first entry of a list, or null.
LEMMA NthOne ==
  ASSUME NEW s \in Seq(Procs)
  PROVE  /\ Nth(s, 1) = NULL <=> s = <<>>
         /\ s # <<>> => Nth(s, 1) = s[1] /\ s[1] \in Elems(s) /\ s[1] \in Procs
BY LifeAssumption DEF Nth, Elems

\* A round of the loop in do_exit: the first of the list of p becomes the first
\* of the list of init.
LEMMA AdoptOne ==
  ASSUME NEW t, NEW H, NEW L, Forest(t, H, L),
         NEW p \in Procs \ {InitProc}, TopsBut(t, L, p), L[p] # <<>>
  PROVE  LET u == AdoptByInit(t, p)
         IN  /\ Forest(u, H, Adopted(L, p)) /\ TopsBut(u, Adopted(L, p), p)
             /\ \A d \in Procs : u.parent[d] = IF d = L[p][1] THEN InitProc
                                               ELSE t.parent[d]
<1> DEFINE u == AdoptByInit(t, p)
           c == L[p][1]
           i == Nth(L[InitProc], 1)
           M == Adopted(L, p)
<1>1. /\ p \in AllProcs /\ InitProc \in AllProcs /\ InitProc \in Procs /\ p # InitProc
      /\ NULL \notin Procs
      /\ t \in LinksType /\ H \subseteq Procs
      /\ \A q \in AllProcs : L[q] \in Seq(Procs) /\ Elems(L[q]) \subseteq Procs
  BY LifeAssumption, ElemsType DEF Forest, AllProcs
<1>2. /\ c \in Elems(L[p]) /\ c \in Procs /\ c # NULL /\ c \notin Elems(L[InitProc])
      /\ t.cptr[p] = c
  BY <1>1, NthOne, OneParent DEF Forest
<1>3. /\ t.parent \in [Procs -> AllProcs \cup {NULL}]
      /\ t.cptr \in [AllProcs -> Ptr]
      /\ t.optr \in [Procs -> Ptr]
      /\ t.yptr \in [Procs -> Ptr]
      /\ t = [parent |-> t.parent, cptr |-> t.cptr, optr |-> t.optr, yptr |-> t.yptr]
  BY <1>1 DEF LinksType
<1>4. /\ t.cptr[InitProc] = i
      /\ i = NULL <=> L[InitProc] = <<>>
      /\ i # NULL => i = L[InitProc][1] /\ i \in Elems(L[InitProc]) /\ i \in Procs
  BY <1>1, NthOne DEF Forest
<1> HIDE DEF c, i
<1>40. \A q \in AllProcs \ {p} : c \notin Elems(L[q])
  BY <1>1, <1>2, OneParent
<1>41. \A q \in AllProcs \ {InitProc} : i \notin Elems(L[q])
  <2> SUFFICES ASSUME NEW q \in AllProcs \ {InitProc}, i \in Elems(L[q])
               PROVE  FALSE
    OBVIOUS
  <2>1. i \in Elems(L[InitProc])
    BY <1>1, <1>4
  <2> QED
    BY <1>1, <2>1, OneParent
<1>42. \A q \in AllProcs : /\ Once(L[q]) /\ t.cptr[q] = Nth(L[q], 1)
                           /\ Down(L[q], t.optr) /\ Up(L[q], t.yptr)
  BY DEF Forest
<1> DEFINE v == [t EXCEPT !.cptr = [t.cptr EXCEPT ![p] = t.optr[c], ![InitProc] = c],
                          !.optr = [t.optr EXCEPT ![c] = i],
                          !.yptr = IF i = NULL THEN [t.yptr EXCEPT ![c] = NULL]
                                   ELSE [t.yptr EXCEPT ![c] = NULL, ![i] = c],
                          !.parent = [t.parent EXCEPT ![c] = InitProc]]
<1>5. u = v
  BY <1>1, <1>2, <1>3, <1>4 DEF AdoptByInit
<1>6. /\ u \in LinksType
      /\ u.parent = [t.parent EXCEPT ![c] = InitProc]
      /\ u.optr[c] = i /\ u.yptr[c] = NULL
      /\ i # NULL => u.yptr[i] = c
      /\ u.cptr[p] = t.optr[c] /\ u.cptr[InitProc] = c
      /\ \A q \in AllProcs \ {p, InitProc} : u.cptr[q] = t.cptr[q]
      /\ \A x \in Procs \ {c} : u.optr[x] = t.optr[x]
      /\ \A x \in Procs \ {c, i} : u.yptr[x] = t.yptr[x]
  <2>1. /\ u.parent = [t.parent EXCEPT ![c] = InitProc]
        /\ u.cptr = [t.cptr EXCEPT ![p] = t.optr[c], ![InitProc] = c]
        /\ u.optr = [t.optr EXCEPT ![c] = i]
    BY <1>1, <1>3, <1>5
  <2>2. u.yptr = IF i = NULL THEN [t.yptr EXCEPT ![c] = NULL]
                 ELSE [t.yptr EXCEPT ![c] = NULL, ![i] = c]
    BY <1>1, <1>3, <1>5
  <2>3. i \in Ptr /\ c \in Ptr /\ NULL \in Ptr /\ t.optr[c] \in Ptr
    BY <1>2, <1>3, <1>4 DEF Ptr
  <2>4. /\ u.parent \in [Procs -> AllProcs \cup {NULL}]
        /\ u.cptr \in [AllProcs -> Ptr] /\ u.optr \in [Procs -> Ptr]
    <3>1. u.parent \in [Procs -> AllProcs \cup {NULL}]
      <4>1. InitProc \in AllProcs \cup {NULL}
        BY <1>1
      <4>2. t.parent \in [Procs -> AllProcs \cup {NULL}]
        BY <1>3
      <4> HIDE DEF u
      <4> QED
        BY <2>1, <4>1, <4>2
    <3>2. u.cptr \in [AllProcs -> Ptr]
      BY <1>3, <2>1, <2>3
    <3>3. u.optr \in [Procs -> Ptr]
      BY <1>3, <2>1, <2>3
    <3> QED
      BY <3>1, <3>2, <3>3
  <2>5. u.yptr \in [Procs -> Ptr]
    BY <1>3, <2>2, <2>3
  <2>6. u \in LinksType
    <3>1. u = [parent |-> u.parent, cptr |-> u.cptr, optr |-> u.optr, yptr |-> u.yptr]
      BY <1>3, <1>5
    <3> QED
      BY <2>4, <2>5, <3>1 DEF LinksType
  <2>7. /\ u.optr[c] = i
        /\ u.cptr[p] = t.optr[c] /\ u.cptr[InitProc] = c
        /\ \A q \in AllProcs \ {p, InitProc} : u.cptr[q] = t.cptr[q]
        /\ \A x \in Procs \ {c} : u.optr[x] = t.optr[x]
    BY <1>1, <1>2, <1>3, <2>1
  <2>8. /\ u.yptr[c] = NULL
        /\ i # NULL => u.yptr[i] = c
        /\ \A x \in Procs \ {c, i} : u.yptr[x] = t.yptr[x]
    BY <1>2, <1>3, <1>4, <2>2
  <2> QED
    BY <2>1, <2>6, <2>7, <2>8
<1> HIDE DEF u
<1>7. /\ M[p] = Tail(L[p]) /\ M[InitProc] = Push(c, L[InitProc])
      /\ \A q \in AllProcs \ {p, InitProc} : M[q] = L[q]
      /\ M \in [AllProcs -> {M[q] : q \in AllProcs}]
  BY <1>1 DEF Forest, Adopted, c
<1> HIDE DEF M
<1>8. /\ M[p] \in Seq(Procs) /\ Once(M[p])
      /\ Elems(M[p]) = Elems(L[p]) \ {c}
      /\ u.cptr[p] = Nth(M[p], 1)
      /\ Down(M[p], u.optr) /\ Up(M[p], u.yptr)
  <2>1. \A x \in Elems(L[p]) \ {c} : x \in Procs /\ x # i
    BY <1>1, <1>41
  <2>2. \A x \in Elems(L[p]) \ {L[p][1]} :
          u.optr[x] = t.optr[x] /\ u.yptr[x] = t.yptr[x]
    BY <1>6, <2>1 DEF c
  <2>3. L[p] \in Seq(Procs) /\ L[p] # <<>> /\ Once(L[p])
        /\ Down(L[p], t.optr) /\ Up(L[p], t.yptr)
    BY <1>1, <1>42
  <2>4. /\ Tail(L[p]) \in Seq(Procs) /\ Once(Tail(L[p]))
        /\ Elems(Tail(L[p])) = Elems(L[p]) \ {L[p][1]}
        /\ Nth(Tail(L[p]), 1) = t.optr[L[p][1]]
        /\ Down(Tail(L[p]), u.optr) /\ Up(Tail(L[p]), u.yptr)
    BY <2>2, <2>3, PopList
  <2> QED
    BY <1>6, <1>7, <2>4 DEF c
<1>9. /\ M[InitProc] \in Seq(Procs) /\ Once(M[InitProc])
      /\ Elems(M[InitProc]) = Elems(L[InitProc]) \cup {c}
      /\ u.cptr[InitProc] = Nth(M[InitProc], 1)
      /\ Down(M[InitProc], u.optr) /\ Up(M[InitProc], u.yptr)
      /\ Top(M[InitProc], u.yptr)
  <2>1. \A x \in Elems(L[InitProc]) : x \in Procs /\ x # c
    BY <1>1, <1>2
  <2>2. \A x \in Elems(L[InitProc]) : u.optr[x] = t.optr[x]
    BY <1>6, <2>1
  <2>3. ASSUME NEW x \in Elems(L[InitProc]), x # L[InitProc][1]
        PROVE  u.yptr[x] = t.yptr[x]
    <3>1. L[InitProc] # <<>>
      BY EmptyOnce
    <3>2. x \in Procs \ {c, i}
      BY <1>4, <2>1, <2>3, <3>1
    <3> QED
      BY <1>6, <3>2
  <2>4. L[InitProc] # <<>> => u.yptr[L[InitProc][1]] = c
    BY <1>4, <1>6
  <2>5. u.optr[c] = Nth(L[InitProc], 1)
    BY <1>6 DEF i
  <2>6. L[InitProc] \in Seq(Procs) /\ Once(L[InitProc])
        /\ Down(L[InitProc], t.optr) /\ Up(L[InitProc], t.yptr)
    BY <1>1, <1>42
  <2> DEFINE s == L[InitProc]
  <2>7. /\ Push(c, s) \in Seq(Procs) /\ Once(Push(c, s))
        /\ Elems(Push(c, s)) = Elems(s) \cup {c}
        /\ Nth(Push(c, s), 1) = c
        /\ Down(Push(c, s), u.optr) /\ Up(Push(c, s), u.yptr) /\ Top(Push(c, s), u.yptr)
    <3> HIDE DEF s
    <3>1. /\ s \in Seq(Procs) /\ Once(s) /\ c \in Procs /\ c \notin Elems(s)
          /\ Down(s, t.optr) /\ Up(s, t.yptr)
          /\ u.optr[c] = Nth(s, 1) /\ u.yptr[c] = NULL
      BY <1>2, <1>6, <2>5, <2>6 DEF s
    <3>2. /\ \A x \in Elems(s) : u.optr[x] = t.optr[x]
          /\ s # <<>> => u.yptr[s[1]] = c
          /\ \A x \in Elems(s) : x # s[1] => u.yptr[x] = t.yptr[x]
      BY <2>2, <2>3, <2>4 DEF s
    <3> DEFINE o2 == u.optr
               y2 == u.yptr
    <3>3. /\ Down(s, t.optr) /\ Up(s, t.yptr)
          /\ o2[c] = Nth(s, 1) /\ y2[c] = NULL
          /\ \A x \in Elems(s) : o2[x] = t.optr[x]
          /\ s # <<>> => y2[s[1]] = c
          /\ \A x \in Elems(s) : x # s[1] => y2[x] = t.yptr[x]
      BY <3>1, <3>2
    <3> HIDE DEF o2, y2
    <3>4. /\ Push(c, s) \in Seq(Procs) /\ Once(Push(c, s))
          /\ Elems(Push(c, s)) = Elems(s) \cup {c}
          /\ Nth(Push(c, s), 1) = c
          /\ Down(Push(c, s), o2) /\ Up(Push(c, s), y2) /\ Top(Push(c, s), y2)
      BY <3>1, <3>3, PushList
    <3> QED
      BY <3>4 DEF o2, y2
  <2> QED
    BY <1>6, <1>7, <2>7
<1>10. ASSUME NEW q \in AllProcs \ {p, InitProc}
       PROVE  /\ M[q] \in Seq(Procs) /\ Once(M[q])
              /\ Elems(M[q]) = Elems(L[q])
              /\ u.cptr[q] = Nth(M[q], 1)
              /\ Down(M[q], u.optr) /\ Up(M[q], u.yptr) /\ Top(M[q], u.yptr)
  <2>1. \A x \in Elems(L[q]) : x \in Procs /\ x # c /\ x # i
    BY <1>1, <1>40, <1>41
  <2>2. \A x \in Elems(L[q]) : u.optr[x] = t.optr[x] /\ u.yptr[x] = t.yptr[x]
    BY <1>6, <2>1
  <2>3. /\ L[q] \in Seq(Procs) /\ Once(L[q]) /\ t.cptr[q] = Nth(L[q], 1)
        /\ Down(L[q], t.optr) /\ Up(L[q], t.yptr) /\ Top(L[q], t.yptr)
    BY <1>1, <1>42 DEF TopsBut, Tops
  <2>4. Down(L[q], u.optr) /\ Up(L[q], u.yptr) /\ Top(L[q], u.yptr)
    BY <2>2, <2>3, KeepList
  <2> QED
    BY <1>6, <1>7, <2>3, <2>4
<1>11. \A q \in AllProcs, x \in Procs :
         x \in Elems(M[q]) <=> x \in H /\ u.parent[x] = q
  <2>1. \A q \in AllProcs, x \in Procs :
          x \in Elems(L[q]) <=> x \in H /\ t.parent[x] = q
    BY DEF Forest
  <2>2. \A x \in Procs : u.parent[x] = IF x = c THEN InitProc ELSE t.parent[x]
    BY <1>2, <1>3, <1>6
  <2>3. c \in H
    BY <1>1, <1>2, <2>1
  <2>5. \A q \in AllProcs : Elems(M[q]) = IF q = p THEN Elems(L[q]) \ {c}
                                          ELSE IF q = InitProc THEN Elems(L[q]) \cup {c}
                                          ELSE Elems(L[q])
    BY <1>1, <1>8, <1>9, <1>10
  <2> SUFFICES ASSUME NEW q \in AllProcs, NEW x \in Procs
               PROVE  x \in Elems(M[q]) <=> x \in H /\ u.parent[x] = q
    OBVIOUS
  <2>6. x \in Elems(L[q]) <=> x \in H /\ t.parent[x] = q
    BY <2>1
  <2>7. CASE x = c
    BY <1>1, <1>40, <2>2, <2>3, <2>5, <2>7
  <2>8. CASE x # c
    BY <2>2, <2>5, <2>6, <2>8
  <2> QED
    BY <2>7, <2>8
<1>12. \A q \in AllProcs : q = p \/ q = InitProc \/ q \in AllProcs \ {p, InitProc}
  OBVIOUS
<1>13. M \in [AllProcs -> Seq(Procs)]
  BY <1>7, <1>8, <1>9, <1>10, <1>12
<1>14. Forest(u, H, M)
  BY <1>1, <1>6, <1>8, <1>9, <1>10, <1>11, <1>12, <1>13 DEF Forest
<1>15. TopsBut(u, M, p)
  BY <1>9, <1>10, <1>12 DEF TopsBut, Tops
<1>16. \A d \in Procs : u.parent[d] = IF d = c THEN InitProc ELSE t.parent[d]
  BY <1>2, <1>3, <1>6
<1> QED
  BY <1>14, <1>15, <1>16 DEF u, M, c

\* A list has at most as many entries as there are processes.
LEMMA ListBound ==
  ASSUME NEW s \in Seq(Procs), Once(s)
  PROVE  Cardinality(Procs) \in Nat /\ Len(s) <= Cardinality(Procs)
<1>1. Len(s) \in Nat /\ s \in [1 .. Len(s) -> Procs]
  OBVIOUS
<1>2. s \in Injection(1 .. Len(s), Procs)
  BY <1>1, Zenon DEF Injection, IsInjective, Once
<1>3. Cardinality(1 .. Len(s)) <= Cardinality(Procs)
  BY <1>2, LifeAssumption, FS_Injection
<1>4. Cardinality(1 .. Len(s)) = Len(s)
  BY <1>1, FS_Interval
<1> QED
  BY <1>3, <1>4, LifeAssumption, FS_CardinalityType

\* The walk of do_wait, from cptr along optr, meets the list of the children.
LEMMA KidsAreListed ==
  ASSUME NEW H, NEW L, Forest(links, H, L), NEW p \in AllProcs
  PROVE  Kids(p) = L[p]
<1> DEFINE s == L[p]
           N == Cardinality(Procs)
           F(f) == [n \in 1 .. N |->
                      IF n = 1 THEN links.cptr[p]
                      ELSE IF f[n - 1] = NULL THEN NULL ELSE links.optr[f[n - 1]]]
           g == [n \in 1 .. N |-> Nth(s, n)]
           K == CHOOSE f : f = F(f)
<1>1. /\ s \in Seq(Procs) /\ Once(s) /\ Len(s) \in Nat
      /\ N \in Nat /\ Len(s) <= N
      /\ links.cptr[p] = Nth(s, 1) /\ Down(s, links.optr)
      /\ NULL \notin Procs
      /\ \A i \in 1 .. Len(s) : s[i] \in Procs
  BY ListBound, LifeAssumption DEF Forest
<1> HIDE DEF s, N
<1>2. ASSUME NEW n \in 1 .. N, n # 1
      PROVE  Nth(s, n) = IF Nth(s, n - 1) = NULL THEN NULL
                         ELSE links.optr[Nth(s, n - 1)]
  <2>1. CASE n - 1 \in 1 .. Len(s)
    <3>1. Nth(s, n - 1) = s[n - 1] /\ s[n - 1] # NULL
      BY <1>1, <2>1 DEF Nth
    <3>2. links.optr[s[n - 1]] = Nth(s, (n - 1) + 1)
      BY <1>1, <2>1 DEF Down
    <3> QED
      BY <1>1, <3>1, <3>2
  <2>2. CASE n - 1 \notin 1 .. Len(s)
    <3>1. n \notin 1 .. Len(s)
      BY <1>1, <1>2, <2>2
    <3> QED
      BY <2>2, <3>1 DEF Nth
  <2> QED
    BY <2>1, <2>2
<1>3. g = F(g)
  <2> SUFFICES ASSUME NEW n \in 1 .. N
               PROVE  g[n] = F(g)[n]
    OBVIOUS
  <2>1. CASE n = 1
    BY <1>1, <2>1
  <2>2. CASE n # 1
    <3>1. n - 1 \in 1 .. N
      BY <1>1, <2>2
    <3> QED
      BY <1>2, <2>2, <3>1
  <2> QED
    BY <2>1, <2>2
<1>4. K = F(K)
  BY <1>3
<1> HIDE DEF K
<1>5. \A n \in 1 .. N : K[n] = Nth(s, n)
  <2> DEFINE Bad == {n \in 1 .. N : K[n] # Nth(s, n)}
  <2> SUFFICES ASSUME Bad # {}
               PROVE  FALSE
    OBVIOUS
  <2>1. PICK n \in Bad : \A k \in Bad : n <= k
    <3>1. Bad \in SUBSET Nat
      BY <1>1
    <3> HIDE DEF Bad
    <3> QED
      BY <3>1, LeastOf
  <2>2. n \in 1 .. N /\ K[n] # Nth(s, n)
    BY <2>1
  <2>3. n # 1
    BY <1>1, <1>4, <2>2
  <2>4. n - 1 \in 1 .. N /\ n - 1 \notin Bad
    BY <1>1, <2>1, <2>2, <2>3
  <2>5. K[n - 1] = Nth(s, n - 1)
    BY <2>4
  <2>6. K[n] = IF K[n - 1] = NULL THEN NULL ELSE links.optr[K[n - 1]]
    BY <1>4, <2>2, <2>3
  <2> QED
    BY <1>2, <2>2, <2>3, <2>5, <2>6
<1>6. {k \in 1 .. N : K[k] # NULL} = 1 .. Len(s)
  BY <1>1, <1>5 DEF Nth
<1>7. Kids(p) = [n \in {k \in 1 .. N : K[k] # NULL} |-> K[n]]
  BY DEF Kids, K, N
<1>8. Kids(p) = [n \in 1 .. Len(s) |-> s[n]]
  BY <1>1, <1>5, <1>6, <1>7 DEF Nth
<1>9. s = [n \in 1 .. Len(s) |-> s[n]]
  BY <1>1
<1> QED
  BY <1>8, <1>9 DEF s

\* The loop of do_exit can be run as often as it takes.
LEMMA LoopRuns ==
  ASSUME NEW p, NEW N \in Nat
  PROVE  \E f : f = [n \in 0 .. N |->
                       IF n = 0 THEN links
                       ELSE IF f[n - 1].cptr[p] = NULL THEN f[n - 1]
                       ELSE AdoptByInit(f[n - 1], p)]
<1> DEFINE R(t) == IF t.cptr[p] = NULL THEN t ELSE AdoptByInit(t, p)
           F(f, k) == [n \in 0 .. k |-> IF n = 0 THEN links ELSE R(f[n - 1])]
           Bad == {k \in Nat : ~ \E f : f = F(f, k)}
<1>1. Bad = {}
  <2> SUFFICES ASSUME Bad # {}
               PROVE  FALSE
    OBVIOUS
  <2>1. PICK k \in Bad : \A j \in Bad : k <= j
    <3>1. Bad \in SUBSET Nat
      OBVIOUS
    <3> HIDE DEF Bad
    <3> QED
      BY <3>1, LeastOf
  <2> HIDE DEF R
  <2>2. k \in Nat /\ ~ \E f : f = F(f, k)
    BY <2>1
  <2>3. k # 0
    <3> DEFINE f == [n \in 0 .. 0 |-> links]
    <3>1. f = F(f, 0)
      OBVIOUS
    <3> HIDE DEF f
    <3> QED
      BY <2>2, <3>1
  <2>4. k - 1 \in Nat /\ k - 1 \notin Bad
    <3> HIDE DEF Bad
    <3> QED
      BY <2>1, <2>2, <2>3
  <2>5. PICK f : f = F(f, k - 1)
    BY <2>4
  <2> DEFINE g == [n \in 0 .. k |-> IF n = k THEN R(f[k - 1]) ELSE f[n]]
  <2>6. ASSUME NEW n \in 0 .. k
        PROVE  g[n] = IF n = 0 THEN links ELSE R(g[n - 1])
    <3>1. CASE n = k
      <4>1. n - 1 \in 0 .. k /\ n - 1 # k
        BY <2>3, <3>1, <2>2
      <4> QED
        BY <2>3, <3>1, <4>1
    <3>2. CASE n # k
      <4>1. n \in 0 .. k - 1
        BY <2>2, <3>2
      <4>2. f[n] = IF n = 0 THEN links ELSE R(f[n - 1])
        BY <2>5, <4>1
      <4>3. n # 0 => n - 1 \in 0 .. k /\ n - 1 # k
        BY <2>2, <4>1
      <4> QED
        BY <3>2, <4>2, <4>3
    <3> QED
      BY <3>1, <3>2
  <2>7. g = F(g, k)
    BY <2>6
  <2> HIDE DEF g
  <2> QED
    BY <2>2, <2>7
<1>2. \E f : f = F(f, N)
  BY <1>1
<1> QED
  BY <1>2

\* The loop of do_exit gives all the children of p to init.
LEMMA AdoptAll ==
  ASSUME NEW H, NEW L, Chains(links, H, L), NEW p \in Procs \ {InitProc}
  PROVE  /\ \E M : Chains(OrphansToInit(p), H, M)
         /\ OrphansToInit(p).parent =
              [c \in Procs |-> IF c \in H /\ links.parent[c] = p THEN InitProc
                               ELSE links.parent[c]]
<1> DEFINE N == Cardinality(Procs)
           F(f) == [n \in 0 .. N |->
                      IF n = 0 THEN links
                      ELSE IF f[n - 1].cptr[p] = NULL THEN f[n - 1]
                      ELSE AdoptByInit(f[n - 1], p)]
           A == CHOOSE f : f = F(f)
           Given(t, M) ==
             \A c \in Procs :
               t.parent[c] = IF c \in H /\ links.parent[c] = p /\ c \notin Elems(M[p])
                             THEN InitProc ELSE links.parent[c]
           Good(n, M) == /\ Forest(A[n], H, M) /\ TopsBut(A[n], M, p)
                         /\ M[p] # <<>> => Len(M[p]) + n <= Len(L[p])
                         /\ Given(A[n], M)
<1>1. /\ Forest(links, H, L) /\ Tops(links, L, AllProcs) /\ p \in AllProcs
      /\ L[p] \in Seq(Procs) /\ Once(L[p]) /\ Len(L[p]) \in Nat
  BY DEF Chains, Forest, AllProcs
<1>2. N \in Nat /\ Len(L[p]) <= N
  BY <1>1, ListBound
<1> HIDE DEF N
<1>3. A = F(A)
  BY <1>2, LoopRuns
<1>4. OrphansToInit(p) = A[N]
  BY DEF OrphansToInit, A, N
<1> HIDE DEF A
<1>5. A[0] = links
  BY <1>2, <1>3
<1>6. \A n \in 1 .. N : A[n] = IF A[n - 1].cptr[p] = NULL THEN A[n - 1]
                               ELSE AdoptByInit(A[n - 1], p)
  BY <1>2, <1>3
<1>7. Good(0, L)
  <2>1. TopsBut(links, L, p)
    BY <1>1 DEF Tops, TopsBut
  <2>2. Given(links, L)
    BY <1>1 DEF Forest
  <2> QED
    BY <1>1, <1>5, <2>1, <2>2
<1>8. ASSUME NEW n \in 1 .. N, NEW M, Good(n - 1, M)
      PROVE  \E M2 : Good(n, M2)
  <2> DEFINE t == A[n - 1]
  <2>1. /\ Forest(t, H, M) /\ TopsBut(t, M, p) /\ Given(t, M)
        /\ M[p] # <<>> => Len(M[p]) + (n - 1) <= Len(L[p])
        /\ M[p] \in Seq(Procs) /\ Once(M[p]) /\ t.cptr[p] = Nth(M[p], 1)
        /\ A[n] = IF t.cptr[p] = NULL THEN t ELSE AdoptByInit(t, p)
    BY <1>1, <1>6, <1>8 DEF Forest
  <2> HIDE DEF t
  <2>2. CASE M[p] = <<>>
    <3>1. A[n] = t
      BY <2>1, <2>2, NthOne
    <3> QED
      BY <2>1, <2>2, <3>1
  <2>3. CASE M[p] # <<>>
    <3> DEFINE c == M[p][1]
               M2 == Adopted(M, p)
    <3>1. A[n] = AdoptByInit(t, p)
      BY <2>1, <2>3, NthOne
    <3>2. /\ Forest(A[n], H, M2) /\ TopsBut(A[n], M2, p)
          /\ \A d \in Procs : A[n].parent[d] = IF d = c THEN InitProc ELSE t.parent[d]
      <4>1. Forest(t, H, M) /\ TopsBut(t, M, p) /\ M[p] # <<>>
        BY <2>1, <2>3
      <4> DEFINE u == AdoptByInit(t, p)
      <4>2. /\ Forest(u, H, M2) /\ TopsBut(u, M2, p)
            /\ \A d \in Procs : u.parent[d] = IF d = c THEN InitProc ELSE t.parent[d]
        BY <4>1, AdoptOne
      <4> HIDE DEF M2
      <4> QED
        BY <3>1, <4>2
    <3>3. /\ c \in Elems(M[p]) /\ Len(Tail(M[p])) = Len(M[p]) - 1
          /\ Elems(Tail(M[p])) = Elems(M[p]) \ {c}
      <4>1. Down(M[p], t.optr) /\ Up(M[p], t.yptr)
        BY <1>1, <2>1 DEF Forest
      <4> QED
        BY <2>1, <2>3, <4>1, PopList
    <3>4. M2[p] = Tail(M[p])
      BY <1>1, <2>1 DEF Forest, Adopted
    <3> HIDE DEF c, M2
    <3>5. Len(M2[p]) + n <= Len(L[p])
      BY <1>1, <1>2, <2>1, <2>3, <3>3, <3>4
    <3>6. Given(A[n], M2)
      <4>1. /\ t.parent \in [Procs -> AllProcs \cup {NULL}]
            /\ c \in Procs /\ c \in H /\ t.parent[c] = p
        BY <1>1, <2>1, <3>3, ElemsType DEF Forest, LinksType
      <4>2. links.parent[c] = p
        BY <2>1, <3>3, <4>1
      <4> SUFFICES ASSUME NEW d \in Procs
                   PROVE  A[n].parent[d] =
                            IF d \in H /\ links.parent[d] = p /\ d \notin Elems(M2[p])
                            THEN InitProc ELSE links.parent[d]
        OBVIOUS
      <4>3. CASE d = c
        BY <3>2, <3>3, <3>4, <4>1, <4>2, <4>3
      <4>4. CASE d # c
        <5>1. A[n].parent[d] = t.parent[d]
          BY <3>2, <4>1, <4>4
        <5>2. d \in Elems(M2[p]) <=> d \in Elems(M[p])
          BY <3>3, <3>4, <4>4
        <5> QED
          BY <2>1, <5>1, <5>2
      <4> QED
        BY <4>3, <4>4
    <3> QED
      BY <3>2, <3>5, <3>6
  <2> QED
    BY <2>2, <2>3
<1> HIDE DEF Good
<1>9. \A n \in 0 .. N : \E M : Good(n, M)
  <2> DEFINE Bad == {n \in 0 .. N : ~ \E M : Good(n, M)}
  <2> SUFFICES ASSUME Bad # {}
               PROVE  FALSE
    OBVIOUS
  <2>1. PICK n \in Bad : \A k \in Bad : n <= k
    <3>1. Bad \in SUBSET Nat
      BY <1>2
    <3> HIDE DEF Bad
    <3> QED
      BY <3>1, LeastOf
  <2>2. n \in 0 .. N /\ ~ \E M : Good(n, M)
    BY <2>1
  <2>3. n # 0
    BY <1>7, <2>2
  <2>4. n - 1 \in 0 .. N /\ n \in 1 .. N /\ n - 1 \notin Bad
    <3> HIDE DEF Bad
    <3> QED
      BY <1>2, <2>1, <2>2, <2>3
  <2> QED
    BY <1>8, <2>2, <2>4
<1>10. PICK M : Good(N, M)
  BY <1>2, <1>9
<1>11. /\ Forest(A[N], H, M) /\ TopsBut(A[N], M, p) /\ Given(A[N], M)
       /\ M[p] # <<>> => Len(M[p]) + N <= Len(L[p])
       /\ M[p] \in Seq(Procs)
  BY <1>1, <1>10 DEF Forest, Good
<1>12. M[p] = <<>>
  BY <1>1, <1>2, <1>11
<1>13. Chains(A[N], H, M)
  BY <1>11, <1>12 DEF Chains, TopsBut, Tops, Top
<1>14. A[N].parent = [c \in Procs |-> IF c \in H /\ links.parent[c] = p THEN InitProc
                                      ELSE links.parent[c]]
  <2>1. DOMAIN A[N].parent = Procs /\ A[N].parent = [c \in Procs |-> A[N].parent[c]]
    BY <1>11 DEF Forest, LinksType
  <2>2. Elems(M[p]) = {}
    BY <1>12, EmptyOnce
  <2> QED
    BY <1>11, <2>1, <2>2
<1> QED
  BY <1>4, <1>13, <1>14

\* set_links: the new process becomes the first of the list of its parent.
LEMMA SetLinksLinks ==
  ASSUME NEW H, NEW L, Chains(links, H, L), NEW c \in Procs \ H,
         NEW q \in AllProcs \ {c}
  PROVE  LET u == SetLinks([links EXCEPT !.parent[c] = q], c)
         IN  /\ \E M : Chains(u, H \cup {c}, M)
             /\ u.parent = [links.parent EXCEPT ![c] = q]
<1> DEFINE u == SetLinks([links EXCEPT !.parent[c] = q], c)
           i == Nth(L[q], 1)
           M == [L EXCEPT ![q] = Push(c, @)]
<1>1. /\ c \in AllProcs /\ NULL \notin Procs
      /\ links \in LinksType /\ H \subseteq Procs
      /\ \A r \in AllProcs : L[r] \in Seq(Procs) /\ Elems(L[r]) \subseteq Procs
  BY LifeAssumption, ElemsType DEF Chains, Forest, AllProcs
<1>2. \A r \in AllProcs : /\ Once(L[r]) /\ links.cptr[r] = Nth(L[r], 1)
                          /\ Down(L[r], links.optr) /\ Up(L[r], links.yptr)
                          /\ Top(L[r], links.yptr) /\ c \notin Elems(L[r])
  BY DEF Chains, Forest, Tops
<1>3. /\ links.parent \in [Procs -> AllProcs \cup {NULL}]
      /\ links.cptr \in [AllProcs -> Ptr]
      /\ links.optr \in [Procs -> Ptr]
      /\ links.yptr \in [Procs -> Ptr]
      /\ links = [parent |-> links.parent, cptr |-> links.cptr,
                  optr |-> links.optr, yptr |-> links.yptr]
  BY <1>1 DEF LinksType
<1>4. /\ links.cptr[q] = i
      /\ i = NULL <=> L[q] = <<>>
      /\ i # NULL => i = L[q][1] /\ i \in Elems(L[q]) /\ i \in Procs /\ i # c
      /\ \A r \in AllProcs \ {q} : i \notin Elems(L[r])
  <2>1. /\ links.cptr[q] = i
        /\ i = NULL <=> L[q] = <<>>
        /\ i # NULL => i = L[q][1] /\ i \in Elems(L[q]) /\ i \in Procs /\ i # c
    BY <1>1, <1>2, NthOne
  <2>2. ASSUME NEW r \in AllProcs \ {q}, i \in Elems(L[r])
        PROVE  FALSE
    <3>1. i \in Elems(L[q]) /\ Forest(links, H, L)
      BY <1>1, <2>1, <2>2 DEF Chains
    <3> QED
      BY <2>2, <3>1, OneParent
  <2> QED
    BY <2>1, <2>2
<1> HIDE DEF i
<1> DEFINE v == [links EXCEPT !.parent = [links.parent EXCEPT ![c] = q],
                              !.yptr = IF i = NULL THEN [links.yptr EXCEPT ![c] = NULL]
                                       ELSE [links.yptr EXCEPT ![c] = NULL, ![i] = c],
                              !.optr = [links.optr EXCEPT ![c] = i],
                              !.cptr = [links.cptr EXCEPT ![q] = c]]
<1>5. u = v
  BY <1>1, <1>3, <1>4 DEF SetLinks
<1>6. /\ u \in LinksType
      /\ u.parent = [links.parent EXCEPT ![c] = q]
      /\ u.optr[c] = i /\ u.yptr[c] = NULL
      /\ i # NULL => u.yptr[i] = c
      /\ u.cptr[q] = c
      /\ \A r \in AllProcs \ {q} : u.cptr[r] = links.cptr[r]
      /\ \A x \in Procs \ {c} : u.optr[x] = links.optr[x]
      /\ \A x \in Procs \ {c, i} : u.yptr[x] = links.yptr[x]
  <2>1. /\ u.parent = [links.parent EXCEPT ![c] = q]
        /\ u.cptr = [links.cptr EXCEPT ![q] = c]
        /\ u.optr = [links.optr EXCEPT ![c] = i]
    BY <1>3, <1>5
  <2>2. u.yptr = IF i = NULL THEN [links.yptr EXCEPT ![c] = NULL]
                 ELSE [links.yptr EXCEPT ![c] = NULL, ![i] = c]
    BY <1>3, <1>5
  <2>3. u = [parent |-> u.parent, cptr |-> u.cptr, optr |-> u.optr, yptr |-> u.yptr]
    BY <1>3, <1>5
  <2> HIDE DEF u
  <2>4. i \in Ptr /\ c \in Ptr /\ NULL \in Ptr
    BY <1>4 DEF Ptr
  <2>5. u.parent \in [Procs -> AllProcs \cup {NULL}]
    BY <1>3, <2>1
  <2>6. u.cptr \in [AllProcs -> Ptr] /\ u.optr \in [Procs -> Ptr]
    BY <1>3, <2>1, <2>4
  <2>7. u.yptr \in [Procs -> Ptr]
    BY <1>3, <2>2, <2>4
  <2>8. u \in LinksType
    BY <2>3, <2>5, <2>6, <2>7 DEF LinksType
  <2>9. /\ u.optr[c] = i /\ u.cptr[q] = c
        /\ \A r \in AllProcs \ {q} : u.cptr[r] = links.cptr[r]
        /\ \A x \in Procs \ {c} : u.optr[x] = links.optr[x]
    BY <1>1, <1>3, <2>1
  <2>10. /\ u.yptr[c] = NULL
         /\ i # NULL => u.yptr[i] = c
         /\ \A x \in Procs \ {c, i} : u.yptr[x] = links.yptr[x]
    BY <1>3, <1>4, <2>2
  <2> QED
    BY <2>1, <2>8, <2>9, <2>10
<1> HIDE DEF u
<1>7. /\ M[q] = Push(c, L[q])
      /\ \A r \in AllProcs \ {q} : M[r] = L[r]
      /\ M \in [AllProcs -> {M[r] : r \in AllProcs}]
  BY <1>1 DEF Chains, Forest
<1> HIDE DEF M
<1>8. /\ M[q] \in Seq(Procs) /\ Once(M[q])
      /\ Elems(M[q]) = Elems(L[q]) \cup {c}
      /\ u.cptr[q] = Nth(M[q], 1)
      /\ Down(M[q], u.optr) /\ Up(M[q], u.yptr) /\ Top(M[q], u.yptr)
  <2> DEFINE s == L[q]
             o2 == u.optr
             y2 == u.yptr
  <2>1. /\ s \in Seq(Procs) /\ Once(s) /\ c \in Procs /\ c \notin Elems(s)
        /\ Down(s, links.optr) /\ Up(s, links.yptr)
        /\ o2[c] = Nth(s, 1) /\ y2[c] = NULL
    BY <1>1, <1>2, <1>6 DEF i
  <2>2. /\ \A x \in Elems(s) : x \in Procs /\ x # c /\ o2[x] = links.optr[x]
        /\ s # <<>> => y2[s[1]] = c
    BY <1>1, <1>2, <1>4, <1>6
  <2>3. ASSUME NEW x \in Elems(s), x # s[1]
        PROVE  y2[x] = links.yptr[x]
    <3>1. s # <<>>
      BY EmptyOnce
    <3>2. x \in Procs \ {c, i}
      BY <1>4, <2>2, <2>3, <3>1
    <3> QED
      BY <1>6, <3>2
  <2> HIDE DEF s, o2, y2
  <2>4. /\ Push(c, s) \in Seq(Procs) /\ Once(Push(c, s))
        /\ Elems(Push(c, s)) = Elems(s) \cup {c}
        /\ Nth(Push(c, s), 1) = c
        /\ Down(Push(c, s), o2) /\ Up(Push(c, s), y2) /\ Top(Push(c, s), y2)
    BY <2>1, <2>2, <2>3, PushList
  <2> QED
    BY <1>6, <1>7, <2>4 DEF s, o2, y2
<1>9. ASSUME NEW r \in AllProcs \ {q}
      PROVE  /\ M[r] \in Seq(Procs) /\ Once(M[r])
             /\ Elems(M[r]) = Elems(L[r])
             /\ u.cptr[r] = Nth(M[r], 1)
             /\ Down(M[r], u.optr) /\ Up(M[r], u.yptr) /\ Top(M[r], u.yptr)
  <2>1. \A x \in Elems(L[r]) : x \in Procs /\ x # c /\ x # i
    BY <1>1, <1>2, <1>4
  <2>2. \A x \in Elems(L[r]) : u.optr[x] = links.optr[x] /\ u.yptr[x] = links.yptr[x]
    BY <1>6, <2>1
  <2>3. Down(L[r], u.optr) /\ Up(L[r], u.yptr) /\ Top(L[r], u.yptr)
    <3>1. L[r] \in Seq(Procs) /\ Down(L[r], links.optr)
          /\ Up(L[r], links.yptr) /\ Top(L[r], links.yptr)
      BY <1>1, <1>2
    <3> QED
      BY <2>2, <3>1, KeepList
  <2> QED
    BY <1>1, <1>2, <1>6, <1>7, <2>3
<1>10. ASSUME NEW r \in AllProcs, NEW x \in Procs
       PROVE  x \in Elems(M[r]) <=> x \in H \cup {c} /\ u.parent[x] = r
  <2>1. x \in Elems(L[r]) <=> x \in H /\ links.parent[x] = r
    BY DEF Chains, Forest
  <2>2. u.parent[x] = IF x = c THEN q ELSE links.parent[x]
    BY <1>3, <1>6
  <2>3. Elems(M[r]) = IF r = q THEN Elems(L[r]) \cup {c} ELSE Elems(L[r])
    BY <1>8, <1>9
  <2> QED
    BY <1>1, <1>2, <2>1, <2>2, <2>3
<1>11. M \in [AllProcs -> Seq(Procs)]
  BY <1>7, <1>8, <1>9
<1>12. Chains(u, H \cup {c}, M)
  BY <1>1, <1>6, <1>8, <1>9, <1>10, <1>11 DEF Chains, Forest, Tops
<1> QED
  BY <1>6, <1>12 DEF u

\* remove_links: the process leaves the list of its parent.
LEMMA RemoveLinksLinks ==
  ASSUME NEW H, NEW L, Chains(links, H, L), NEW c \in H,
         links.parent[c] \in AllProcs,
         \A d \in H : links.parent[d] # c
  PROVE  LET u == RemoveLinks(links, c)
         IN  /\ \E M : Chains(u, H \ {c}, M)
             /\ u.parent = [links.parent EXCEPT ![c] = NULL]
<1> DEFINE u == RemoveLinks(links, c)
           q == links.parent[c]
<1>1. /\ c \in Procs /\ c \in AllProcs /\ NULL \notin Procs /\ q \in AllProcs
      /\ links \in LinksType /\ H \subseteq Procs
      /\ \A r \in AllProcs : L[r] \in Seq(Procs) /\ Elems(L[r]) \subseteq Procs
  BY LifeAssumption, ElemsType DEF Chains, Forest, AllProcs
<1>2. /\ \A r \in AllProcs : /\ Once(L[r]) /\ links.cptr[r] = Nth(L[r], 1)
                             /\ Down(L[r], links.optr) /\ Up(L[r], links.yptr)
                             /\ Top(L[r], links.yptr)
      /\ \A r \in AllProcs, x \in Procs :
           x \in Elems(L[r]) <=> x \in H /\ links.parent[x] = r
  BY DEF Chains, Forest, Tops
<1>3. /\ links.parent \in [Procs -> AllProcs \cup {NULL}]
      /\ links.cptr \in [AllProcs -> Ptr]
      /\ links.optr \in [Procs -> Ptr]
      /\ links.yptr \in [Procs -> Ptr]
      /\ links = [parent |-> links.parent, cptr |-> links.cptr,
                  optr |-> links.optr, yptr |-> links.yptr]
  BY <1>1 DEF LinksType
<1> HIDE DEF q
<1>4. c # q
  BY <1>1 DEF q
<1>5. c \in Elems(L[q])
  BY <1>1, <1>2 DEF q
<1>6. PICK k \in 1 .. Len(L[q]) : L[q][k] = c
  BY <1>5 DEF Elems
<1> DEFINE s == L[q]
           o == Nth(s, k + 1)
           y == Nth(s, k - 1)
<1>7. /\ s \in Seq(Procs) /\ Once(s) /\ Len(s) \in Nat /\ k \in 1 .. Len(s) /\ s[k] = c
      /\ Down(s, links.optr) /\ Up(s, links.yptr) /\ Top(s, links.yptr)
      /\ \A x \in Elems(s) : x \in Procs
      /\ \A j \in 1 .. Len(s) : s[j] \in Elems(s)
  BY <1>1, <1>2, <1>6 DEF Elems
<1>8. /\ links.optr[c] = o /\ links.yptr[c] = y
      /\ links.cptr[q] = Nth(s, 1)
      /\ o \in Elems(s) \cup {NULL} /\ y \in Elems(s) \cup {NULL}
      /\ o # c /\ y # c
      /\ y = NULL <=> k = 1
      /\ o = y => o = NULL
  <2> HIDE DEF s
  <2>1. links.optr[c] = o
    BY <1>7 DEF Down
  <2>2. links.yptr[c] = y
    <3>1. CASE k = 1
      <4>1. s # <<>> /\ s[1] = c /\ y = NULL
        BY <1>7, <3>1 DEF Nth
      <4> QED
        BY <1>7, <4>1 DEF Top
    <3>2. CASE k # 1
      <4>1. k \in 2 .. Len(s) /\ k - 1 \in 1 .. Len(s)
        BY <1>7, <3>2
      <4> QED
        BY <1>7, <4>1 DEF Up, Nth
    <3> QED
      BY <3>1, <3>2
  <2>3. /\ k + 1 \in 1 .. Len(s) => o = s[k + 1] /\ o \in Elems(s) /\ o # c /\ o \in Procs
        /\ k + 1 \notin 1 .. Len(s) => o = NULL
    BY <1>7 DEF Nth, Once
  <2>4. /\ k - 1 \in 1 .. Len(s) => y = s[k - 1] /\ y \in Elems(s) /\ y # c /\ y \in Procs
        /\ k - 1 \notin 1 .. Len(s) => y = NULL
    BY <1>7 DEF Nth, Once
  <2>5. k = 1 <=> k - 1 \notin 1 .. Len(s)
    BY <1>7
  <2>6. o = y => o = NULL
    <3> SUFFICES ASSUME o = y, o # NULL
                 PROVE  FALSE
      OBVIOUS
    <3>1. k + 1 \in 1 .. Len(s) /\ k - 1 \in 1 .. Len(s) /\ s[k + 1] = s[k - 1]
      BY <2>3, <2>4
    <3>2. k + 1 = k - 1
      BY <1>7, <3>1 DEF Once
    <3> QED
      BY <1>7, <3>2
  <2>7. links.cptr[q] = Nth(s, 1)
    BY <1>1, <1>2 DEF s
  <2> QED
    BY <1>1, <2>1, <2>2, <2>3, <2>4, <2>5, <2>6, <2>7
<1>9. \A r \in AllProcs \ {q} : o \notin Elems(L[r]) /\ y \notin Elems(L[r])
  <2>1. Forest(links, H, L) /\ \A r \in AllProcs : NULL \notin Elems(L[r])
    BY <1>1 DEF Chains
  <2> SUFFICES ASSUME NEW r \in AllProcs \ {q}, NEW x \in {o, y}, x \in Elems(L[r])
               PROVE  FALSE
    OBVIOUS
  <2>2. x \in Elems(L[q])
    BY <1>8, <2>1
  <2> QED
    BY <1>1, <2>1, <2>2, OneParent
<1> HIDE DEF s, o, y
<1> DEFINE v == [links EXCEPT
                   !.parent = [links.parent EXCEPT ![c] = NULL],
                   !.cptr = IF y = NULL THEN [links.cptr EXCEPT ![q] = o, ![c] = NULL]
                            ELSE [links.cptr EXCEPT ![c] = NULL],
                   !.optr = IF y = NULL THEN [links.optr EXCEPT ![c] = NULL]
                            ELSE [links.optr EXCEPT ![y] = o, ![c] = NULL],
                   !.yptr = IF o = NULL THEN [links.yptr EXCEPT ![c] = NULL]
                            ELSE [links.yptr EXCEPT ![o] = y, ![c] = NULL]]
<1>10. u = v
  <2>1. links.parent[c] = q
    BY DEF q
  <2> QED
    BY <1>1, <1>3, <1>4, <1>8, <2>1 DEF RemoveLinks
<1>11. /\ u \in LinksType
       /\ u.parent = [links.parent EXCEPT ![c] = NULL]
       /\ u.cptr[q] = IF y = NULL THEN o ELSE links.cptr[q]
       /\ u.cptr[c] = NULL
       /\ \A r \in AllProcs \ {q, c} : u.cptr[r] = links.cptr[r]
       /\ \A x \in Procs \ {c} : u.optr[x] = IF x = y THEN o ELSE links.optr[x]
       /\ \A x \in Procs \ {c} : u.yptr[x] = IF x = o THEN y ELSE links.yptr[x]
  <2>1. /\ u.parent = [links.parent EXCEPT ![c] = NULL]
        /\ u = [parent |-> u.parent, cptr |-> u.cptr, optr |-> u.optr, yptr |-> u.yptr]
    BY <1>3, <1>10
  <2>2. u.cptr = IF y = NULL THEN [links.cptr EXCEPT ![q] = o, ![c] = NULL]
                 ELSE [links.cptr EXCEPT ![c] = NULL]
    BY <1>3, <1>10
  <2>3. u.optr = IF y = NULL THEN [links.optr EXCEPT ![c] = NULL]
                 ELSE [links.optr EXCEPT ![y] = o, ![c] = NULL]
    BY <1>3, <1>10
  <2>4. u.yptr = IF o = NULL THEN [links.yptr EXCEPT ![c] = NULL]
                 ELSE [links.yptr EXCEPT ![o] = y, ![c] = NULL]
    BY <1>3, <1>10
  <2> HIDE DEF u
  <2>5. o \in Ptr /\ y \in Ptr /\ NULL \in Ptr
        /\ (o # NULL => o \in Procs) /\ (y # NULL => y \in Procs)
    BY <1>7, <1>8 DEF Ptr
  <2>6. u.parent \in [Procs -> AllProcs \cup {NULL}]
    BY <1>3, <2>1
  <2>7. u.cptr \in [AllProcs -> Ptr]
    BY <1>3, <2>2, <2>5
  <2>8. u.optr \in [Procs -> Ptr]
    BY <1>3, <2>3, <2>5
  <2>9. u.yptr \in [Procs -> Ptr]
    BY <1>3, <2>4, <2>5
  <2>10. u \in LinksType
    BY <2>1, <2>6, <2>7, <2>8, <2>9 DEF LinksType
  <2>11. /\ u.cptr[q] = IF y = NULL THEN o ELSE links.cptr[q]
         /\ u.cptr[c] = NULL
         /\ \A r \in AllProcs \ {q, c} : u.cptr[r] = links.cptr[r]
    BY <1>1, <1>3, <1>4, <2>2
  <2>12. \A x \in Procs \ {c} : u.optr[x] = IF x = y THEN o ELSE links.optr[x]
    BY <1>1, <1>3, <2>3, <2>5
  <2>13. \A x \in Procs \ {c} : u.yptr[x] = IF x = o THEN y ELSE links.yptr[x]
    BY <1>1, <1>3, <2>4, <2>5
  <2> QED
    BY <2>1, <2>10, <2>11, <2>12, <2>13
<1> HIDE DEF u
<1> DEFINE M == [L EXCEPT ![q] = Cut(@, k)]
<1>12. /\ M[q] = Cut(s, k)
       /\ \A r \in AllProcs \ {q} : M[r] = L[r]
       /\ M \in [AllProcs -> {M[r] : r \in AllProcs}]
  BY <1>1 DEF Chains, Forest, s
<1> HIDE DEF M
<1>13. /\ M[q] \in Seq(Procs) /\ Once(M[q])
       /\ Elems(M[q]) = Elems(s) \ {c}
       /\ u.cptr[q] = Nth(M[q], 1)
       /\ Down(M[q], u.optr) /\ Up(M[q], u.yptr) /\ Top(M[q], u.yptr)
  <2> DEFINE o2 == u.optr
             y2 == u.yptr
  <2>1. Bridged(s, k, links.optr, o2, links.yptr, y2)
    BY <1>7, <1>11 DEF Bridged, o, y
  <2> HIDE DEF o2, y2
  <2>2. /\ Cut(s, k) \in Seq(Procs) /\ Once(Cut(s, k))
        /\ Elems(Cut(s, k)) = Elems(s) \ {s[k]}
        /\ Nth(Cut(s, k), 1) = IF k = 1 THEN Nth(s, 2) ELSE s[1]
        /\ Down(Cut(s, k), o2) /\ Up(Cut(s, k), y2) /\ Top(Cut(s, k), y2)
    BY <1>7, <2>1, CutList
  <2>3. u.cptr[q] = IF k = 1 THEN Nth(s, 2) ELSE s[1]
    <3>1. CASE k = 1
      BY <1>8, <1>11, <3>1 DEF o
    <3>2. CASE k # 1
      BY <1>7, <1>8, <1>11, <3>2 DEF Nth
    <3> QED
      BY <3>1, <3>2
  <2> QED
    BY <1>7, <1>12, <2>2, <2>3 DEF o2, y2
<1>14. ASSUME NEW r \in AllProcs \ {q}
       PROVE  /\ M[r] \in Seq(Procs) /\ Once(M[r])
              /\ Elems(M[r]) = Elems(L[r])
              /\ u.cptr[r] = Nth(M[r], 1)
              /\ Down(M[r], u.optr) /\ Up(M[r], u.yptr) /\ Top(M[r], u.yptr)
  <2>1. c \notin Elems(L[r])
    BY <1>1, <1>2 DEF q
  <2>2. \A x \in Elems(L[r]) : x \in Procs /\ x # c /\ x # o /\ x # y
    BY <1>1, <1>9, <2>1
  <2>3. \A x \in Elems(L[r]) : u.optr[x] = links.optr[x] /\ u.yptr[x] = links.yptr[x]
    BY <1>11, <2>2
  <2>4. Down(L[r], u.optr) /\ Up(L[r], u.yptr) /\ Top(L[r], u.yptr)
    <3>1. L[r] \in Seq(Procs) /\ Down(L[r], links.optr)
          /\ Up(L[r], links.yptr) /\ Top(L[r], links.yptr)
      BY <1>1, <1>2
    <3> QED
      BY <2>3, <3>1, KeepList
  <2>5. u.cptr[r] = Nth(L[r], 1)
    <3>1. CASE r = c
      <4>1. Elems(L[c]) = {}
        BY <1>1, <1>2
      <4>2. L[c] = <<>>
        BY <1>1, <4>1, ElemsType
      <4> QED
        BY <1>11, <3>1, <4>2 DEF Nth
    <3>2. CASE r # c
      BY <1>2, <1>11, <3>2
    <3> QED
      BY <3>1, <3>2
  <2> QED
    BY <1>1, <1>2, <1>12, <2>4, <2>5
<1>15. ASSUME NEW r \in AllProcs, NEW x \in Procs
       PROVE  x \in Elems(M[r]) <=> x \in H \ {c} /\ u.parent[x] = r
  <2>1. x \in Elems(L[r]) <=> x \in H /\ links.parent[x] = r
    BY <1>2
  <2>2. x # c => u.parent[x] = links.parent[x]
    BY <1>3, <1>11
  <2>3. Elems(M[r]) = IF r = q THEN Elems(L[r]) \ {c} ELSE Elems(L[r])
    BY <1>13, <1>14 DEF s
  <2>4. r # q => c \notin Elems(L[r])
    BY <1>1, <1>2 DEF q
  <2> QED
    BY <2>1, <2>2, <2>3, <2>4
<1>16. M \in [AllProcs -> Seq(Procs)]
  BY <1>12, <1>13, <1>14
<1>17. Chains(u, H \ {c}, M)
  BY <1>1, <1>11, <1>13, <1>14, <1>15, <1>16 DEF Chains, Forest, Tops
<1> QED
  BY <1>11, <1>17 DEF u

----------------------------------------------------------------------------
(* The inductive invariant.                                                *)

Listed == \E L : Chains(links, hashed, L)

\* Every process but init has a living parent among the processes; that of
\* init is idleproc, so that nobody waits for init.
Related ==
  /\ hashed = {p \in Procs : state[p] # "UNINIT"}
  /\ InitProc \in hashed
  /\ \A c \in hashed :
       /\ links.parent[c] = Idle <=> c = InitProc
       /\ c # InitProc => /\ links.parent[c] \in hashed
                          /\ state[links.parent[c]] # "ZOMBIE"

\* Nobody descends from itself: a rank that grows from parent to child.
Ranks(rank, parent, H) ==
  \A c \in H \ {InitProc} : rank[c] > rank[InitProc] /\ rank[c] > rank[parent[c]]

Ranked == \E rank \in [Procs -> Nat] : Ranks(rank, links.parent, hashed)

\* The children that p waits for in do_wait.
Awaited(p) == {c \in hashed : links.parent[c] = p /\ target[p] \in {NULL, c}}

SleepersWait ==
  \A p \in Procs :
    /\ wait_child[p] <=> state[p] = "SLEEPING"
    /\ state[p] = "SLEEPING" =>
         Awaited(p) # {} /\ \A c \in Awaited(p) : state[c] # "ZOMBIE"

InitLives ==
  /\ state[InitProc] # "ZOMBIE" /\ ~ exiting[InitProc]
  /\ target[InitProc] = NULL /\ pc[InitProc] \in {"start", "loop", "wait"}

CurrentRuns == current \in Procs => state[current] = "RUNNABLE"

IInv == /\ TypeOK /\ Listed /\ Related /\ Ranked /\ SleepersWait /\ InitLives
        /\ CurrentRuns /\ NrProcessCounts /\ InitLeavesLast

----------------------------------------------------------------------------
(* What the invariant says of the properties.                              *)

\* Lists without repetition have as many entries as elements.
LEMMA ElemsCounted ==
  ASSUME NEW s \in Seq(Procs), Once(s)
  PROVE  Cardinality(Elems(s)) = Len(s)
<1>1. Len(s) \in Nat /\ s \in [1 .. Len(s) -> Elems(s)]
  <2>1. Len(s) \in Nat /\ s \in [1 .. Len(s) -> Procs]
    OBVIOUS
  <2>2. \A i \in 1 .. Len(s) : s[i] \in Elems(s)
    BY DEF Elems
  <2> QED
    BY <2>1, <2>2
<1>2. s \in Injection(1 .. Len(s), Elems(s))
  BY <1>1, Zenon DEF Injection, IsInjective, Once
<1>3. \A x \in Elems(s) : \E i \in 1 .. Len(s) : s[i] = x
  BY DEF Elems
<1>4. s \in Surjection(1 .. Len(s), Elems(s))
  BY <1>1, <1>3, Zenon DEF Surjection
<1>5. ExistsBijection(1 .. Len(s), Elems(s))
  BY <1>2, <1>4, Zenon DEF ExistsBijection, Bijection
<1> QED
  BY <1>1, <1>5, FS_CountingElements

\* Among finitely many processes one has the greatest rank.
LEMMA GreatestRank ==
  ASSUME NEW S \in SUBSET Procs, S # {}, NEW rank \in [Procs -> Nat]
  PROVE  \E p \in S : \A q \in S : rank[q] <= rank[p]
<1> DEFINE Above(p) == {q \in S : rank[q] > rank[p]}
           N == {Cardinality(Above(p)) : p \in S}
<1>1. IsFiniteSet(S)
  BY LifeAssumption, FS_Subset
<1>2. ASSUME NEW p \in S
      PROVE  IsFiniteSet(Above(p)) /\ Cardinality(Above(p)) \in Nat
  <2>1. Above(p) \in SUBSET S
    OBVIOUS
  <2>2. IsFiniteSet(Above(p))
    BY <1>1, <2>1, FS_Subset
  <2> QED
    BY <2>2, FS_CardinalityType
<1> HIDE DEF Above
<1>3. N \in SUBSET Nat /\ N # {}
  BY <1>2
<1>4. PICK m \in N : \A k \in N : m <= k
  <2> HIDE DEF N
  <2> QED
    BY <1>3, LeastOf
<1>5. PICK p \in S : m = Cardinality(Above(p))
  BY <1>4
<1>6. ASSUME NEW q \in S, ~ (rank[q] <= rank[p])
      PROVE  FALSE
  <2>1. rank[q] \in Nat /\ rank[p] \in Nat /\ rank[q] > rank[p]
    BY <1>6
  <2>2. \A r \in S : rank[r] \in Nat
    OBVIOUS
  <2>3. Above(q) \in SUBSET Above(p) /\ q \in Above(p) /\ q \notin Above(q)
    BY <2>1, <2>2 DEF Above
  <2>4. Cardinality(Above(q)) <= Cardinality(Above(p))
        /\ Cardinality(Above(q)) # Cardinality(Above(p))
    <3>1. IsFiniteSet(Above(p))
      BY <1>2
    <3>2. /\ Cardinality(Above(q)) <= Cardinality(Above(p))
          /\ Cardinality(Above(p)) = Cardinality(Above(q)) => Above(p) = Above(q)
      BY <2>3, <3>1, FS_Subset
    <3> QED
      BY <2>3, <3>2
  <2>5. m <= Cardinality(Above(q))
    BY <1>4
  <2> QED
    BY <1>2, <1>5, <2>4, <2>5
<1> QED
  BY <1>6

\* One of them has the least.
LEMMA LeastRank ==
  ASSUME NEW S \in SUBSET Procs, S # {}, NEW rank \in [Procs -> Nat]
  PROVE  \E p \in S : \A q \in S : rank[p] <= rank[q]
<1> DEFINE N == {rank[p] : p \in S}
<1>1. N \in SUBSET Nat /\ N # {}
  OBVIOUS
<1>2. PICK m \in N : \A k \in N : m <= k
  <2> HIDE DEF N
  <2> QED
    BY <1>1, LeastOf
<1> QED
  BY <1>2

\* The processes do_wait looks at, as a set.
LEMMA KidsAreChildren ==
  ASSUME IInv, NEW p \in AllProcs
  PROVE  /\ Kids(p) \in Seq(Procs) /\ Once(Kids(p))
         /\ Elems(Kids(p)) = {c \in hashed : links.parent[c] = p}
         /\ ToSet(Kids(p)) = Elems(Kids(p))
<1>1. PICK L : Chains(links, hashed, L)
  BY DEF IInv, Listed
<1>2. Kids(p) = L[p] /\ L[p] \in Seq(Procs) /\ Once(L[p]) /\ hashed \subseteq Procs
      /\ \A c \in Procs : c \in Elems(L[p]) <=> c \in hashed /\ links.parent[c] = p
  BY <1>1, KidsAreListed DEF Chains, Forest
<1>3. Elems(L[p]) \subseteq Procs
  BY <1>2, ElemsType
<1>4. DOMAIN L[p] = 1 .. Len(L[p])
  BY <1>2
<1> QED
  BY <1>2, <1>3, <1>4 DEF ToSet, Elems

\* The pointers lead there and back.
LEMMA InvTree == IInv => TreeConsistent
<1> SUFFICES ASSUME IInv
             PROVE  TreeConsistent
  OBVIOUS
<1>1. PICK L : Chains(links, hashed, L)
  BY DEF IInv, Listed
<1>2. /\ hashed \subseteq Procs /\ hashed \cup {Idle} \subseteq AllProcs
      /\ \A p \in AllProcs :
           /\ L[p] \in Seq(Procs) /\ Once(L[p]) /\ links.cptr[p] = Nth(L[p], 1)
           /\ Down(L[p], links.optr) /\ Up(L[p], links.yptr) /\ Top(L[p], links.yptr)
      /\ \A p \in AllProcs, c \in Procs :
           c \in Elems(L[p]) <=> c \in hashed /\ links.parent[c] = p
  BY <1>1 DEF Chains, Forest, Tops, AllProcs
<1>3. ASSUME NEW p \in hashed \cup {Idle}
      PROVE  /\ ToSet(Kids(p)) = {c \in hashed : links.parent[c] = p}
             /\ Len(Kids(p)) = Cardinality(ToSet(Kids(p)))
             /\ links.cptr[p] # NULL => links.yptr[links.cptr[p]] = NULL
  <2>1. p \in AllProcs
    BY <1>2
  <2>2. /\ ToSet(Kids(p)) = {c \in hashed : links.parent[c] = p}
        /\ Len(Kids(p)) = Cardinality(ToSet(Kids(p)))
    BY <2>1, KidsAreChildren, ElemsCounted
  <2>3. links.cptr[p] # NULL => links.yptr[links.cptr[p]] = NULL
    BY <1>2, <2>1, NthOne DEF Top
  <2> QED
    BY <2>2, <2>3
<1>4. ASSUME NEW c \in hashed, links.optr[c] # NULL
      PROVE  links.yptr[links.optr[c]] = c
  <2> DEFINE p == links.parent[c]
  <2>1. p \in AllProcs /\ c \in Procs
    BY <1>2 DEF IInv, Related, AllProcs
  <2>2. c \in Elems(L[p])
    BY <1>2, <2>1
  <2> HIDE DEF p
  <2>3. PICK i \in 1 .. Len(L[p]) : L[p][i] = c
    BY <2>2 DEF Elems
  <2>4. links.optr[c] = Nth(L[p], i + 1) /\ Len(L[p]) \in Nat
    BY <1>2, <2>1, <2>3 DEF Down
  <2>5. i + 1 \in 2 .. Len(L[p]) /\ links.optr[c] = L[p][i + 1] /\ (i + 1) - 1 = i
    BY <1>4, <2>3, <2>4 DEF Nth
  <2> QED
    BY <1>2, <2>1, <2>3, <2>5 DEF Up
<1> QED
  BY <1>3, <1>4 DEF TreeConsistent

\* Not everybody is asleep.  A process of the greatest rank among those that
\* have not exited has no child left to wait for.
LEMMA InvNotAllAsleep == IInv => NotAllAsleep
<1> SUFFICES ASSUME IInv
             PROVE  NotAllAsleep
  OBVIOUS
<1>1. PICK rank \in [Procs -> Nat] : Ranks(rank, links.parent, hashed)
  BY DEF IInv, Ranked
<1> DEFINE S == {p \in hashed : state[p] # "ZOMBIE"}
<1>2. S \in SUBSET Procs /\ InitProc \in S
  BY DEF IInv, Related, InitLives
<1>3. PICK p \in S : \A q \in S : rank[q] <= rank[p]
  <2> HIDE DEF S
  <2> QED
    BY <1>2, GreatestRank
<1>4. p \in Procs /\ p # Idle /\ state[p] \in States
      /\ state[p] # "UNINIT" /\ state[p] # "ZOMBIE"
  BY <1>3, LifeAssumption DEF IInv, Related, TypeOK
<1>5. state[p] # "SLEEPING"
  <2> SUFFICES ASSUME state[p] = "SLEEPING"
               PROVE  FALSE
    OBVIOUS
  <2>1. Awaited(p) # {} /\ \A c \in Awaited(p) : state[c] # "ZOMBIE"
    BY <1>4 DEF IInv, SleepersWait
  <2>2. PICK c \in hashed : links.parent[c] = p /\ state[c] # "ZOMBIE"
    BY <2>1 DEF Awaited
  <2>3. c # InitProc /\ c \in S /\ c \in Procs
    BY <1>2, <1>4, <2>2 DEF IInv, Related
  <2>4. rank[c] > rank[p]
    BY <1>1, <2>2, <2>3 DEF Ranks
  <2>5. rank[c] <= rank[p] /\ rank[c] \in Nat /\ rank[p] \in Nat
    BY <1>3, <1>4, <2>3
  <2> QED
    BY <2>4, <2>5
<1> QED
  BY <1>4, <1>5 DEF States, NotAllAsleep

\* When init has no child it is alone.
LEMMA InitAlone ==
  ASSUME IInv, \A c \in hashed : links.parent[c] # InitProc
  PROVE  hashed = {InitProc} /\ nr_process = 2
<1>1. PICK rank \in [Procs -> Nat] : Ranks(rank, links.parent, hashed)
  BY DEF IInv, Ranked
<1> DEFINE S == hashed \ {InitProc}
<1>2. S = {}
  <2> SUFFICES ASSUME S # {}
               PROVE  FALSE
    OBVIOUS
  <2>1. S \in SUBSET Procs
    BY DEF IInv, Related
  <2>2. PICK p \in S : \A q \in S : rank[p] <= rank[q]
    <3> HIDE DEF S
    <3> QED
      BY <2>1, LeastRank
  <2>3. links.parent[p] \in S /\ rank[p] > rank[links.parent[p]]
    BY <1>1, <2>2 DEF IInv, Related, Ranks
  <2>4. rank[p] \in Nat /\ rank[links.parent[p]] \in Nat
    BY <2>1, <2>2, <2>3
  <2> QED
    BY <2>2, <2>3, <2>4
<1>3. hashed = {InitProc}
  BY <1>2 DEF IInv, Related
<1>4. Cardinality(hashed) = 1
  BY <1>3, FS_Singleton
<1> QED
  BY <1>3, <1>4 DEF IInv, NrProcessCounts

\* The invariant says what is wanted.
LEMMA InvFamily == IInv => FamilyIsWhole
<1> SUFFICES ASSUME IInv
             PROVE  FamilyIsWhole
  OBVIOUS
<1>1. TreeConsistent
  BY InvTree
<1>2. ParentIsAlive
  BY DEF IInv, Related, ParentIsAlive
<1> QED
  BY <1>1, <1>2 DEF IInv, FamilyIsWhole

LEMMA InvWakeup == IInv => NoLostWakeup
<1> SUFFICES ASSUME IInv
             PROVE  NoLostWakeup
  OBVIOUS
<1>1. WaitStateMeansAsleep
  BY DEF IInv, SleepersWait, WaitStateMeansAsleep
<1>2. NotAllAsleep
  BY InvNotAllAsleep
<1>3. ASSUME NEW p \in Procs, state[p] = "SLEEPING"
      PROVE  LET kids == IF target[p] = NULL THEN ToSet(Kids(p))
                         ELSE {target[p]} \cap ToSet(Kids(p))
             IN  wait_child[p] /\ kids # {} /\ \A c \in kids : state[c] # "ZOMBIE"
  <2>1. ToSet(Kids(p)) = {c \in hashed : links.parent[c] = p}
    BY KidsAreChildren DEF AllProcs
  <2>2. wait_child[p] /\ Awaited(p) # {} /\ \A c \in Awaited(p) : state[c] # "ZOMBIE"
    BY <1>3 DEF IInv, SleepersWait
  <2>3. Awaited(p) = IF target[p] = NULL THEN ToSet(Kids(p))
                     ELSE {target[p]} \cap ToSet(Kids(p))
    <3>1. hashed \subseteq Procs /\ NULL \notin Procs
      BY LifeAssumption DEF IInv, Related
    <3> QED
      BY <2>1, <3>1 DEF Awaited
  <2> QED
    BY <2>2, <2>3
<1> QED
  BY <1>1, <1>2, <1>3 DEF NoLostWakeup

----------------------------------------------------------------------------
(* The invariant holds at first, and every step keeps it.                  *)

THEOREM Initially == Init => IInv
<1> SUFFICES ASSUME Init
             PROVE  IInv
  OBVIOUS
<1>1. /\ InitProc \in Procs /\ Idle \notin Procs /\ NULL \notin Procs /\ Idle # NULL
      /\ MAX_PROCESS \in Nat \ {0, 1, 2} /\ Idle \in AllProcs /\ InitProc \in AllProcs
  BY LifeAssumption DEF AllProcs
<1>2. /\ links.parent = [p \in Procs |-> IF p = InitProc THEN Idle ELSE NULL]
      /\ links.cptr = [p \in AllProcs |-> IF p = Idle THEN InitProc ELSE NULL]
      /\ links.optr = [p \in Procs |-> NULL]
      /\ links.yptr = [p \in Procs |-> NULL]
  BY DEF Init
<1>3. links \in LinksType
  <2>1. links.parent \in [Procs -> AllProcs \cup {NULL}]
    BY <1>1, <1>2
  <2>2. links.cptr \in [AllProcs -> Ptr]
    BY <1>1, <1>2 DEF Ptr
  <2>3. links.optr \in [Procs -> Ptr] /\ links.yptr \in [Procs -> Ptr]
    BY <1>2 DEF Ptr
  <2>4. links = [parent |-> links.parent, cptr |-> links.cptr,
                 optr |-> links.optr, yptr |-> links.yptr]
    BY DEF Init
  <2> QED
    BY <2>1, <2>2, <2>3, <2>4 DEF LinksType
<1>4. TypeOK
  <2>1. state \in [Procs -> States] /\ pc \in [Procs -> PCs]
    BY DEF Init, States, PCs
  <2>2. nr_process \in 0 .. MAX_PROCESS
    BY <1>1 DEF Init
  <2> QED
    BY <1>1, <1>3, <2>1, <2>2 DEF Init, TypeOK, LinksType, AllProcs, Ptr
<1>5. Listed
  <2> DEFINE L == [p \in AllProcs |-> IF p = Idle THEN <<InitProc>> ELSE <<>>]
  <2>1. ASSUME NEW p \in AllProcs
        PROVE  /\ L[p] \in Seq(Procs) /\ Once(L[p])
               /\ Elems(L[p]) = IF p = Idle THEN {InitProc} ELSE {}
               /\ links.cptr[p] = Nth(L[p], 1)
               /\ Down(L[p], links.optr) /\ Up(L[p], links.yptr) /\ Top(L[p], links.yptr)
    <3>1. CASE p = Idle
      <4>1. L[p] = <<InitProc>> /\ <<InitProc>> \in Seq(Procs)
            /\ Len(<<InitProc>>) = 1 /\ <<InitProc>>[1] = InitProc
        BY <1>1, <3>1
      <4> DEFINE s == <<InitProc>>
      <4>2. s \in Seq(Procs) /\ Len(s) = 1 /\ s[1] = InitProc
        BY <4>1
      <4> HIDE DEF s
      <4>3. Once(s) /\ Elems(s) = {InitProc} /\ Nth(s, 1) = InitProc
        BY <4>2 DEF Once, Elems, Nth
      <4>4. Down(s, links.optr) /\ Up(s, links.yptr) /\ Top(s, links.yptr)
        BY <1>1, <1>2, <4>2 DEF Down, Up, Top, Nth
      <4>5. links.cptr[p] = InitProc
        BY <1>1, <1>2, <3>1
      <4> QED
        BY <3>1, <4>1, <4>2, <4>3, <4>4, <4>5 DEF s
    <3>2. CASE p # Idle
      <4>1. L[p] = <<>> /\ links.cptr[p] = NULL
        BY <1>2, <3>2
      <4> QED
        BY <3>2, <4>1, EmptyOnce DEF Nth, Down, Up, Top
    <3> QED
      BY <3>1, <3>2
  <2>2. L \in [AllProcs -> Seq(Procs)]
    BY <2>1
  <2> HIDE DEF L
  <2>3. hashed = {InitProc}
    BY DEF Init
  <2>4. Forest(links, hashed, L)
    BY <1>1, <1>2, <1>3, <2>1, <2>2, <2>3 DEF Forest
  <2>5. Tops(links, L, AllProcs)
    BY <2>1 DEF Tops
  <2> QED
    BY <2>4, <2>5 DEF Listed, Chains
<1>6. Related
  BY <1>1, <1>2 DEF Related, Init
<1>7. Ranked
  <2>1. [p \in Procs |-> 0] \in [Procs -> Nat]
    OBVIOUS
  <2>2. hashed \ {InitProc} = {}
    BY DEF Init
  <2> QED
    BY <2>1, <2>2 DEF Ranked, Ranks
<1>8. SleepersWait /\ InitLives /\ CurrentRuns
  BY <1>1 DEF SleepersWait, InitLives, CurrentRuns, Init
<1>9. NrProcessCounts /\ InitLeavesLast
  <2>1. Cardinality(hashed) = 1
    BY FS_Singleton DEF Init
  <2> QED
    BY <1>1, <2>1 DEF Init, NrProcessCounts, InitLeavesLast
<1> QED
  BY <1>4, <1>5, <1>6, <1>7, <1>8, <1>9 DEF IInv

\* do_fork: the new process is a child of the one that runs.
LEMMA NewChildStep ==
  ASSUME IInv, ~ halted, current \in Procs, NEW c \in Procs, NewChild(c),
         pc' \in [Procs -> PCs], pc'[InitProc] \in {"start", "loop", "wait"}
  PROVE  IInv'
<1>1. PICK L : Chains(links, hashed, L)
  BY DEF IInv, Listed
<1>2. /\ state[current] = "RUNNABLE" /\ current \in hashed /\ current # c
      /\ state[c] = "UNINIT" /\ c \notin hashed /\ c # InitProc
      /\ current # Idle /\ current \in AllProcs /\ hashed \subseteq Procs
  BY LifeAssumption DEF IInv, CurrentRuns, Related, NewChild, Free, AllProcs
<1>3. /\ \E M : Chains(links', hashed', M)
      /\ links'.parent = [links.parent EXCEPT ![c] = current]
      /\ hashed' = hashed \cup {c}
  <2>1. c \in Procs \ hashed /\ current \in AllProcs \ {c}
    BY <1>2
  <2>2. /\ links' = SetLinks([links EXCEPT !.parent[c] = current], c)
        /\ hashed' = hashed \cup {c}
    BY DEF NewChild
  <2> DEFINE u == SetLinks([links EXCEPT !.parent[c] = current], c)
  <2>3. /\ \E M : Chains(u, hashed \cup {c}, M)
        /\ u.parent = [links.parent EXCEPT ![c] = current]
    BY <1>1, <2>1, SetLinksLinks
  <2> QED
    BY <2>2, <2>3
<1>4. links' \in LinksType
  BY <1>3 DEF Chains, Forest
<1>5. /\ \A d \in Procs : links'.parent[d] = IF d = c THEN current ELSE links.parent[d]
      /\ links.parent \in [Procs -> AllProcs \cup {NULL}]
  BY <1>3 DEF IInv, TypeOK
<1>6. /\ state \in [Procs -> States]
      /\ \A d \in Procs : state'[d] = IF d = c THEN "RUNNABLE" ELSE state[d]
      /\ state' \in [Procs -> States]
      /\ wait_child' = wait_child /\ exiting' = exiting /\ target' = target
      /\ current' = current /\ halted' = halted
      /\ nr_process' = nr_process + 1 /\ nr_process < MAX_PROCESS
  BY DEF NewChild, RoomForProcess, IInv, TypeOK, States
<1>7. TypeOK'
  <2>1. nr_process' \in 0 .. MAX_PROCESS
    BY <1>6, LifeAssumption DEF IInv, TypeOK
  <2>2. hashed' \subseteq Procs
    BY <1>2, <1>3
  <2>3. /\ current' \in AllProcs /\ wait_child' \in [Procs -> BOOLEAN]
        /\ exiting' \in [Procs -> BOOLEAN] /\ target' \in [Procs -> Ptr]
        /\ halted' \in BOOLEAN
    BY <1>6 DEF IInv, TypeOK
  <2> QED
    BY <1>4, <1>6, <2>1, <2>2, <2>3 DEF TypeOK, LinksType
<1>8. Listed'
  BY <1>3 DEF Listed
<1>9. Related'
  <2>1. hashed' = {p \in Procs : state'[p] # "UNINIT"}
    BY <1>2, <1>3, <1>6 DEF IInv, Related
  <2>2. ASSUME NEW d \in hashed'
        PROVE  /\ links'.parent[d] = Idle <=> d = InitProc
               /\ d # InitProc => /\ links'.parent[d] \in hashed'
                                  /\ state'[links'.parent[d]] # "ZOMBIE"
    <3>1. CASE d = c
      BY <1>2, <1>3, <1>5, <1>6, <3>1
    <3>2. CASE d # c
      <4>1. d \in hashed /\ d \in Procs /\ links'.parent[d] = links.parent[d]
        BY <1>2, <1>3, <1>5, <3>2
      <4>2. /\ links.parent[d] = Idle <=> d = InitProc
            /\ d # InitProc => /\ links.parent[d] \in hashed
                               /\ state[links.parent[d]] # "ZOMBIE"
        BY <4>1 DEF IInv, Related
      <4> QED
        BY <1>2, <1>3, <1>6, <4>1, <4>2
    <3> QED
      BY <3>1, <3>2
  <2>3. InitProc \in hashed'
    BY <1>3 DEF IInv, Related
  <2> QED
    BY <2>1, <2>2, <2>3 DEF Related
<1>10. Ranked'
  <2>1. PICK rank \in [Procs -> Nat] : Ranks(rank, links.parent, hashed)
    BY DEF IInv, Ranked
  <2> DEFINE new == [rank EXCEPT ![c] = rank[InitProc] + rank[current] + 1]
  <2>2. /\ new \in [Procs -> Nat] /\ rank[InitProc] \in Nat /\ rank[current] \in Nat
        /\ \A d \in Procs : new[d] = IF d = c THEN rank[InitProc] + rank[current] + 1
                                     ELSE rank[d]
    BY LifeAssumption
  <2> HIDE DEF new
  <2>3. ASSUME NEW d \in hashed' \ {InitProc}
        PROVE  new[d] > new[InitProc] /\ new[d] > new[links'.parent[d]]
    <3>1. CASE d = c
      <4>1. new[d] = rank[InitProc] + rank[current] + 1
            /\ new[InitProc] = rank[InitProc] /\ links'.parent[d] = current
            /\ new[current] = rank[current]
        BY <1>2, <1>5, <2>2, <3>1, LifeAssumption
      <4> QED
        BY <2>2, <4>1
    <3>2. CASE d # c
      <4>1. d \in hashed \ {InitProc} /\ d \in Procs /\ links'.parent[d] = links.parent[d]
        BY <1>2, <1>3, <1>5, <3>2
      <4>2. links.parent[d] \in hashed
        BY <4>1 DEF IInv, Related
      <4>3. new[d] = rank[d] /\ new[InitProc] = rank[InitProc]
            /\ new[links.parent[d]] = rank[links.parent[d]]
        BY <1>2, <2>2, <3>2, <4>1, <4>2, LifeAssumption
      <4>4. rank[d] > rank[InitProc] /\ rank[d] > rank[links.parent[d]]
        BY <2>1, <4>1 DEF Ranks
      <4> QED
        BY <4>1, <4>3, <4>4
    <3> QED
      BY <3>1, <3>2
  <2> QED
    BY <2>2, <2>3 DEF Ranked, Ranks
<1>11. SleepersWait'
  <2> SUFFICES ASSUME NEW p \in Procs
               PROVE  /\ wait_child'[p] <=> state'[p] = "SLEEPING"
                      /\ state'[p] = "SLEEPING" =>
                           Awaited(p)' # {} /\ \A d \in Awaited(p)' : state'[d] # "ZOMBIE"
    BY DEF SleepersWait
  <2>1. wait_child'[p] <=> state'[p] = "SLEEPING"
    BY <1>2, <1>6 DEF IInv, SleepersWait
  <2>2. ASSUME state'[p] = "SLEEPING"
        PROVE  Awaited(p)' # {} /\ \A d \in Awaited(p)' : state'[d] # "ZOMBIE"
    <3>1. p # c /\ p # current /\ state[p] = "SLEEPING"
      BY <1>2, <1>6, <2>2
    <3>2. Awaited(p)' = Awaited(p)
      BY <1>2, <1>3, <1>5, <1>6, <3>1 DEF Awaited
    <3>3. Awaited(p) # {} /\ \A d \in Awaited(p) : state[d] # "ZOMBIE" /\ d \in Procs
      BY <1>2, <3>1 DEF IInv, SleepersWait, Awaited
    <3> QED
      BY <1>6, <3>2, <3>3
  <2> QED
    BY <2>1, <2>2
<1>12. InitLives'
  BY <1>2, <1>6, LifeAssumption DEF IInv, InitLives
<1>13. CurrentRuns'
  BY <1>2, <1>6 DEF CurrentRuns
<1>14. NrProcessCounts'
  <2>1. IsFiniteSet(hashed)
    BY <1>2, LifeAssumption, FS_Subset
  <2>2. Cardinality(hashed') = Cardinality(hashed) + 1 /\ Cardinality(hashed) \in Nat
    BY <1>2, <1>3, <2>1, FS_AddElement, FS_CardinalityType
  <2> QED
    BY <1>6, <2>2, LifeAssumption DEF IInv, NrProcessCounts, TypeOK
<1>15. InitLeavesLast'
  BY <1>6 DEF InitLeavesLast
<1> QED
  BY <1>7, <1>8, <1>9, <1>10, <1>11, <1>12, <1>13, <1>14, <1>15 DEF IInv

\* do_exit: the parent is woken up, the children go to init, and init is woken
\* up when one of them has exited.
LEMMA ExitStep ==
  ASSUME IInv, ~ halted, current \in Procs \ {InitProc}, DoExit
  PROVE  IInv'
<1> DEFINE p == current
           W == WokenByExit(current)
<1>1. PICK L : Chains(links, hashed, L)
  BY DEF IInv, Listed
<1>2. /\ p \in Procs /\ state[p] = "RUNNABLE" /\ p \in hashed /\ p # InitProc /\ p # Idle
      /\ p \in AllProcs /\ hashed \subseteq Procs /\ InitProc \in hashed
      /\ Idle # InitProc
  BY LifeAssumption DEF IInv, CurrentRuns, Related, AllProcs
<1>3. /\ \E M : Chains(links', hashed, M)
      /\ \A d \in Procs : links'.parent[d] =
           IF d \in hashed /\ links.parent[d] = p THEN InitProc ELSE links.parent[d]
  <2>1. /\ \E M : Chains(OrphansToInit(p), hashed, M)
        /\ OrphansToInit(p).parent =
             [c \in Procs |-> IF c \in hashed /\ links.parent[c] = p THEN InitProc
                              ELSE links.parent[c]]
    BY <1>1, <1>2, AdoptAll
  <2>2. links' = OrphansToInit(p)
    BY DEF DoExit
  <2> QED
    BY <2>1, <2>2
<1>4. /\ \A q \in W : q \in Procs /\ state[q] = "SLEEPING" /\ q # p
      /\ \A q \in Procs : wait_child[q] /\ q = links.parent[p] => q \in W
      /\ wait_child[InitProc] =>
           \A d \in hashed : links.parent[d] = p /\ state[d] = "ZOMBIE" => InitProc \in W
  <2>1. \A q \in W : q \in Procs /\ wait_child[q]
    BY LifeAssumption DEF WokenByExit
  <2>2. \A q \in Procs : wait_child[q] => state[q] = "SLEEPING"
    BY DEF IInv, SleepersWait
  <2>3. \A q \in Procs : wait_child[q] /\ q = links.parent[p] => q \in W
    BY DEF WokenByExit
  <2>4. ASSUME wait_child[InitProc], NEW d \in hashed, links.parent[d] = p, state[d] = "ZOMBIE"
        PROVE  InitProc \in W
    <3>1. d \in Elems(Kids(p)) /\ Kids(p) \in Seq(Procs)
      BY <1>2, <2>4, KidsAreChildren
    <3>2. AnyDead(Kids(p))
      BY <2>4, <3>1 DEF AnyDead, Elems
    <3> QED
      BY <2>4, <3>2 DEF WokenByExit
  <2> QED
    BY <1>2, <2>1, <2>2, <2>3, <2>4
<1> HIDE DEF W
<1>5. /\ \A q \in Procs : state'[q] = IF q = p THEN "ZOMBIE"
                                      ELSE IF q \in W THEN "RUNNABLE" ELSE state[q]
      /\ \A q \in Procs : wait_child'[q] = (wait_child[q] /\ q \notin W)
      /\ state' \in [Procs -> States] /\ wait_child' \in [Procs -> BOOLEAN]
  <2>1. /\ state' = [q \in Procs |-> IF q = p THEN "ZOMBIE"
                                     ELSE IF q \in W THEN "RUNNABLE" ELSE state[q]]
        /\ wait_child' = [q \in Procs |-> wait_child[q] /\ q \notin W]
    BY DEF DoExit, W
  <2>2. state \in [Procs -> States]
    BY DEF IInv, TypeOK
  <2>3. state' \in [Procs -> States]
    BY <2>1, <2>2 DEF States
  <2>4. wait_child' \in [Procs -> BOOLEAN]
    BY <2>1
  <2>5. \A q \in Procs : state'[q] = IF q = p THEN "ZOMBIE"
                                     ELSE IF q \in W THEN "RUNNABLE" ELSE state[q]
    BY <2>1
  <2>6. \A q \in Procs : wait_child'[q] = (wait_child[q] /\ q \notin W)
    BY <2>1
  <2> QED
    BY <2>3, <2>4, <2>5, <2>6
<1>6. /\ exiting' = exiting /\ hashed' = hashed /\ nr_process' = nr_process
      /\ halted' = halted
      /\ pc' = [pc EXCEPT ![p] = "dead"] /\ target' = [target EXCEPT ![p] = NULL]
      /\ current' \in Pick(state')
  BY DEF DoExit, Goto
<1>7. /\ \A q \in Procs : q # p => pc'[q] = pc[q] /\ target'[q] = target[q]
      /\ pc' \in [Procs -> PCs] /\ target' \in [Procs -> Ptr]
      /\ current' \in AllProcs
      /\ current' \in Procs => state'[current'] = "RUNNABLE"
  <2>1. pc \in [Procs -> PCs] /\ target \in [Procs -> Ptr]
    BY DEF IInv, TypeOK
  <2>2. pc' \in [Procs -> PCs] /\ target' \in [Procs -> Ptr]
    BY <1>2, <1>6, <2>1 DEF PCs, Ptr
  <2>3. \A q \in Procs : q # p => pc'[q] = pc[q] /\ target'[q] = target[q]
    BY <1>6, <2>1
  <2> QED
    BY <1>6, <2>2, <2>3, LifeAssumption DEF Pick, AllProcs
<1> HIDE DEF p
<1>8. TypeOK'
  <2>1. links' \in LinksType
    BY <1>3 DEF Chains, Forest
  <2> QED
    BY <1>5, <1>6, <1>7, <2>1 DEF IInv, TypeOK, LinksType
<1>9. Listed'
  BY <1>3, <1>6 DEF Listed
<1>10. \A q \in Procs : /\ q # p => (state'[q] = "ZOMBIE" <=> state[q] = "ZOMBIE")
                        /\ state'[q] = "UNINIT" <=> state[q] = "UNINIT"
  BY <1>2, <1>4, <1>5
<1>11. Related'
  <2>1. hashed' = {q \in Procs : state'[q] # "UNINIT"}
    BY <1>6, <1>10 DEF IInv, Related
  <2>2. ASSUME NEW d \in hashed'
        PROVE  /\ links'.parent[d] = Idle <=> d = InitProc
               /\ d # InitProc => /\ links'.parent[d] \in hashed'
                                  /\ state'[links'.parent[d]] # "ZOMBIE"
    <3>1. /\ d \in hashed /\ d \in Procs
          /\ links.parent[d] = Idle <=> d = InitProc
          /\ d # InitProc => /\ links.parent[d] \in hashed
                             /\ state[links.parent[d]] # "ZOMBIE"
      BY <1>2, <1>6 DEF IInv, Related
    <3>2. CASE links.parent[d] = p
      <4>1. links'.parent[d] = InitProc /\ d # InitProc
        BY <1>2, <1>3, <3>1, <3>2
      <4>2. state'[InitProc] # "ZOMBIE"
        BY <1>2, <1>10 DEF IInv, InitLives
      <4> QED
        BY <1>2, <1>6, <4>1, <4>2
    <3>3. CASE links.parent[d] # p
      <4>1. links'.parent[d] = links.parent[d]
        BY <1>3, <3>1, <3>3
      <4> QED
        BY <1>2, <1>6, <1>10, <3>1, <3>3, <4>1
    <3> QED
      BY <3>2, <3>3
  <2> QED
    BY <1>2, <1>6, <2>1, <2>2 DEF Related
<1>12. PICK rank \in [Procs -> Nat] : Ranks(rank, links.parent, hashed)
  BY DEF IInv, Ranked
<1>13. Ranked'
  <2>1. Ranks(rank, links'.parent, hashed')
    BY <1>2, <1>3, <1>6, <1>12 DEF Ranks
  <2> QED
    BY <2>1 DEF Ranked
<1>14. links.parent[p] # p
  <2>1. rank[p] > rank[links.parent[p]]
    BY <1>2, <1>12 DEF Ranks
  <2>2. rank[p] \in Nat
    BY <1>2
  <2> QED
    BY <2>1, <2>2
<1>15. SleepersWait'
  <2> SUFFICES ASSUME NEW q \in Procs
               PROVE  /\ wait_child'[q] <=> state'[q] = "SLEEPING"
                      /\ state'[q] = "SLEEPING" =>
                           Awaited(q)' # {} /\ \A d \in Awaited(q)' : state'[d] # "ZOMBIE"
    BY DEF SleepersWait
  <2>1. wait_child[q] <=> state[q] = "SLEEPING"
    BY DEF IInv, SleepersWait
  <2>2. wait_child'[q] <=> state'[q] = "SLEEPING"
    BY <1>2, <1>4, <1>5, <2>1
  <2>3. ASSUME state'[q] = "SLEEPING"
        PROVE  Awaited(q)' # {} /\ \A d \in Awaited(q)' : state'[d] # "ZOMBIE"
    <3>1. q # p /\ q \notin W /\ state[q] = "SLEEPING" /\ wait_child[q]
          /\ target'[q] = target[q] /\ links.parent[p] # q
      BY <1>2, <1>4, <1>5, <1>7, <2>1, <2>3
    <3>2. Awaited(q) # {} /\ \A d \in Awaited(q) : state[d] # "ZOMBIE"
      BY <3>1 DEF IInv, SleepersWait
    <3>3. Awaited(q) \subseteq Awaited(q)'
      BY <1>2, <1>3, <1>6, <3>1 DEF Awaited
    <3>4. ASSUME NEW d \in Awaited(q)'
          PROVE  state'[d] # "ZOMBIE"
      <4>1. d \in hashed /\ d \in Procs /\ links'.parent[d] = q /\ target[q] \in {NULL, d}
        BY <1>2, <1>6, <3>1 DEF Awaited
      <4>2. CASE links.parent[d] = p
        <5>1. q = InitProc
          BY <1>3, <4>1, <4>2
        <5>2. state[d] # "ZOMBIE"
          BY <1>4, <3>1, <4>1, <4>2, <5>1
        <5> QED
          BY <1>10, <1>14, <4>1, <4>2, <5>2
      <4>3. CASE links.parent[d] # p
        <5>1. links.parent[d] = q
          BY <1>3, <4>1, <4>3
        <5>2. d \in Awaited(q) /\ d # p
          BY <3>1, <4>1, <5>1 DEF Awaited
        <5> QED
          BY <1>10, <3>2, <4>1, <5>2
      <4> QED
        BY <4>2, <4>3
    <3> QED
      BY <3>2, <3>3, <3>4
  <2> QED
    BY <2>2, <2>3
<1>16. InitLives'
  BY <1>2, <1>6, <1>7, <1>10 DEF IInv, InitLives
<1>17. CurrentRuns'
  BY <1>7 DEF CurrentRuns
<1>18. NrProcessCounts' /\ InitLeavesLast'
  BY <1>6 DEF IInv, NrProcessCounts, InitLeavesLast
<1> QED
  BY <1>8, <1>9, <1>11, <1>13, <1>15, <1>16, <1>17, <1>18 DEF IInv

\* The processes do_wait looks at.
LEMMA CandidatesAre ==
  ASSUME IInv, current \in Procs, NEW pid \in Ptr
  PROVE  /\ Candidates(pid) \in Seq(Procs)
         /\ Elems(Candidates(pid)) =
              {c \in hashed : links.parent[c] = current /\ pid \in {NULL, c}}
<1>1. hashed \subseteq Procs /\ NULL \notin Procs
  BY LifeAssumption DEF IInv, Related
<1>2. CASE pid = NULL
  <2>1. Candidates(pid) = Kids(current)
    BY <1>2 DEF Candidates
  <2> QED
    BY <1>2, <2>1, KidsAreChildren DEF AllProcs
<1>3. CASE pid # NULL /\ pid \in hashed /\ links.parent[pid] = current
  <2>1. Candidates(pid) = <<pid>>
    BY <1>3 DEF Candidates
  <2>2. Elems(<<pid>>) = {pid} /\ <<pid>> \in Seq(Procs)
    BY <1>1, <1>3 DEF Elems
  <2> QED
    BY <1>3, <2>1, <2>2
<1>4. CASE pid # NULL /\ ~ (pid \in hashed /\ links.parent[pid] = current)
  <2>1. Candidates(pid) = <<>>
    BY <1>4, Zenon DEF Candidates
  <2> QED
    BY <1>4, <2>1, EmptyOnce
<1> QED
  BY <1>2, <1>3, <1>4

\* do_wait finds a child that has exited when there is one.
LEMMA FirstDeadIs ==
  ASSUME NEW s \in Seq(Procs)
  PROVE  /\ AnyDead(s) <=> \E c \in Elems(s) : state[c] = "ZOMBIE"
         /\ AnyDead(s) => FirstDead(s) \in Elems(s) /\ state[FirstDead(s)] = "ZOMBIE"
<1>1. DOMAIN s = 1 .. Len(s) /\ Len(s) \in Nat
  OBVIOUS
<1>2. AnyDead(s) <=> \E c \in Elems(s) : state[c] = "ZOMBIE"
  BY <1>1 DEF AnyDead, Elems
<1>3. ASSUME AnyDead(s)
      PROVE  FirstDead(s) \in Elems(s) /\ state[FirstDead(s)] = "ZOMBIE"
  <2> DEFINE N == {i \in DOMAIN s : state[s[i]] = "ZOMBIE"}
             First(i) == /\ state[s[i]] = "ZOMBIE"
                         /\ \A j \in 1 .. i - 1 : state[s[j]] # "ZOMBIE"
  <2>1. N \in SUBSET Nat /\ N # {}
    BY <1>1, <1>3 DEF AnyDead
  <2>2. PICK m \in N : \A k \in N : m <= k
    <3> HIDE DEF N
    <3> QED
      BY <2>1, LeastOf
  <2>3. m \in DOMAIN s /\ First(m)
    <3>1. \A j \in 1 .. m - 1 : j \in DOMAIN s /\ ~ (m <= j)
      BY <1>1, <2>2
    <3> QED
      BY <2>2, <3>1
  <2>4. PICK i \in DOMAIN s : First(i) /\ FirstDead(s) = s[i]
    BY <2>3 DEF FirstDead
  <2> QED
    BY <1>1, <2>4 DEF Elems
<1> QED
  BY <1>2, <1>3

\* do_wait frees a child that has exited.
LEMMA WaitFoundStep ==
  ASSUME IInv, ~ halted, current \in Procs, NEW pid \in Ptr, WaitFound(pid),
         current = InitProc => pc[current] \in {"loop", "wait"}
  PROVE  IInv'
<1> DEFINE c == FirstDead(Candidates(pid))
<1>1. PICK L : Chains(links, hashed, L)
  BY DEF IInv, Listed
<1>2. c \in hashed /\ links.parent[c] = current /\ state[c] = "ZOMBIE"
  <2>1. Candidates(pid) \in Seq(Procs) /\ AnyDead(Candidates(pid))
    BY CandidatesAre DEF WaitFound
  <2>2. c \in Elems(Candidates(pid)) /\ state[c] = "ZOMBIE"
    BY <2>1, FirstDeadIs
  <2> QED
    BY <2>2, CandidatesAre
<1>3. /\ links' = RemoveLinks(links, c)
      /\ state' = [state EXCEPT ![c] = "UNINIT"]
      /\ exiting' = [exiting EXCEPT ![c] = FALSE]
      /\ hashed' = hashed \ {c}
      /\ nr_process' = nr_process - 1
      /\ target' = [target EXCEPT ![current] = NULL]
      /\ pc' = [pc EXCEPT ![current] = IF current = InitProc THEN "loop" ELSE "ret",
                          ![c] = "none"]
      /\ wait_child' = wait_child /\ halted' = halted
      /\ current' \in Pick(state') \/ current' = current
  BY DEF WaitFound, FreeProc
<1> HIDE DEF c
<1>4. /\ c \in Procs /\ c # InitProc /\ c # current /\ c \in AllProcs
      /\ state[current] = "RUNNABLE" /\ current \in hashed /\ current \in AllProcs
      /\ hashed \subseteq Procs /\ Idle \notin Procs /\ InitProc \in hashed
  BY <1>2, LifeAssumption DEF IInv, CurrentRuns, Related, InitLives, AllProcs
<1>5. \A d \in hashed : links.parent[d] # c
  BY <1>2, <1>4 DEF IInv, Related
<1>6. /\ \E M : Chains(links', hashed', M)
      /\ links'.parent = [links.parent EXCEPT ![c] = NULL]
  <2>1. links.parent[c] \in AllProcs
    BY <1>2, <1>4
  <2> DEFINE u == RemoveLinks(links, c)
  <2>2. /\ \E M : Chains(u, hashed \ {c}, M)
        /\ u.parent = [links.parent EXCEPT ![c] = NULL]
    BY <1>1, <1>2, <1>5, <2>1, RemoveLinksLinks
  <2> QED
    BY <1>3, <2>2
<1>7. \A d \in Procs : d # c => links'.parent[d] = links.parent[d]
  BY <1>6 DEF IInv, TypeOK
<1>8. /\ state' \in [Procs -> States]
      /\ \A d \in Procs : state'[d] = IF d = c THEN "UNINIT" ELSE state[d]
      /\ exiting' \in [Procs -> BOOLEAN]
      /\ \A d \in Procs : d # c => exiting'[d] = exiting[d]
      /\ target' \in [Procs -> Ptr]
      /\ \A d \in Procs : target'[d] = IF d = current THEN NULL ELSE target[d]
      /\ pc' \in [Procs -> PCs]
      /\ \A d \in Procs : d # c /\ d # current => pc'[d] = pc[d]
      /\ pc'[current] = IF current = InitProc THEN "loop" ELSE "ret"
  <2>1. /\ state \in [Procs -> States] /\ exiting \in [Procs -> BOOLEAN]
        /\ target \in [Procs -> Ptr] /\ pc \in [Procs -> PCs]
    BY DEF IInv, TypeOK
  <2>2. /\ state' \in [Procs -> States]
        /\ \A d \in Procs : state'[d] = IF d = c THEN "UNINIT" ELSE state[d]
    BY <1>3, <2>1 DEF States
  <2>3. /\ exiting' \in [Procs -> BOOLEAN]
        /\ \A d \in Procs : d # c => exiting'[d] = exiting[d]
    BY <1>3, <2>1
  <2>4. /\ target' \in [Procs -> Ptr]
        /\ \A d \in Procs : target'[d] = IF d = current THEN NULL ELSE target[d]
    BY <1>3, <2>1 DEF Ptr
  <2>5. pc' \in [Procs -> PCs]
    BY <1>3, <2>1 DEF PCs
  <2>6. /\ \A d \in Procs : d # c /\ d # current => pc'[d] = pc[d]
        /\ pc'[current] = IF current = InitProc THEN "loop" ELSE "ret"
    BY <1>3, <1>4, <2>1
  <2> QED
    BY <2>2, <2>3, <2>4, <2>5, <2>6
<1>9. /\ current' \in AllProcs
      /\ current' \in Procs => state'[current'] = "RUNNABLE"
  BY <1>3, <1>4, <1>8, LifeAssumption DEF Pick, AllProcs
<1>10. /\ Cardinality(hashed') = Cardinality(hashed) - 1
       /\ Cardinality(hashed) \in Nat /\ Cardinality(hashed') \in Nat
  <2>1. IsFiniteSet(hashed)
    BY <1>4, LifeAssumption, FS_Subset
  <2> QED
    BY <1>2, <1>3, <2>1, FS_RemoveElement, FS_CardinalityType
<1>11. TypeOK'
  <2>1. links' \in LinksType
    BY <1>6 DEF Chains, Forest
  <2>2. nr_process' \in 0 .. MAX_PROCESS
    BY <1>3, <1>10, LifeAssumption DEF IInv, TypeOK, NrProcessCounts
  <2>3. hashed' \subseteq Procs
    BY <1>3, <1>4
  <2>4. wait_child' \in [Procs -> BOOLEAN] /\ halted' \in BOOLEAN
    BY <1>3 DEF IInv, TypeOK
  <2> QED
    BY <1>8, <1>9, <2>1, <2>2, <2>3, <2>4 DEF TypeOK, LinksType
<1>12. Listed'
  BY <1>6 DEF Listed
<1>13. Related'
  <2>1. hashed' = {d \in Procs : state'[d] # "UNINIT"}
    BY <1>3, <1>8 DEF IInv, Related
  <2>2. ASSUME NEW d \in hashed'
        PROVE  /\ links'.parent[d] = Idle <=> d = InitProc
               /\ d # InitProc => /\ links'.parent[d] \in hashed'
                                  /\ state'[links'.parent[d]] # "ZOMBIE"
    <3>1. d \in hashed /\ d # c /\ d \in Procs /\ links'.parent[d] = links.parent[d]
      BY <1>3, <1>4, <1>7
    <3>2. /\ links.parent[d] = Idle <=> d = InitProc
          /\ d # InitProc => /\ links.parent[d] \in hashed
                             /\ state[links.parent[d]] # "ZOMBIE"
      BY <3>1 DEF IInv, Related
    <3> QED
      BY <1>3, <1>4, <1>5, <1>8, <3>1, <3>2
  <2> QED
    BY <1>3, <1>4, <2>1, <2>2 DEF Related
<1>14. Ranked'
  <2>1. PICK rank \in [Procs -> Nat] : Ranks(rank, links.parent, hashed)
    BY DEF IInv, Ranked
  <2>2. Ranks(rank, links'.parent, hashed')
    BY <1>3, <1>4, <1>7, <2>1 DEF Ranks
  <2> QED
    BY <2>2 DEF Ranked
<1>15. SleepersWait'
  <2> SUFFICES ASSUME NEW q \in Procs
               PROVE  /\ wait_child'[q] <=> state'[q] = "SLEEPING"
                      /\ state'[q] = "SLEEPING" =>
                           Awaited(q)' # {} /\ \A d \in Awaited(q)' : state'[d] # "ZOMBIE"
    BY DEF SleepersWait
  <2>1. wait_child'[q] <=> state'[q] = "SLEEPING"
    BY <1>2, <1>3, <1>8 DEF IInv, SleepersWait
  <2>2. ASSUME state'[q] = "SLEEPING"
        PROVE  Awaited(q)' # {} /\ \A d \in Awaited(q)' : state'[d] # "ZOMBIE"
    <3>1. q # c /\ q # current /\ state[q] = "SLEEPING" /\ target'[q] = target[q]
      BY <1>4, <1>8, <2>2
    <3>2. Awaited(q)' = Awaited(q)
      <4>1. \A d \in Procs : d \in hashed' /\ links'.parent[d] = q
                               <=> d \in hashed /\ links.parent[d] = q
        BY <1>2, <1>3, <1>4, <1>7, <3>1
      <4> QED
        BY <1>3, <1>4, <3>1, <4>1 DEF Awaited
    <3>3. Awaited(q) # {} /\ \A d \in Awaited(q) : state[d] # "ZOMBIE" /\ d \in Procs
      BY <1>4, <3>1 DEF IInv, SleepersWait, Awaited
    <3> QED
      BY <1>8, <3>2, <3>3
  <2> QED
    BY <2>1, <2>2
<1>16. InitLives'
  <2>1. pc'[InitProc] \in {"start", "loop", "wait"}
    BY <1>4, <1>8 DEF IInv, InitLives
  <2> QED
    BY <1>4, <1>8, <2>1 DEF IInv, InitLives
<1>17. CurrentRuns'
  BY <1>9 DEF CurrentRuns
<1>18. NrProcessCounts'
  BY <1>3, <1>10, LifeAssumption DEF IInv, NrProcessCounts, TypeOK
<1>19. InitLeavesLast'
  BY <1>3 DEF InitLeavesLast
<1> QED
  BY <1>11, <1>12, <1>13, <1>14, <1>15, <1>16, <1>17, <1>18, <1>19 DEF IInv

\* A step that leaves the family, the sleepers and the kills as they are.
LEMMA QuietStep ==
  ASSUME IInv, pc' \in [Procs -> PCs], pc'[InitProc] \in {"start", "loop", "wait"},
         UNCHANGED <<state, wait_child, exiting, links, hashed, nr_process>>,
         target' \in [Procs -> Ptr], target'[InitProc] = NULL,
         \A p \in Procs : state[p] = "SLEEPING" => target'[p] = target[p],
         halted' \in BOOLEAN, halted' => hashed = {InitProc} /\ nr_process = 2,
         current' \in Pick(state) \cup {current}
  PROVE  IInv'
<1>1. current' \in AllProcs /\ CurrentRuns'
  BY LifeAssumption DEF IInv, TypeOK, CurrentRuns, Pick, AllProcs
<1>2. TypeOK'
  BY <1>1 DEF IInv, TypeOK
<1>3. Listed' /\ Related' /\ Ranked' /\ NrProcessCounts' /\ InitLeavesLast'
  BY DEF IInv, Listed, Related, Ranked, NrProcessCounts, InitLeavesLast
<1>4. InitLives'
  BY DEF IInv, InitLives
<1>5. SleepersWait'
  <2> SUFFICES ASSUME NEW q \in Procs
               PROVE  /\ wait_child'[q] <=> state'[q] = "SLEEPING"
                      /\ state'[q] = "SLEEPING" =>
                           Awaited(q)' # {} /\ \A d \in Awaited(q)' : state'[d] # "ZOMBIE"
    BY DEF SleepersWait
  <2>1. /\ wait_child[q] <=> state[q] = "SLEEPING"
        /\ state[q] = "SLEEPING" =>
             Awaited(q) # {} /\ \A d \in Awaited(q) : state[d] # "ZOMBIE"
    BY DEF IInv, SleepersWait
  <2>2. state[q] = "SLEEPING" => Awaited(q)' = Awaited(q)
    BY DEF Awaited
  <2> QED
    BY <2>1, <2>2
<1> QED
  BY <1>1, <1>2, <1>3, <1>4, <1>5 DEF IInv

\* do_wait puts the process to sleep: it has children, and none has exited.
LEMMA WaitBlocksStep ==
  ASSUME IInv, ~ halted, current \in Procs, NEW pid \in Ptr, WaitBlocks(pid),
         current = InitProc => pid = NULL
  PROVE  IInv'
<1>1. /\ state[current] = "RUNNABLE" /\ current \in hashed /\ hashed \subseteq Procs
      /\ InitProc \in Procs
  BY LifeAssumption DEF IInv, CurrentRuns, Related
<1> DEFINE K == {c \in hashed : links.parent[c] = current /\ pid \in {NULL, c}}
<1>2. K # {} /\ \A c \in K : state[c] # "ZOMBIE"
  <2>1. Candidates(pid) \in Seq(Procs) /\ Elems(Candidates(pid)) = K
    BY CandidatesAre
  <2> HIDE DEF K
  <2>2. Candidates(pid) # <<>> /\ ~ AnyDead(Candidates(pid))
    BY DEF WaitBlocks
  <2> QED
    BY <2>1, <2>2, ElemsType, FirstDeadIs
<1>3. /\ UNCHANGED <<exiting, links, hashed, nr_process, halted>>
      /\ state' = [state EXCEPT ![current] = "SLEEPING"]
      /\ wait_child' = [wait_child EXCEPT ![current] = TRUE]
      /\ target' = [target EXCEPT ![current] = pid]
      /\ pc' = [pc EXCEPT ![current] = "wait"]
      /\ current' \in Pick(state')
  BY DEF WaitBlocks, Goto
<1>4. /\ state' \in [Procs -> States]
      /\ \A d \in Procs : state'[d] = IF d = current THEN "SLEEPING" ELSE state[d]
      /\ wait_child' \in [Procs -> BOOLEAN]
      /\ \A d \in Procs : wait_child'[d] = IF d = current THEN TRUE ELSE wait_child[d]
      /\ target' \in [Procs -> Ptr]
      /\ \A d \in Procs : target'[d] = IF d = current THEN pid ELSE target[d]
      /\ pc' \in [Procs -> PCs]
      /\ \A d \in Procs : pc'[d] = IF d = current THEN "wait" ELSE pc[d]
  <2>1. /\ state \in [Procs -> States] /\ wait_child \in [Procs -> BOOLEAN]
        /\ target \in [Procs -> Ptr] /\ pc \in [Procs -> PCs]
    BY DEF IInv, TypeOK
  <2>2. /\ state' \in [Procs -> States]
        /\ \A d \in Procs : state'[d] = IF d = current THEN "SLEEPING" ELSE state[d]
    BY <1>3, <2>1 DEF States
  <2>3. /\ wait_child' \in [Procs -> BOOLEAN]
        /\ \A d \in Procs : wait_child'[d] = IF d = current THEN TRUE ELSE wait_child[d]
    BY <1>3, <2>1
  <2>4. /\ target' \in [Procs -> Ptr]
        /\ \A d \in Procs : target'[d] = IF d = current THEN pid ELSE target[d]
    BY <1>3, <2>1
  <2>5. /\ pc' \in [Procs -> PCs]
        /\ \A d \in Procs : pc'[d] = IF d = current THEN "wait" ELSE pc[d]
    BY <1>3, <2>1 DEF PCs
  <2> QED
    BY <2>2, <2>3, <2>4, <2>5
<1>5. /\ current' \in AllProcs
      /\ current' \in Procs => state'[current'] = "RUNNABLE"
  BY <1>3, LifeAssumption DEF Pick, AllProcs
<1>6. TypeOK'
  BY <1>3, <1>4, <1>5 DEF IInv, TypeOK
<1>7. Listed' /\ Ranked' /\ NrProcessCounts' /\ InitLeavesLast'
  BY <1>3 DEF IInv, Listed, Ranked, NrProcessCounts, InitLeavesLast
<1>8. \A d \in Procs : /\ state'[d] = "ZOMBIE" <=> state[d] = "ZOMBIE"
                       /\ state'[d] = "UNINIT" <=> state[d] = "UNINIT"
  BY <1>1, <1>4
<1>9. Related'
  <2>1. hashed' = {d \in Procs : state'[d] # "UNINIT"}
    BY <1>3, <1>8 DEF IInv, Related
  <2>2. \A d \in hashed :
          /\ links.parent[d] = Idle <=> d = InitProc
          /\ d # InitProc => /\ links.parent[d] \in hashed
                             /\ state'[links.parent[d]] # "ZOMBIE"
    BY <1>1, <1>8 DEF IInv, Related
  <2>3. InitProc \in hashed
    BY DEF IInv, Related
  <2> QED
    BY <1>3, <2>1, <2>2, <2>3 DEF Related
<1>10. SleepersWait'
  <2> SUFFICES ASSUME NEW q \in Procs
               PROVE  /\ wait_child'[q] <=> state'[q] = "SLEEPING"
                      /\ state'[q] = "SLEEPING" =>
                           Awaited(q)' # {} /\ \A d \in Awaited(q)' : state'[d] # "ZOMBIE"
    BY DEF SleepersWait
  <2>1. wait_child'[q] <=> state'[q] = "SLEEPING"
    BY <1>4 DEF IInv, SleepersWait
  <2>2. Awaited(q)' = IF q = current THEN K ELSE Awaited(q)
    BY <1>3, <1>4 DEF Awaited
  <2>3. q # current /\ state[q] = "SLEEPING" =>
          Awaited(q) # {} /\ \A d \in Awaited(q) : state[d] # "ZOMBIE" /\ d \in Procs
    BY <1>1 DEF IInv, SleepersWait, Awaited
  <2>4. \A d \in K : d \in Procs
    BY <1>1
  <2> HIDE DEF K
  <2>5. CASE q = current
    BY <1>2, <1>8, <2>1, <2>2, <2>4, <2>5
  <2>6. CASE q # current
    BY <1>4, <1>8, <2>1, <2>2, <2>3, <2>6
  <2> QED
    BY <2>5, <2>6
<1>11. InitLives'
  BY <1>1, <1>3, <1>4, <1>8 DEF IInv, InitLives
<1>12. CurrentRuns'
  BY <1>5 DEF CurrentRuns
<1> QED
  BY <1>6, <1>7, <1>9, <1>10, <1>11, <1>12 DEF IInv

\* do_wait finds no child; init_main ends when that happens to init.
LEMMA WaitFailsStep ==
  ASSUME IInv, ~ halted, current \in Procs, NEW pid \in Ptr, WaitFails(pid),
         current = InitProc => pid = NULL
  PROVE  IInv'
<1>1. /\ Candidates(pid) = <<>>
      /\ UNCHANGED <<state, current, wait_child, exiting, links, hashed, nr_process>>
      /\ target' = [target EXCEPT ![current] = NULL]
      /\ \/ current = InitProc /\ halted' = TRUE /\ pc' = pc
         \/ current # InitProc /\ pc' = [pc EXCEPT ![current] = "ret"] /\ halted' = halted
  BY DEF WaitFails, Goto
<1>2. /\ target \in [Procs -> Ptr] /\ pc \in [Procs -> PCs] /\ target[InitProc] = NULL
      /\ InitProc \in Procs /\ pc[InitProc] \in {"start", "loop", "wait"}
      /\ state[current] = "RUNNABLE"
  BY LifeAssumption DEF IInv, TypeOK, InitLives, CurrentRuns
<1>3. /\ target' \in [Procs -> Ptr] /\ target'[InitProc] = NULL
      /\ \A p \in Procs : state[p] = "SLEEPING" => target'[p] = target[p]
  BY <1>1, <1>2 DEF Ptr
<1>4. pc' \in [Procs -> PCs] /\ pc'[InitProc] \in {"start", "loop", "wait"}
  <2>1. CASE pc' = pc
    BY <1>2, <2>1
  <2>2. CASE current # InitProc /\ pc' = [pc EXCEPT ![current] = "ret"]
    BY <1>2, <2>2 DEF PCs
  <2> QED
    BY <1>1, <2>1, <2>2
<1>5. halted' \in BOOLEAN /\ (halted' => hashed = {InitProc} /\ nr_process = 2)
  <2>1. CASE current = InitProc
    <3>1. Elems(Candidates(pid)) = {}
      BY <1>1, EmptyOnce
    <3>2. {c \in hashed : links.parent[c] = InitProc} = {}
      BY <2>1, <3>1, CandidatesAre
    <3>3. hashed = {InitProc} /\ nr_process = 2
      BY <3>2, InitAlone
    <3> QED
      BY <1>1, <2>1, <3>3
  <2>2. CASE current # InitProc
    BY <1>1, <2>2 DEF IInv, TypeOK
  <2> QED
    BY <2>1, <2>2
<1> QED
  BY <1>1, <1>3, <1>4, <1>5, QuietStep

LEMMA WaitStep ==
  ASSUME IInv, ~ halted, current \in Procs, NEW pid \in Ptr, DoWait(pid),
         current = InitProc => pid = NULL /\ pc[current] \in {"loop", "wait"}
  PROVE  IInv'
BY WaitFoundStep, WaitBlocksStep, WaitFailsStep DEF DoWait

\* do_kill wakes a sleeper that was not killed before.
LEMMA KillStep ==
  ASSUME IInv, NEW p \in Procs, Kill(p)
  PROVE  IInv'
<1> DEFINE wakes == ~ exiting[p] /\ wait_child[p]
<1>1. /\ ~ halted /\ current \in Procs /\ pc[current] = "user" /\ p # InitProc
      /\ UNCHANGED <<current, links, hashed, nr_process, target, halted>>
      /\ exiting' = [exiting EXCEPT ![p] = TRUE]
      /\ state' = [state EXCEPT ![p] = IF wakes THEN "RUNNABLE" ELSE @]
      /\ wait_child' = [wait_child EXCEPT ![p] = @ /\ ~ wakes]
      /\ pc' = [pc EXCEPT ![current] = "ret"]
  BY DEF Kill, At, Goto
<1>2. /\ state \in [Procs -> States] /\ exiting \in [Procs -> BOOLEAN]
      /\ wait_child \in [Procs -> BOOLEAN] /\ pc \in [Procs -> PCs]
      /\ InitProc \in Procs /\ InitProc # current
      /\ wait_child[p] <=> state[p] = "SLEEPING"
      /\ state[current] = "RUNNABLE"
      /\ hashed \subseteq Procs /\ InitProc \in hashed
  BY <1>1, LifeAssumption DEF IInv, TypeOK, InitLives, SleepersWait, CurrentRuns, Related
<1>3. /\ state' \in [Procs -> States]
      /\ \A d \in Procs : \/ state'[d] = state[d]
                          \/ d = p /\ state[d] = "SLEEPING" /\ state'[d] = "RUNNABLE"
  BY <1>1, <1>2 DEF States
<1>4. wait_child' \in [Procs -> BOOLEAN]
  <2>1. (wait_child[p] /\ ~ wakes) \in BOOLEAN
    OBVIOUS
  <2> QED
    BY <1>1, <1>2, <2>1
<1>5. \A d \in Procs : wait_child'[d] <=> state'[d] = "SLEEPING"
  <2> SUFFICES ASSUME NEW d \in Procs
               PROVE  wait_child'[d] <=> state'[d] = "SLEEPING"
    OBVIOUS
  <2>1. CASE d # p
    <3>1. wait_child'[d] = wait_child[d] /\ state'[d] = state[d]
      BY <1>1, <1>2, <2>1
    <3> QED
      BY <3>1 DEF IInv, SleepersWait
  <2>2. CASE d = p
    <3>1. wait_child'[p] = (wait_child[p] /\ ~ wakes)
      BY <1>1, <1>2
    <3>2. state'[p] = IF wakes THEN "RUNNABLE" ELSE state[p]
      BY <1>1, <1>2
    <3>3. CASE wakes
      <4>1. ~ wait_child'[p]
        BY <3>1, <3>3
      <4>2. state'[p] = "RUNNABLE"
        BY <3>2, <3>3
      <4> QED
        BY <2>2, <4>1, <4>2
    <3>4. CASE ~ wakes
      <4>1. wait_child'[p] <=> wait_child[p]
        BY <3>1, <3>4, Zenon
      <4>2. state'[p] = state[p]
        BY <3>2, <3>4
      <4> QED
        BY <1>2, <2>2, <4>1, <4>2
    <3> QED
      BY <3>3, <3>4
  <2> QED
    BY <2>1, <2>2
<1>6. /\ exiting' \in [Procs -> BOOLEAN] /\ exiting'[InitProc] = exiting[InitProc]
      /\ pc' \in [Procs -> PCs] /\ pc'[InitProc] = pc[InitProc]
  BY <1>1, <1>2 DEF PCs
<1>7. TypeOK'
  BY <1>1, <1>3, <1>4, <1>6 DEF IInv, TypeOK
<1>8. Listed' /\ Ranked' /\ NrProcessCounts' /\ InitLeavesLast'
  BY <1>1 DEF IInv, Listed, Ranked, NrProcessCounts, InitLeavesLast
<1>9. Related'
  <2>1. hashed' = {d \in Procs : state'[d] # "UNINIT"}
    BY <1>1, <1>3 DEF IInv, Related
  <2>2. \A d \in hashed :
          /\ links.parent[d] = Idle <=> d = InitProc
          /\ d # InitProc => /\ links.parent[d] \in hashed
                             /\ state'[links.parent[d]] # "ZOMBIE"
    BY <1>2, <1>3 DEF IInv, Related
  <2> QED
    BY <1>1, <1>2, <2>1, <2>2 DEF Related
<1>10. SleepersWait'
  <2> SUFFICES ASSUME NEW q \in Procs, state'[q] = "SLEEPING"
               PROVE  Awaited(q)' # {} /\ \A d \in Awaited(q)' : state'[d] # "ZOMBIE"
    BY <1>5 DEF SleepersWait
  <2>1. state[q] = "SLEEPING"
    BY <1>3
  <2>2. Awaited(q) # {} /\ \A d \in Awaited(q) : state[d] # "ZOMBIE" /\ d \in Procs
    BY <1>2, <2>1 DEF IInv, SleepersWait, Awaited
  <2>3. Awaited(q)' = Awaited(q)
    BY <1>1 DEF Awaited
  <2> QED
    BY <1>3, <2>2, <2>3
<1>11. InitLives'
  BY <1>1, <1>2, <1>3, <1>6 DEF IInv, InitLives
<1>12. CurrentRuns'
  BY <1>1, <1>2, <1>3 DEF CurrentRuns
<1> QED
  BY <1>7, <1>8, <1>9, <1>10, <1>11, <1>12 DEF IInv

LEMMA NextStep == IInv /\ [Next]_vars => IInv'
<1> SUFFICES ASSUME IInv, [Next]_vars
             PROVE  IInv'
  OBVIOUS
<1>1. /\ pc \in [Procs -> PCs] /\ target \in [Procs -> Ptr] /\ halted \in BOOLEAN
      /\ InitProc \in Procs /\ pc[InitProc] \in {"start", "loop", "wait"}
      /\ target[InitProc] = NULL /\ ~ exiting[InitProc] /\ NULL \in Ptr
      /\ current \in Procs => state[current] = "RUNNABLE"
      /\ halted => hashed = {InitProc} /\ nr_process = 2
  BY LifeAssumption DEF IInv, TypeOK, InitLives, CurrentRuns, InitLeavesLast, Ptr
<1>2. ASSUME NEW where, At(where)
      PROVE  /\ ~ halted /\ current \in Procs /\ pc[current] = where
             /\ where \in {"user", "ret"} => current # InitProc
  BY <1>1, <1>2 DEF At
<1>3. ASSUME NEW where \in {"user", "ret", "loop"}, current \in Procs, Goto(where),
             where \in {"user", "ret"} => current # InitProc
      PROVE  pc' \in [Procs -> PCs] /\ pc'[InitProc] \in {"start", "loop", "wait"}
  <2>1. pc' = [pc EXCEPT ![current] = where] /\ where \in PCs
    BY <1>3 DEF Goto, PCs
  <2>2. pc' \in [Procs -> PCs]
    BY <1>1, <2>1
  <2>3. pc'[InitProc] \in {"start", "loop", "wait"}
    BY <1>1, <1>3, <2>1
  <2> QED
    BY <2>2, <2>3
<1>4. CASE IdleSchedules
  BY <1>1, <1>4, QuietStep DEF IdleSchedules
<1>5. CASE InitWaits
  BY <1>1, <1>2, <1>5, WaitStep DEF InitWaits
<1>6. ASSUME NEW c \in Procs, InitForks(c)
      PROVE  IInv'
  <2>1. ~ halted /\ current \in Procs /\ NewChild(c) /\ state[c] = "UNINIT"
    BY <1>2, <1>6 DEF InitForks, NewChild, Free
  <2>2. c # InitProc
    BY <2>1 DEF IInv, Related
  <2>3. pc' = [pc EXCEPT ![current] = "loop", ![c] = "user"]
    BY <1>6 DEF InitForks
  <2>4. pc' \in [Procs -> PCs] /\ pc'[InitProc] \in {"start", "loop", "wait"}
    BY <1>1, <2>1, <2>2, <2>3 DEF PCs
  <2> QED
    BY <2>1, <2>4, NewChildStep
<1>7. ASSUME NEW c \in Procs, Fork(c)
      PROVE  IInv'
  <2>1. ~ halted /\ current \in Procs /\ NewChild(c) /\ state[c] = "UNINIT"
        /\ current # InitProc
    BY <1>2, <1>7 DEF Fork, NewChild, Free
  <2>2. c # InitProc
    BY <2>1 DEF IInv, Related
  <2>3. pc' = [pc EXCEPT ![current] = "ret", ![c] = "user"]
    BY <1>7 DEF Fork
  <2>4. pc' \in [Procs -> PCs] /\ pc'[InitProc] \in {"start", "loop", "wait"}
    BY <1>1, <2>1, <2>2, <2>3 DEF PCs
  <2> QED
    BY <2>1, <2>4, NewChildStep
<1>8. ASSUME NEW p \in Procs, Kill(p)
      PROVE  IInv'
  BY <1>8, KillStep
<1>9. ASSUME NEW pid \in Ptr, Wait(pid)
      PROVE  IInv'
  BY <1>2, <1>9, WaitStep DEF Wait
<1>10. CASE Trap
  <2>1. /\ ~ halted /\ current \in Procs /\ current # InitProc /\ Goto("ret")
        /\ UNCHANGED <<state, current, wait_child, exiting, links, hashed,
                       nr_process, target, halted>>
    BY <1>2, <1>10 DEF Trap
  <2>2. pc' \in [Procs -> PCs] /\ pc'[InitProc] \in {"start", "loop", "wait"}
    BY <1>3, <2>1
  <2> QED
    BY <1>1, <2>1, <2>2, QuietStep
<1>11. CASE Exit
  BY <1>2, <1>11, ExitStep DEF Exit
<1>12. CASE WaitResumes
  <2>1. ~ halted /\ current \in Procs /\ pc[current] = "wait"
    BY <1>2, <1>12 DEF WaitResumes
  <2>2. CASE exiting[current]
    <3>1. current \in Procs \ {InitProc} /\ DoExit
      BY <1>1, <1>12, <2>1, <2>2 DEF WaitResumes
    <3> QED
      BY <2>1, <3>1, ExitStep
  <2>3. CASE ~ exiting[current]
    <3>1. DoWait(target[current]) /\ target[current] \in Ptr
      BY <1>1, <1>12, <2>1, <2>3 DEF WaitResumes
    <3> QED
      BY <1>1, <2>1, <3>1, WaitStep
  <2> QED
    BY <2>2, <2>3
<1>13. CASE ReturnKilled
  BY <1>2, <1>13, ExitStep DEF ReturnKilled
<1>14. CASE ReturnToUser \/ ReturnResched
  <2>1. /\ ~ halted /\ current \in Procs /\ current # InitProc /\ Goto("user")
        /\ UNCHANGED <<state, wait_child, exiting, links, hashed,
                       nr_process, target, halted>>
        /\ current' \in Pick(state) \cup {current}
    BY <1>2, <1>14 DEF ReturnToUser, ReturnResched
  <2>2. pc' \in [Procs -> PCs] /\ pc'[InitProc] \in {"start", "loop", "wait"}
    BY <1>3, <2>1
  <2> QED
    BY <1>1, <2>1, <2>2, QuietStep
<1>15. CASE UNCHANGED vars
  BY <1>1, <1>15, QuietStep DEF vars
<1> QED
  BY <1>4, <1>5, <1>6, <1>7, <1>8, <1>9, <1>10, <1>11, <1>12, <1>13, <1>14, <1>15 DEF Next

\* The strengthening, for every number of processes.
THEOREM Invariance == Spec => []IInv
BY Initially, NextStep, PTL DEF Spec

\* No order of forks, exits, adoptions and waits tears the family apart: the
\* pointers of set_links, remove_links and the loop of do_exit always form the
\* sibling lists of living parents, nr_process counts the processes, and init
\* is alone when init_main returns.
THEOREM FamilyStaysWhole == Spec => []FamilyIsWhole
BY Invariance, InvFamily, PTL

\* A process asleep in do_wait has a child it waits for, which has yet to exit,
\* wait_state is set for sleepers only, and one process at least can run.
THEOREM NobodySleepsThrough == Spec => []NoLostWakeup
BY Invariance, InvWakeup, PTL

----------------------------------------------------------------------------
(* The pids that get_pid gives to processes, for every MAX_PID and every    *)
(* number of processes.                                                     *)
(*                                                                          *)
(* Argument: while the loop is at node pos, no node before pos has the pid  *)
(* under consideration or a pid inside last_pid..next_safe (Scanned), so at *)
(* the end of the list both hold of every process.  The pids already        *)
(* rejected are all in use (Rejected).                                      *)

\* What the scan has established when it is at node pos.
Scanned ==
  pos >= 1 => /\ last_pid \in Pid
              /\ last_pid < next_safe
              /\ \A j \in 1 .. pos - 1 :
                   /\ proc_list[j] # last_pid
                   /\ ~ (last_pid < proc_list[j] /\ proc_list[j] < next_safe)

\* The call has passed over used pids only.
Rejected == pos >= 1 => Between(Start, last_pid) \subseteq Used

PidInv == PidTypeOK /\ PidsDistinct /\ IntervalIsSafe /\ Scanned /\ Rejected

----------------------------------------------------------------------------
\* The pid after b: one more pid lies between a and it, b itself.  It is 1
\* when b is the last pid.
LEMMA BetweenNext ==
  ASSUME NEW a \in 0 .. MAX_PID - 1, NEW b \in Pid,
         NEW c \in Pid, c = IF b + 1 >= MAX_PID THEN 1 ELSE b + 1
  PROVE  Between(a, c) \subseteq Between(a, b) \union {b}
BY PidAssumption, SMTT(30) DEF Between, Pid

\* Nothing lies between a pid, or none, and the pid after it.
LEMMA BetweenFirst ==
  ASSUME NEW a \in 0 .. MAX_PID - 1,
         NEW c \in Pid, c = IF a + 1 >= MAX_PID THEN 1 ELSE a + 1
  PROVE  Between(a, c) = {}
BY PidAssumption, SMTT(30) DEF Between, Pid

\* A process with a free pid joins at the head of the list: pids stay
\* distinct, and the pids in use are those before and the new one.
LEMMA AssignFree ==
  ASSUME proc_list \in Seq(Pid), PidsDistinct,
         NEW pid \in Pid \ Used, Assign(pid)
  PROVE  /\ proc_list' \in Seq(Pid)
         /\ Len(proc_list') = Len(proc_list) + 1
         /\ proc_list'[1] = pid
         /\ Used' = Used \union {pid}
         /\ PidsDistinct'
<1>1. /\ proc_list' \in Seq(Pid)
      /\ Len(proc_list') = Len(proc_list) + 1
      /\ proc_list'[1] = pid
      /\ \A i \in 2 .. Len(proc_list) + 1 : proc_list'[i] = proc_list[i - 1]
  BY DEF Assign
<1>2. Used' = Used \union {pid}
  <2>1. ASSUME NEW q \in Used' PROVE q \in Used \union {pid}
    BY <1>1, <2>1 DEF Used, Nodes
  <2>2. ASSUME NEW i \in Nodes PROVE proc_list[i] \in Used'
    <3>1. i + 1 \in Nodes' /\ proc_list'[i + 1] = proc_list[i]
      BY <1>1, <2>2 DEF Nodes
    <3> QED
      BY <3>1 DEF Used
  <2>3. pid \in Used'
    BY <1>1 DEF Used, Nodes
  <2> QED
    BY <2>1, <2>2, <2>3 DEF Used
<1>3. PidsDistinct'
  <2>1. SUFFICES ASSUME NEW i \in Nodes', NEW j \in Nodes',
                        proc_list'[i] = proc_list'[j]
                 PROVE  i = j
    BY DEF PidsDistinct
  <2>2. \A k \in Nodes' : k > 1 => /\ k - 1 \in Nodes
                                   /\ proc_list'[k] = proc_list[k - 1]
                                   /\ proc_list'[k] # pid
    BY <1>1 DEF Nodes, Used
  <2>3. CASE i = 1 \/ j = 1
    BY <1>1, <2>1, <2>2, <2>3 DEF Nodes
  <2>4. CASE i > 1 /\ j > 1
    BY <2>1, <2>2, <2>4 DEF PidsDistinct, Nodes
  <2> QED
    BY <2>3, <2>4 DEF Nodes
<1> QED
  BY <1>1, <1>2, <1>3

----------------------------------------------------------------------------
\* The pids in use are pids.
LEMMA UsedArePids ==
  ASSUME proc_list \in Seq(Pid) PROVE Used \subseteq Pid
BY DEF Used, Nodes

\* The pid that needs no scan is free.
LEMMA QuickFree ==
  ASSUME PidInv, Quick PROVE last_pid + 1 \in Pid \ Used
<1>1. last_pid \in 1 .. MAX_PID /\ next_safe \in 1 .. MAX_PID
  BY DEF PidInv, PidTypeOK
<1>2. last_pid + 1 < MAX_PID /\ last_pid + 1 < next_safe
  BY DEF Quick
<1>3. \A p \in Used : ~ (last_pid < p /\ p < next_safe)
  BY DEF PidInv, IntervalIsSafe, Quick, MayFork
<1> QED
  BY <1>1, <1>2, <1>3, PidAssumption DEF Pid

\* A pid given without a look at the list keeps the invariant.
LEMMA QuickKeeps ==
  ASSUME PidInv, Quick PROVE PidInv'
<1> USE PidAssumption
<1>1. /\ last_pid + 1 \in Pid \ Used
      /\ proc_list \in Seq(Pid)
  BY QuickFree DEF PidInv, PidTypeOK
<1>2. /\ proc_list' \in Seq(Pid)
      /\ Len(proc_list') = Len(proc_list) + 1
      /\ Used' = Used \union {last_pid + 1}
      /\ PidsDistinct'
  BY <1>1, AssignFree DEF PidInv, Quick
<1>3. PidTypeOK'
  BY <1>1, <1>2 DEF PidInv, PidTypeOK, Quick, MayFork, Pid
<1>4. IntervalIsSafe'
  <2>1. \A p \in Used' : p \in Pid /\ (p \in Used \/ p = last_pid + 1)
    BY <1>1, <1>2, UsedArePids DEF PidInv, PidTypeOK
  <2>2. \A p \in Used : ~ (last_pid < p /\ p < next_safe)
    BY DEF PidInv, IntervalIsSafe, Quick, MayFork
  <2>3. last_pid' = last_pid + 1 /\ next_safe' = next_safe /\ last_pid \in Int
        /\ next_safe \in Int
    BY DEF PidInv, PidTypeOK, Quick
  <2> QED
    BY <2>1, <2>2, <2>3 DEF IntervalIsSafe, Pid
<1>5. pos' = 0
  BY DEF Quick, MayFork
<1> QED
  BY <1>2, <1>3, <1>4, <1>5 DEF PidInv, Scanned, Rejected

\* So does the start of the scan, ...
LEMMA StartScanKeeps ==
  ASSUME PidInv, StartScan PROVE PidInv'
<1> USE PidAssumption
<1>1. /\ PidTypeOK /\ pos' = 1 /\ UNCHANGED proc_list
      /\ last_pid' = IF last_pid + 1 >= MAX_PID THEN 1 ELSE last_pid + 1
      /\ next_safe' = MAX_PID /\ from' = last_pid
  BY DEF PidInv, StartScan
<1>2. PidTypeOK' /\ last_pid' \in Pid /\ last_pid' < next_safe'
  BY <1>1 DEF PidTypeOK, Pid
<1>3. PidsDistinct' /\ IntervalIsSafe'
  BY <1>1 DEF PidInv, PidsDistinct, Nodes, IntervalIsSafe
<1>4. Scanned'
  BY <1>1, <1>2 DEF Scanned
<1>5. Rejected'
  <2>1. Start' \in 0 .. MAX_PID - 1
    BY <1>1 DEF Start, PidTypeOK
  <2>2. last_pid' = IF Start' + 1 >= MAX_PID THEN 1 ELSE Start' + 1
    BY <1>1 DEF Start, PidTypeOK
  <2>3. Between(Start', last_pid') = {}
    BY <1>2, <2>1, <2>2, BetweenFirst
  <2>4. (Between(Start, last_pid))' = Between(Start', last_pid')
    BY DEF Between
  <2> QED
    BY <2>3, <2>4 DEF Rejected
<1> QED
  BY <1>2, <1>3, <1>4, <1>5 DEF PidInv

\* ... a node with the pid under consideration, ...
LEMMA CollisionKeeps ==
  ASSUME PidInv, Collision PROVE PidInv'
<1> USE PidAssumption
<1>1. /\ PidTypeOK /\ Scanned /\ Rejected
      /\ pos \in Nodes /\ proc_list[pos] = last_pid
      /\ UNCHANGED <<proc_list, from>>
  BY DEF PidInv, Collision
<1>2. pos >= 1 /\ last_pid \in Pid /\ last_pid \in Used
  BY <1>1 DEF Scanned, Nodes, Used, PidTypeOK
<1>3. last_pid' = (IF last_pid + 1 >= MAX_PID THEN 1 ELSE last_pid + 1)
      /\ last_pid' \in Pid
  BY <1>1, <1>2 DEF Collision, PidTypeOK, Pid
<1>4. PidTypeOK' /\ last_pid' < next_safe' /\ pos' >= 1
  BY <1>1, <1>2, <1>3 DEF Collision, PidTypeOK, Pid, Nodes
<1>5. PidsDistinct' /\ IntervalIsSafe'
  BY <1>1, <1>4 DEF PidInv, PidsDistinct, Nodes, IntervalIsSafe, PidTypeOK
<1>6. Scanned'
  <2>1. CASE last_pid + 1 >= next_safe
    BY <1>3, <1>4, <2>1 DEF Collision, Scanned
  <2>2. CASE ~ (last_pid + 1 >= next_safe)
    <3>1. pos' = pos + 1 /\ last_pid' = last_pid + 1 /\ next_safe' = next_safe
      BY <2>2 DEF Collision
    <3>2. \A j \in 1 .. pos : proc_list[j] \in Pid
      BY <1>1 DEF PidTypeOK, Nodes
    <3>3. ASSUME NEW j \in 1 .. pos
          PROVE  /\ proc_list[j] # last_pid + 1
                 /\ ~ (last_pid + 1 < proc_list[j] /\ proc_list[j] < next_safe)
      <4>1. CASE j = pos
        BY <1>1, <1>2, <4>1 DEF Pid
      <4>2. CASE j # pos
        BY <1>1, <1>2, <2>2, <3>2, <4>2 DEF Scanned, Pid, PidTypeOK, Nodes
      <4> QED
        BY <4>1, <4>2
    <3> QED
      BY <1>1, <1>3, <1>4, <3>1, <3>3 DEF Scanned, PidTypeOK
  <2> QED
    BY <2>1, <2>2
<1>7. Rejected'
  <2>1. Start \in 0 .. MAX_PID - 1 /\ Start' = Start /\ Used' = Used
    BY <1>1 DEF Start, PidTypeOK, Used, Nodes
  <2>2. Between(Start, last_pid')
          \subseteq Between(Start, last_pid) \union {last_pid}
    BY <1>2, <1>3, <2>1, BetweenNext
  <2>3. Between(Start, last_pid) \subseteq Used
    BY <1>1, <1>2 DEF Rejected
  <2>4. (Between(Start, last_pid))' = Between(Start', last_pid')
    BY DEF Between
  <2> QED
    BY <1>2, <2>1, <2>2, <2>3, <2>4 DEF Rejected
<1> QED
  BY <1>4, <1>5, <1>6, <1>7 DEF PidInv

\* ... any other node, ...
LEMMA PassKeeps ==
  ASSUME PidInv, Pass PROVE PidInv'
<1> USE PidAssumption
<1> DEFINE q == proc_list[pos]
<1>1. /\ PidTypeOK /\ Scanned /\ Rejected
      /\ pos \in Nodes /\ q # last_pid
      /\ next_safe' = IF q > last_pid /\ next_safe > q THEN q ELSE next_safe
      /\ pos' = pos + 1
      /\ UNCHANGED <<proc_list, last_pid, from>>
  BY DEF PidInv, Pass
<1>2. /\ pos >= 1 /\ last_pid \in Pid /\ last_pid < next_safe /\ q \in Pid
  BY <1>1 DEF Scanned, Nodes, PidTypeOK
<1>3. PidTypeOK' /\ last_pid' < next_safe' /\ pos' >= 1
  BY <1>1, <1>2 DEF PidTypeOK, Pid, Nodes
<1>4. PidsDistinct' /\ IntervalIsSafe'
  BY <1>1, <1>3 DEF PidInv, PidsDistinct, Nodes, IntervalIsSafe, PidTypeOK
<1>5. Scanned'
  <2>1. \A j \in 1 .. pos : proc_list[j] \in Pid
    BY <1>1 DEF PidTypeOK, Nodes
  <2>2. next_safe' <= next_safe /\ (q > last_pid => next_safe' <= q)
    BY <1>1, <1>2 DEF PidTypeOK, Pid
  <2>3. ASSUME NEW j \in 1 .. pos
        PROVE  /\ proc_list[j] # last_pid
               /\ ~ (last_pid < proc_list[j] /\ proc_list[j] < next_safe')
    <3>1. CASE j = pos
      BY <1>1, <1>2, <1>3, <2>2, <3>1 DEF Pid, PidTypeOK
    <3>2. CASE j # pos
      BY <1>1, <1>2, <1>3, <2>1, <2>2, <3>2 DEF Scanned, Pid, PidTypeOK, Nodes
    <3> QED
      BY <3>1, <3>2
  <2> QED
    BY <1>1, <1>2, <1>3, <2>3 DEF Scanned, PidTypeOK
<1>6. Rejected'
  <2>1. Start' = Start /\ Used' = Used /\ last_pid' = last_pid
    BY <1>1 DEF Start, Used, Nodes
  <2>2. (Between(Start, last_pid))' = Between(Start, last_pid)
    BY <2>1 DEF Between
  <2> QED
    BY <1>1, <1>2, <2>1, <2>2 DEF Rejected
<1> QED
  BY <1>3, <1>4, <1>5, <1>6 DEF PidInv

\* At the end of the scan the pid is free, and so is the interval after it.
LEMMA ScanFinds ==
  ASSUME PidInv, EndScan
  PROVE  /\ last_pid \in Pid \ Used
         /\ \A p \in Used : ~ (last_pid < p /\ p < next_safe)
<1>1. pos >= 1 /\ pos - 1 = Len(proc_list)
  BY DEF PidInv, EndScan, PidTypeOK
<1> QED
  BY <1>1 DEF PidInv, Scanned, Used, Nodes

\* ... the end of the list, ...
LEMMA EndScanKeeps ==
  ASSUME PidInv, EndScan PROVE PidInv'
<1> USE PidAssumption
<1>1. /\ PidTypeOK /\ pos' = 0 /\ UNCHANGED <<last_pid, next_safe, from>>
      /\ last_pid \in Pid \ Used
  BY ScanFinds DEF PidInv, EndScan
<1>2. /\ proc_list' \in Seq(Pid)
      /\ Len(proc_list') = Len(proc_list) + 1
      /\ Used' = Used \union {last_pid}
      /\ PidsDistinct'
  BY <1>1, AssignFree DEF PidInv, EndScan, PidTypeOK
<1>3. PidTypeOK'
  BY <1>1, <1>2 DEF PidTypeOK
<1>4. IntervalIsSafe'
  BY <1>1, <1>2, ScanFinds DEF IntervalIsSafe, PidTypeOK
<1> QED
  BY <1>1, <1>2, <1>3, <1>4 DEF PidInv, Scanned, Rejected

\* ... and a process that is removed from the list.
LEMMA RemovePidKeeps ==
  ASSUME PidInv, NEW i \in Nodes, RemovePid(i) PROVE PidInv'
<1> USE PidAssumption
<1>1. /\ PidTypeOK /\ pos = 0 /\ UNCHANGED <<last_pid, next_safe, pos, from>>
      /\ PidsDistinct /\ IntervalIsSafe
  BY DEF PidInv, RemovePid
<1> DEFINE old(j) == IF j < i THEN j ELSE j + 1
<1>2. Len(proc_list) \in Nat /\ i \in 1 .. Len(proc_list)
  BY <1>1 DEF PidTypeOK, Nodes
<1>3. \A j \in 1 .. Len(proc_list) - 1 : old(j) \in Nodes
  BY <1>2 DEF Nodes
<1>4. proc_list' = [j \in 1 .. Len(proc_list) - 1 |-> proc_list[old(j)]]
  BY DEF RemovePid
<1>5. /\ proc_list' \in Seq(Pid) /\ Len(proc_list') = Len(proc_list) - 1
      /\ \A j \in Nodes' : old(j) \in Nodes /\ proc_list'[j] = proc_list[old(j)]
  <2> HIDE DEF old
  <2>1. \A j \in 1 .. Len(proc_list) - 1 : proc_list[old(j)] \in Pid
    BY <1>1, <1>3 DEF PidTypeOK, Nodes
  <2>2. proc_list' \in Seq(Pid) /\ Len(proc_list') = Len(proc_list) - 1
    BY <1>2, <1>4, <2>1
  <2> QED
    BY <1>3, <1>4, <2>2 DEF Nodes
<1>6. Used' \subseteq Used
  BY <1>5 DEF Used
<1>7. PidTypeOK' /\ IntervalIsSafe'
  BY <1>1, <1>5, <1>6 DEF PidTypeOK, IntervalIsSafe
<1>8. PidsDistinct'
  <2>1. SUFFICES ASSUME NEW j \in Nodes', NEW k \in Nodes',
                        proc_list'[j] = proc_list'[k]
                 PROVE  j = k
    BY DEF PidsDistinct
  <2>2. old(j) = old(k)
    BY <1>1, <1>5, <2>1 DEF PidsDistinct
  <2> QED
    BY <1>2, <2>1, <2>2 DEF Nodes
<1> QED
  BY <1>1, <1>7, <1>8 DEF PidInv, Scanned, Rejected

----------------------------------------------------------------------------
\* The invariant holds at the start, ...
LEMMA PidInitHolds == PidInit => PidInv
<1> SUFFICES ASSUME PidInit PROVE PidInv
  OBVIOUS
<1> QED
  BY PidAssumption DEF PidInit, PidInv, PidTypeOK, PidsDistinct, IntervalIsSafe, Scanned,
     Rejected, Used, Nodes

\* ... and every step keeps it, ...
LEMMA PidNextKeeps == PidInv /\ [PidNext]_pidVars => PidInv'
<1> SUFFICES ASSUME PidInv, [PidNext]_pidVars PROVE PidInv'
  OBVIOUS
<1>1. CASE UNCHANGED pidVars
  BY <1>1 DEF pidVars, PidInv, PidTypeOK, PidsDistinct, IntervalIsSafe, Scanned, Rejected,
     Used, Nodes, Start, Between
<1>2. CASE PidNext
  BY <1>2, QuickKeeps, StartScanKeeps, CollisionKeeps, PassKeeps, EndScanKeeps,
     RemovePidKeeps DEF PidNext
<1> QED
  BY <1>1, <1>2

\* ... so it always holds.
LEMMA PidInductive == PidSpec => []PidInv
BY PidInitHolds, PidNextKeeps, PTL DEF PidSpec

\* The variables of get_pid and the list keep their ranges.
THEOREM PidTypeCorrect == PidSpec => []PidTypeOK
<1>1. PidInv => PidTypeOK
  BY DEF PidInv
<1> QED
  BY <1>1, PidInductive, PTL

\* No two processes ever have the same pid.
THEOREM PidsUnique == PidSpec => []PidsDistinct
<1>1. PidInv => PidsDistinct
  BY DEF PidInv
<1> QED
  BY <1>1, PidInductive, PTL

\* Between two calls the remembered interval holds no pid in use.
THEOREM IntervalFree == PidSpec => []IntervalIsSafe
<1>1. PidInv => IntervalIsSafe
  BY DEF PidInv
<1> QED
  BY <1>1, PidInductive, PTL

\* A new process gets the first free pid after the last one given.
THEOREM NextFree == PidSpec => TakesTheNextFree
<1> DEFINE A == Len(proc_list') > Len(proc_list) =>
                  /\ proc_list'[1] \in Pid \ Used
                  /\ Between(Start', proc_list'[1]) \subseteq Used
<1>1. ASSUME PidInv, [PidNext]_pidVars PROVE [A]_proc_list
  <2> USE PidAssumption
  <2>0. proc_list \in Seq(Pid) /\ PidTypeOK
    BY <1>1 DEF PidInv, PidTypeOK
  <2>1. CASE Quick
    <3>1. last_pid + 1 \in Pid \ Used
      BY <1>1, <2>1, QuickFree
    <3>2. proc_list'[1] = last_pid + 1
      BY <1>1, <2>0, <2>1, <3>1, AssignFree DEF PidInv, Quick
    <3>3. Start' \in 0 .. MAX_PID - 1 /\ Start' = last_pid
      BY <2>0, <2>1, <3>1 DEF Quick, Start, PidTypeOK, Pid
    <3>4. Between(Start', last_pid + 1) = {}
      BY <2>1, <3>1, <3>3, BetweenFirst DEF Pid, Quick
    <3> QED
      BY <3>1, <3>2, <3>4
  <2>2. CASE EndScan
    <3>1. last_pid \in Pid \ Used
      BY <1>1, <2>2, ScanFinds
    <3>2. proc_list'[1] = last_pid
      BY <1>1, <2>0, <2>2, <3>1, AssignFree DEF PidInv, EndScan
    <3>3. Start' = Start /\ pos >= 1
      BY <2>0, <2>2 DEF EndScan, Start, PidTypeOK
    <3>4. Between(Start', last_pid) \subseteq Used
      BY <1>1, <3>3 DEF PidInv, Rejected
    <3> QED
      BY <3>1, <3>2, <3>4
  <2>3. CASE UNCHANGED proc_list
    BY <2>3
  <2>4. ASSUME NEW i \in Nodes, RemovePid(i) PROVE A
    <3>1. Len(proc_list) \in Nat /\ i \in 1 .. Len(proc_list)
      BY <2>0, <2>4 DEF Nodes
    <3>2. Len(proc_list') = Len(proc_list) - 1
      BY <3>1, <2>4 DEF RemovePid
    <3> QED
      BY <3>1, <3>2
  <2> QED
    BY <1>1, <2>1, <2>2, <2>3, <2>4 DEF PidNext, pidVars, StartScan, Collision, Pass
<1> QED
  BY <1>1, PidInductive, PTL DEF PidSpec, TakesTheNextFree

=============================================================================
