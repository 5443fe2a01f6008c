---------------------------- MODULE SequenceFacts ----------------------------
(***************************************************************************)
(* Lemmas about the sequences that model the kernel's linked lists: what   *)
(* list_add_before, list_del_init of the first element and splicing do to  *)
(* a list in which no element is twice.  They are used by the proofs about *)
(* the run queues.                                                         *)
(***************************************************************************)
EXTENDS Integers, Sequences, WellFoundedInduction, TLAPS

\* Sequences without repetition, and their elements.
Once(s) == \A i, j \in 1 .. Len(s) : s[i] = s[j] => i = j
Elems(s) == {s[i] : i \in 1 .. Len(s)}

----------------------------------------------------------------------------
\* The least element: induction over the naturals, for sets.
LEMMA LeastOf ==
  ASSUME NEW N \in SUBSET Nat, N # {}
  PROVE  \E m \in N : \A k \in N : m <= k
<1>1. PICK m \in N : \A k \in N : <<k, m>> \notin OpToRel(<, Nat)
  BY WFMin, NatLessThanWellFounded, Zenon
<1>2. ASSUME NEW k \in N PROVE ~ (k < m)
  BY <1>1, Zenon DEF OpToRel
<1> QED
  BY <1>2

\* The empty list.
LEMMA EmptyOnce == Once(<<>>) /\ Elems(<<>>) = {}
BY DEF Once, Elems

\* The elements of a list are those of its set.
LEMMA ElemsType ==
  ASSUME NEW S, NEW s \in Seq(S)
  PROVE  Elems(s) \subseteq S /\ (Elems(s) = {} <=> s = <<>>)
BY DEF Elems

\* Putting a new element at the end.
LEMMA AppendOnce ==
  ASSUME NEW S, NEW s \in Seq(S), NEW x \in S, Once(s), x \notin Elems(s)
  PROVE  /\ Append(s, x) \in Seq(S)
         /\ Once(Append(s, x))
         /\ Elems(Append(s, x)) = Elems(s) \cup {x}
<1> DEFINE a == Append(s, x)
<1>1. /\ a \in Seq(S)
      /\ Len(s) \in Nat /\ Len(a) = Len(s) + 1
      /\ \A i \in 1 .. Len(a) : a[i] = IF i = Len(s) + 1 THEN x ELSE s[i]
  OBVIOUS
<1> HIDE DEF a
<1>2. ASSUME NEW i \in 1 .. Len(a)
      PROVE  \/ i \in 1 .. Len(s) /\ a[i] = s[i] /\ a[i] \in Elems(s)
             \/ i = Len(s) + 1 /\ a[i] = x
  BY <1>1 DEF Elems
<1>3. Once(a)
  <2> SUFFICES ASSUME NEW i \in 1 .. Len(a), NEW j \in 1 .. Len(a), a[i] = a[j]
               PROVE  i = j
    BY DEF Once
  <2> QED
    BY <1>2 DEF Once
<1>4. Elems(a) = Elems(s) \cup {x}
  <2>1. Elems(a) \subseteq Elems(s) \cup {x}
    BY <1>2 DEF Elems
  <2>2. ASSUME NEW i \in 1 .. Len(s) PROVE s[i] \in Elems(a)
    BY <1>1 DEF Elems
  <2>3. x \in Elems(a)
    <3>1. Len(s) + 1 \in 1 .. Len(a) /\ a[Len(s) + 1] = x
      BY <1>1
    <3> QED
      BY <3>1 DEF Elems
  <2> QED
    BY <2>1, <2>2, <2>3 DEF Elems
<1> QED
  BY <1>1, <1>3, <1>4 DEF a

\* Taking the first element off.
LEMMA TailOnce ==
  ASSUME NEW S, NEW s \in Seq(S), s # <<>>, Once(s)
  PROVE  /\ Head(s) \in Elems(s)
         /\ Tail(s) \in Seq(S)
         /\ Once(Tail(s))
         /\ Elems(Tail(s)) = Elems(s) \ {Head(s)}
<1> DEFINE t == Tail(s)
<1>1. /\ t \in Seq(S)
      /\ Len(s) \in Nat \ {0} /\ Len(t) = Len(s) - 1
      /\ Head(s) = s[1]
      /\ \A i \in 1 .. Len(t) : t[i] = s[i + 1]
  OBVIOUS
<1> HIDE DEF t
<1>2. Head(s) \in Elems(s)
  BY <1>1 DEF Elems
<1>3. \A i \in 1 .. Len(t) : i + 1 \in 1 .. Len(s)
  BY <1>1
<1>4. Once(t)
  <2> SUFFICES ASSUME NEW i \in 1 .. Len(t), NEW j \in 1 .. Len(t), t[i] = t[j]
               PROVE  i = j
    BY DEF Once
  <2>1. i + 1 = j + 1
    BY <1>1, <1>3 DEF Once
  <2> QED
    BY <2>1
<1>5. Elems(t) = Elems(s) \ {s[1]}
  <2>1. ASSUME NEW i \in 1 .. Len(t) PROVE t[i] \in Elems(s) /\ t[i] # s[1]
    <3>1. i + 1 \in 1 .. Len(s) /\ 1 \in 1 .. Len(s) /\ i + 1 # 1 /\ t[i] = s[i + 1]
      BY <1>1, <1>3
    <3> QED
      BY <3>1 DEF Elems, Once
  <2>2. ASSUME NEW i \in 1 .. Len(s), s[i] # s[1] PROVE s[i] \in Elems(t)
    <3>1. i - 1 \in 1 .. Len(t) /\ (i - 1) + 1 = i
      BY <1>1, <2>2
    <3>2. t[i - 1] = s[i]
      BY <1>1, <3>1
    <3> QED
      BY <3>1, <3>2 DEF Elems
  <2> QED
    BY <2>1, <2>2 DEF Elems
<1> QED
  BY <1>1, <1>2, <1>4, <1>5 DEF t

\* The elements of two lists one after the other.
LEMMA ElemsConcat ==
  ASSUME NEW S, NEW s \in Seq(S), NEW t \in Seq(S)
  PROVE  s \o t \in Seq(S) /\ Elems(s \o t) = Elems(s) \cup Elems(t)
<1> DEFINE c == s \o t
           n == Len(s)
<1>1. /\ n \in Nat /\ Len(t) \in Nat /\ c \in Seq(S)
      /\ \A i \in 1 .. n : i \in 1 .. Len(c) /\ c[i] = s[i]
      /\ \A i \in 1 .. Len(t) : i + n \in 1 .. Len(c) /\ c[i + n] = t[i]
      /\ \A i \in 1 .. Len(c) : i \in 1 .. n \/ i - n \in 1 .. Len(t)
      /\ \A i \in 1 .. Len(c) : i - n \in 1 .. Len(t) => c[i] = t[i - n]
  OBVIOUS
<1> HIDE DEF c
<1>2. Elems(c) \subseteq Elems(s) \cup Elems(t)
  <2> SUFFICES ASSUME NEW i \in 1 .. Len(c) PROVE c[i] \in Elems(s) \cup Elems(t)
    BY DEF Elems
  <2>1. CASE i \in 1 .. n
    BY <1>1, <2>1 DEF Elems
  <2>2. CASE i - n \in 1 .. Len(t)
    BY <1>1, <2>2 DEF Elems
  <2> QED
    BY <1>1, <2>1, <2>2
<1>3. ASSUME NEW i \in 1 .. n PROVE s[i] \in Elems(c)
  BY <1>1 DEF Elems
<1>4. ASSUME NEW i \in 1 .. Len(t) PROVE t[i] \in Elems(c)
  BY <1>1 DEF Elems
<1>5. Elems(s) \subseteq Elems(c) /\ Elems(t) \subseteq Elems(c)
  BY <1>3, <1>4 DEF Elems
<1> QED
  BY <1>1, <1>2, <1>5 DEF c

\* Concatenation of two such sequences that have no element in common.
LEMMA ConcatOnce ==
  ASSUME NEW S, NEW s \in Seq(S), NEW t \in Seq(S),
         Once(s), Once(t), Elems(s) \cap Elems(t) = {}
  PROVE  s \o t \in Seq(S) /\ Once(s \o t) /\ Elems(s \o t) = Elems(s) \cup Elems(t)
<1> DEFINE c == s \o t
<1>1. /\ Len(s) \in Nat /\ Len(t) \in Nat /\ Len(c) = Len(s) + Len(t)
      /\ \A i \in 1 .. Len(c) : c[i] = IF i <= Len(s) THEN s[i] ELSE t[i - Len(s)]
  OBVIOUS
<1> HIDE DEF c
<1>2. ASSUME NEW i \in 1 .. Len(c)
      PROVE  \/ i \in 1 .. Len(s) /\ c[i] = s[i] /\ c[i] \in Elems(s)
             \/ /\ i \notin 1 .. Len(s)
                /\ i - Len(s) \in 1 .. Len(t)
                /\ c[i] = t[i - Len(s)]
                /\ c[i] \in Elems(t)
  BY <1>1 DEF Elems
<1>3. Once(c)
  <2> SUFFICES ASSUME NEW i \in 1 .. Len(c), NEW j \in 1 .. Len(c), c[i] = c[j]
               PROVE  i = j
    BY DEF Once
  <2>1. CASE i \in 1 .. Len(s) /\ j \in 1 .. Len(s)
    BY <2>1, <1>2 DEF Once
  <2>2. CASE i \notin 1 .. Len(s) /\ j \notin 1 .. Len(s)
    <3>1. i - Len(s) = j - Len(s)
      BY <2>2, <1>2 DEF Once
    <3> QED
      BY <3>1, <1>1
  <2>3. CASE i \in 1 .. Len(s) /\ j \notin 1 .. Len(s)
    BY <2>3, <1>2
  <2>4. CASE i \notin 1 .. Len(s) /\ j \in 1 .. Len(s)
    BY <2>4, <1>2
  <2> QED
    BY <2>1, <2>2, <2>3, <2>4
<1> QED
  BY <1>3, ElemsConcat DEF c

\* Adding at the end leaves the front of a list as it was; adding to the list
\* without its first element, the front of that.
LEMMA FrontKept ==
  ASSUME NEW S, NEW s \in Seq(S), NEW x \in S
  PROVE  /\ SubSeq(s, 1, Len(s)) = s
         /\ SubSeq(Append(s, x), 1, Len(s)) = s
         /\ s # <<>> => Tail(Append(s, x)) = Append(Tail(s), x)
                        /\ Head(Append(s, x)) = Head(s)
<1>1. SubSeq(s, 1, Len(s)) = s
  OBVIOUS
<1>2. SubSeq(Append(s, x), 1, Len(s)) = s
  OBVIOUS
<1>3. ASSUME s # <<>>
      PROVE  Tail(Append(s, x)) = Append(Tail(s), x) /\ Head(Append(s, x)) = Head(s)
  BY <1>3
<1> QED
  BY <1>1, <1>2, <1>3
----------------------------------------------------------------------------
(* The order of a list.                                                    *)

\* x stands somewhere before y.
Before(s, x, y) == \E i, j \in 1 .. Len(s) : i < j /\ s[i] = x /\ s[j] = y

\* Those who stand before each other are elements.
LEMMA BeforeElems ==
  ASSUME NEW s, NEW x, NEW y, Before(s, x, y)
  PROVE  x \in Elems(s) /\ y \in Elems(s)
BY DEF Before, Elems

\* A new last element comes after all the others, whose order it leaves alone.
LEMMA BeforeAppend ==
  ASSUME NEW S, NEW s \in Seq(S), NEW z \in S, NEW x, NEW y
  PROVE  Before(Append(s, z), x, y)
           <=> Before(s, x, y) \/ (x \in Elems(s) /\ y = z)
<1> DEFINE a == Append(s, z)
<1>1. /\ Len(s) \in Nat /\ Len(a) = Len(s) + 1
      /\ \A i \in 1 .. Len(s) : i \in 1 .. Len(a) /\ a[i] = s[i]
      /\ Len(a) \in 1 .. Len(a) /\ a[Len(a)] = z
      /\ \A i \in 1 .. Len(a) : i = Len(a) \/ i \in 1 .. Len(s)
  OBVIOUS
<1> HIDE DEF a
<1>2. ASSUME Before(s, x, y) PROVE Before(a, x, y)
  BY <1>1, <1>2 DEF Before
<1>3. ASSUME x \in Elems(s), y = z PROVE Before(a, x, y)
  <2>1. PICK i \in 1 .. Len(s) : s[i] = x
    BY <1>3 DEF Elems
  <2>2. i \in 1 .. Len(a) /\ i < Len(a) /\ a[i] = x
    BY <1>1, <2>1
  <2> QED
    BY <1>1, <1>3, <2>2 DEF Before
<1>4. ASSUME NEW i \in 1 .. Len(a), NEW j \in 1 .. Len(a), i < j, a[i] = x, a[j] = y
      PROVE  Before(s, x, y) \/ (x \in Elems(s) /\ y = z)
  <2>1. i \in 1 .. Len(s) /\ s[i] = x
    BY <1>1, <1>4
  <2>2. CASE j = Len(a)
    BY <1>1, <1>4, <2>1, <2>2 DEF Elems
  <2>3. CASE j \in 1 .. Len(s)
    BY <1>1, <1>4, <2>1, <2>3 DEF Before
  <2> QED
    BY <1>1, <2>2, <2>3
<1> QED
  BY <1>2, <1>3, <1>4 DEF a, Before

\* Of two lists one after the other, the elements of the first come first.
LEMMA BeforeConcat ==
  ASSUME NEW S, NEW s \in Seq(S), NEW t \in Seq(S), NEW x, NEW y
  PROVE  Before(s \o t, x, y)
           <=> \/ Before(s, x, y)
               \/ Before(t, x, y)
               \/ x \in Elems(s) /\ y \in Elems(t)
<1> DEFINE c == s \o t
           n == Len(s)
<1>1. /\ n \in Nat /\ Len(t) \in Nat /\ Len(c) = n + Len(t)
      /\ \A i \in 1 .. n : i \in 1 .. Len(c) /\ c[i] = s[i]
      /\ \A i \in 1 .. Len(t) : i + n \in 1 .. Len(c) /\ c[i + n] = t[i]
      /\ \A i \in 1 .. Len(c) : i \in 1 .. n \/ i - n \in 1 .. Len(t)
      /\ \A i \in 1 .. Len(c) : i - n \in 1 .. Len(t) => c[i] = t[i - n]
  OBVIOUS
<1> HIDE DEF c, n
<1>2. ASSUME Before(s, x, y) PROVE Before(c, x, y)
  BY <1>1, <1>2 DEF Before, n
<1>3. ASSUME Before(t, x, y) PROVE Before(c, x, y)
  <2>1. PICK i, j \in 1 .. Len(t) : i < j /\ t[i] = x /\ t[j] = y
    BY <1>3 DEF Before
  <2>2. i + n < j + n /\ i + n \in 1 .. Len(c) /\ j + n \in 1 .. Len(c)
    BY <1>1, <2>1
  <2> QED
    BY <1>1, <2>1, <2>2 DEF Before
<1>4. ASSUME x \in Elems(s), y \in Elems(t) PROVE Before(c, x, y)
  <2>1. PICK i \in 1 .. n : s[i] = x
    BY <1>4 DEF Elems, n
  <2>2. PICK j \in 1 .. Len(t) : t[j] = y
    BY <1>4 DEF Elems
  <2>3. i < j + n /\ i \in 1 .. Len(c) /\ j + n \in 1 .. Len(c)
    BY <1>1
  <2> QED
    BY <1>1, <2>1, <2>2, <2>3 DEF Before
<1>5. ASSUME NEW i \in 1 .. Len(c), NEW j \in 1 .. Len(c), i < j, c[i] = x, c[j] = y
      PROVE  \/ Before(s, x, y)
             \/ Before(t, x, y)
             \/ x \in Elems(s) /\ y \in Elems(t)
  <2>1. CASE i \in 1 .. n /\ j \in 1 .. n
    BY <1>1, <1>5, <2>1 DEF Before, n
  <2>2. CASE i - n \in 1 .. Len(t) /\ j - n \in 1 .. Len(t)
    <3>1. i - n < j - n
      BY <1>1, <1>5
    <3> QED
      BY <1>1, <1>5, <2>2, <3>1 DEF Before
  <2>3. CASE i \in 1 .. n /\ j - n \in 1 .. Len(t)
    BY <1>1, <1>5, <2>3 DEF Elems, n
  <2>4. CASE i - n \in 1 .. Len(t) /\ j \in 1 .. n
    BY <1>1, <1>5, <2>4
  <2> QED
    BY <1>1, <2>1, <2>2, <2>3, <2>4
<1> QED
  BY <1>2, <1>3, <1>4, <1>5 DEF c, Before

\* Taking the first element off leaves the order of the others alone.
LEMMA BeforeTail ==
  ASSUME NEW S, NEW s \in Seq(S), s # <<>>, NEW x, NEW y, x # Head(s)
  PROVE  Before(Tail(s), x, y) <=> Before(s, x, y)
<1> DEFINE t == Tail(s)
<1>1. /\ Len(s) \in Nat
      /\ \A i \in 1 .. Len(t) : i + 1 \in 1 .. Len(s) /\ t[i] = s[i + 1]
      /\ \A i \in 1 .. Len(s) : i = 1 \/ (i - 1 \in 1 .. Len(t) /\ t[i - 1] = s[i])
      /\ s[1] = Head(s)
  OBVIOUS
<1> HIDE DEF t
<1>2. ASSUME NEW i \in 1 .. Len(t), NEW j \in 1 .. Len(t), i < j, t[i] = x, t[j] = y
      PROVE  Before(s, x, y)
  <2>1. i + 1 < j + 1
    BY <1>2
  <2> QED
    BY <1>1, <1>2, <2>1 DEF Before
<1>3. ASSUME NEW i \in 1 .. Len(s), NEW j \in 1 .. Len(s), i < j, s[i] = x, s[j] = y
      PROVE  Before(t, x, y)
  <2>1. i # 1 /\ j # 1 /\ i - 1 < j - 1
    BY <1>1, <1>3
  <2> QED
    BY <1>1, <1>3, <2>1 DEF Before
<1> QED
  BY <1>2, <1>3 DEF t, Before
=============================================================================
