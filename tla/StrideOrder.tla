---------------------------- MODULE StrideOrder ----------------------------
(***************************************************************************)
(* The arithmetic of strides in kern/schedule/default_sched.c.  A stride   *)
(* is an unsigned word that wraps around; two of them are compared by the  *)
(* sign of their difference, taken as a signed word.  This orders any two  *)
(* words, but it orders a set of them only while they lie on one half of   *)
(* the circle of words.                                                    *)
(***************************************************************************)
EXTENDS Integers

CONSTANT BIG_STRIDE    \* the largest signed word; 0x7FFFFFFF in the code

ASSUME WidthAssumption == BIG_STRIDE \in Nat \ {0}

Words == 2 * (BIG_STRIDE + 1)
Word == 0 .. Words - 1

\* a - b and a + d, as words.
Ahead(a, b) == IF a >= b THEN a - b ELSE a - b + Words
Advanced(a, d) == IF a + d < Words THEN a + d ELSE a + d - Words

\* Faulty variant: the strides are compared as numbers.
BeforeAsNumbers(a, b) == a < b

\* proc_stride_comp_f gives -1.
Before(a, b) == Ahead(a, b) > BIG_STRIDE

\* Faulty variant: the constant is the number of words of half the circle.
PassTooLong(priority) ==
  IF priority = 0 THEN BIG_STRIDE + 1 ELSE (BIG_STRIDE + 1) \div priority

\* What one turn adds to the stride.
Pass(priority) == IF priority = 0 THEN BIG_STRIDE ELSE BIG_STRIDE \div priority

\* No word of S is behind a.
FirstOf(a, S) == \A b \in S : Ahead(b, a) <= BIG_STRIDE

\* The words of S lie on one half of the circle, which begins with one of them.
OnHalfCircle(S) == \E a \in S : FirstOf(a, S)
=============================================================================
