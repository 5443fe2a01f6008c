------------------------------- MODULE Timers -------------------------------
(***************************************************************************)
(* What add_timer, del_timer and run_timer_list of kern/schedule/sched.c   *)
(* promise the processes that arm timers: a timer armed for n fires at the *)
(* n-th tick from then, unless it is deleted before, and those that are    *)
(* due together fire in the order in which they were armed.                *)
(***************************************************************************)
EXTENDS Integers, Sequences, SequencesExt

CONSTANTS Timer,        \* the timers
          MaxExpires    \* the longest time a timer is armed for

VARIABLES due,     \* due[n]: the timers with n ticks left, as they were armed
          fired    \* the timers fired by the step that was just taken

vars == <<due, fired>>

Armed == UNION {ToSet(due[n]) : n \in 1 .. MaxExpires}

Init == due = [n \in 1 .. MaxExpires |-> <<>>] /\ fired = <<>>

Add(t, n) == /\ t \notin Armed
             /\ due' = [due EXCEPT ![n] = Append(@, t)]
             /\ fired' = <<>>

Del(t) == /\ due' = [n \in 1 .. MaxExpires |-> Remove(due[n], t)]
          /\ fired' = <<>>

Tick == /\ fired' = due[1]
        /\ due' = [n \in 1 .. MaxExpires |-> IF n = MaxExpires THEN <<>> ELSE due[n + 1]]

Next == \/ \E t \in Timer, n \in 1 .. MaxExpires : Add(t, n)
        \/ \E t \in Timer : Del(t)
        \/ Tick

Spec == Init /\ [][Next]_vars
=============================================================================
