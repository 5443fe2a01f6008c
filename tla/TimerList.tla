----------------------------- MODULE TimerList -----------------------------
(***************************************************************************)
(* The timers of kern/schedule/sched.c: a list in which each timer holds   *)
(* the ticks it expires AFTER the one before it, so that a tick touches    *)
(* the first timer only.                                                   *)
(*                                                                         *)
(* The three operations run with interrupts disabled: one step each.  A    *)
(* timer is armed when it is linked, as list_empty(&timer_link) tells; what*)
(* a timer that is not linked has in expires, timer_init overwrites: 0.    *)
(* What a wakeup does is in ProcLife and in the models of the classes.     *)
(***************************************************************************)
EXTENDS Integers, Sequences, SequencesExt, FiniteSetsExt, Functions

CONSTANTS Timer,        \* the timer_t objects
          MaxExpires    \* the longest time a timer is armed for: a bound

TimerAssumption == MaxExpires \in Nat \ {0}

VARIABLES timer_list,   \* the linked timers, in the order of the list
          expires,      \* timer->expires
          fired         \* the timers whose processes were woken up by the
                        \* step just taken, in that order

vars == <<timer_list, expires, fired>>

Init == /\ timer_list = <<>>
        /\ expires = [t \in Timer |-> 0]
        /\ fired = <<>>

Linked(t) == t \in ToSet(timer_list)

\* The sum of the first i entries: the ticks left of the i-th timer.
TicksTo(i) == SumFunctionOnSet(expires, {timer_list[j] : j \in 1 .. i})

----------------------------------------------------------------------------
\* Faulty variant: "<=" for "<".
PlaceBeforeEqual(n) ==
  Min({i \in 1 .. Len(timer_list) : n <= TicksTo(i)} \union {Len(timer_list) + 1})

\* Where the loop of add_timer stops: the first timer that expires later.
Place(n) ==
  Min({i \in 1 .. Len(timer_list) : n < TicksTo(i)} \union {Len(timer_list) + 1})

\* add_timer: n less the ticks of those it passes is what remains of it, and
\* the timer it comes before gives these ticks away.
Add(t, n) ==
  /\ ~ Linked(t)                 \* assert(list_empty(&(timer->timer_link)))
  /\ LET at == Place(n)
         rest == n - TicksTo(at - 1)
     IN  /\ timer_list' = InsertAt(timer_list, at, t)
         /\ expires' = [u \in Timer |->
                          IF u = t THEN rest
                          ELSE IF at <= Len(timer_list) /\ u = timer_list[at]
                               THEN expires[u] - rest
                               ELSE expires[u]]
  /\ fired' = <<>>

\* del_timer: the next timer takes over the ticks.  A timer that is not linked
\* is left alone.
Del(t) ==
  /\ Linked(t)
  /\ LET i == CHOOSE i \in 1 .. Len(timer_list) : timer_list[i] = t
         rest == [expires EXCEPT ![t] = 0]
     IN  expires' = IF i < Len(timer_list)
                    THEN [rest EXCEPT ![timer_list[i + 1]] = @ + expires[t]]
                    ELSE rest
  /\ timer_list' = Remove(timer_list, t)
  /\ fired' = <<>>

\* The timers at the front of the list with nothing left to wait for.
Due(e) ==
  Max({i \in 0 .. Len(timer_list) : \A j \in 1 .. i : e[timer_list[j]] = 0})

\* run_timer_list without the class's proc_tick.  The timers that are fired
\* have no ticks left, so del_timer changes no other one.
Tick ==
  IF timer_list = <<>>
  THEN fired' = <<>> /\ UNCHANGED <<timer_list, expires>>
  ELSE /\ expires' = [expires EXCEPT ![timer_list[1]] = @ - 1]
       /\ fired' = SubSeq(timer_list, 1, Due(expires'))
       /\ timer_list' = SubSeq(timer_list, Due(expires') + 1, Len(timer_list))

Next == \/ \E t \in Timer, n \in 1 .. MaxExpires : Add(t, n)
        \/ \E t \in Timer : Del(t)
        \/ Tick

Spec == Init /\ [][Next]_vars

----------------------------------------------------------------------------
\* The ticks left of each timer: the entries up to its own add up to them.
TicksLeft ==
  [t \in Timer |->
     IF Linked(t)
     THEN TicksTo(CHOOSE i \in 1 .. Len(timer_list) : timer_list[i] = t)
     ELSE 0]

Abstract == INSTANCE Timers WITH
  due <- [n \in 1 .. MaxExpires |-> SelectSeq(timer_list, LAMBDA t : TicksLeft[t] = n)]

\* A timer fires exactly as many ticks after it was armed as it was armed for,
\* whatever timers are added and deleted before and behind it, and behind those
\* that were armed before it for the same tick; so the assertion of
\* run_timer_list holds, and none is forgotten while the clock ticks.
ImplementsTimers == Abstract!Spec
=============================================================================
