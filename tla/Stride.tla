------------------------------- MODULE Stride -------------------------------
(***************************************************************************)
(* kern/schedule/sched.c with the class default_sched_class of             *)
(* kern/schedule/default_sched.c: the process with the least stride runs,  *)
(* and each turn adds to its stride the inverse of its priority.           *)
(*                                                                         *)
(* StrideOrder has the arithmetic of strides, which wrap around.  The      *)
(* ready processes are in a skew heap (libs/skew_heap.h), where the place  *)
(* of a process is settled by the comparisons made when it is inserted and *)
(* when others are removed.                                                *)
(*                                                                         *)
(* The actions of sched.c and proc.c are those of SmartMlfq; rq->proc_num  *)
(* is left out, as nothing reads it.                                       *)
(***************************************************************************)
EXTENDS StrideOrder, FiniteSets

CONSTANTS Procs,            \* the proc_structs that can be in use at once
          Idle,             \* idleproc, never in the pool
          max_time_slice,   \* rq->max_time_slice
          Priorities        \* the arguments of lab6_set_priority

ASSUME StrideAssumption ==
  /\ IsFiniteSet(Procs)
  /\ Idle \notin Procs
  /\ max_time_slice \in Nat \ {0}
  /\ Priorities \subseteq Nat

VARIABLES state,           \* proc->state; "UNINIT" is also a slot not in use
          current,         \* the process that owns the CPU
          leaving,         \* current is between a change of its state and the
                           \* call of schedule() that follows
          need_resched,    \* proc->need_resched
          pool,            \* rq->lab6_run_pool
          lab6_stride,     \* proc->lab6_stride
          lab6_priority,   \* proc->lab6_priority
          time_slice       \* proc->time_slice

vars == <<state, current, leaving, need_resched, pool, lab6_stride,
          lab6_priority, time_slice>>

AllProcs == Procs \cup {Idle}
States == {"UNINIT", "SLEEPING", "RUNNABLE", "ZOMBIE"}

\* The heaps in which each process of S stands once: <<>>, or <<process, left
\* heap, right heap>>.
Heaps[S \in SUBSET Procs] ==
  IF S = {} THEN {<<>>}
  ELSE UNION {{c[1]} \X Heaps[c[2]] \X Heaps[S \ (c[2] \union {c[1]})] :
                c \in {c \in S \X SUBSET S : c[1] \notin c[2]}}

Heap == UNION {Heaps[S] : S \in SUBSET Procs}

TypeOK == /\ state \in [AllProcs -> States]
          /\ current \in AllProcs
          /\ leaving \in BOOLEAN
          /\ need_resched \in [AllProcs -> BOOLEAN]
          /\ pool \in Heap
          /\ lab6_stride \in [Procs -> Word]
          /\ lab6_priority \in [Procs -> Nat]
          /\ time_slice \in [Procs -> 0 .. max_time_slice]

----------------------------------------------------------------------------
\* skew_heap_merge of heaps x and y that share no process; s are the strides.
Merge(x, y, s) ==
  LET merge[h \in Heap \X Heap] ==
        LET a == h[1]
            b == h[2]
        IN  IF a = <<>> THEN b
            ELSE IF b = <<>> THEN a
            ELSE IF Before(s[a[1]], s[b[1]]) THEN <<a[1], merge[<<a[3], b>>], a[2]>>
            ELSE <<b[1], merge[<<a, b[3]>>], b[2]>>
  IN  merge[<<x, y>>]

\* skew_heap_insert
Insert(h, p, s) == Merge(h, <<p, <<>>, <<>>>>, s)

\* Faulty variant: the right heap is dropped.
RemoveRootLeft(h, s) == h[2]

\* skew_heap_remove of the root, the process stride_pick_next returned.
RemoveRoot(h, s) == Merge(h[2], h[3], s)

\* The slice stride_enqueue leaves a process with.
Granted(slice) ==
  IF slice = 0 \/ slice > max_time_slice THEN max_time_slice ELSE slice

\* stride_enqueue
Enqueue(p) ==
  /\ pool' = Insert(pool, p, lab6_stride)
  /\ time_slice' = [time_slice EXCEPT ![p] = Granted(@)]

Ready == {p \in Procs : state[p] = "RUNNABLE"}

----------------------------------------------------------------------------
\* sched_init and proc_init
Init == \E init \in Procs :
  /\ state = [p \in AllProcs |->
                IF p \in {Idle, init} THEN "RUNNABLE" ELSE "UNINIT"]
  /\ current = Idle
  /\ leaving = FALSE
  /\ need_resched = [p \in AllProcs |-> p = Idle]
  /\ pool = <<init, <<>>, <<>>>>
  /\ lab6_stride = [p \in Procs |-> 0]
  /\ lab6_priority = [p \in Procs |-> 0]
  /\ time_slice = [p \in Procs |-> IF p = init THEN max_time_slice ELSE 0]

Running == current \in Procs /\ ~ leaving

\* do_fork ends in wakeup_proc on the new process; its stride is 0.
Fork(p) ==
  /\ Running
  /\ state[p] = "UNINIT"
  /\ state' = [state EXCEPT ![p] = "RUNNABLE"]
  /\ Enqueue(p)
  /\ UNCHANGED <<current, leaving, need_resched, lab6_stride, lab6_priority>>

\* Faulty variant: wakeup_proc enqueues the running process too.
WakeupAlways(p) ==
  /\ state[p] = "SLEEPING"
  /\ state' = [state EXCEPT ![p] = "RUNNABLE"]
  /\ Enqueue(p)
  /\ UNCHANGED <<current, leaving, need_resched, lab6_stride, lab6_priority>>

\* wakeup_proc; p = current when an interrupt wakes the process up just before
\* it calls schedule().
Wakeup(p) ==
  /\ state[p] = "SLEEPING"
  /\ state' = [state EXCEPT ![p] = "RUNNABLE"]
  /\ IF p # current THEN Enqueue(p) ELSE UNCHANGED <<pool, time_slice>>
  /\ UNCHANGED <<current, leaving, need_resched, lab6_stride, lab6_priority>>

\* do_wait and do_exit, up to the schedule() they call.
Leave(s) ==
  /\ Running
  /\ state' = [state EXCEPT ![current] = s]
  /\ leaving' = TRUE
  /\ UNCHANGED <<current, need_resched, pool, lab6_stride, lab6_priority, time_slice>>

Sleep == Leave("SLEEPING")
Exit == Leave("ZOMBIE")

\* do_wait frees a zombie; its slot gets the fields of the next alloc_proc.
Reap(p) ==
  /\ Running
  /\ state[p] = "ZOMBIE"
  /\ state' = [state EXCEPT ![p] = "UNINIT"]
  /\ time_slice' = [time_slice EXCEPT ![p] = 0]
  /\ lab6_stride' = [lab6_stride EXCEPT ![p] = 0]
  /\ lab6_priority' = [lab6_priority EXCEPT ![p] = 0]
  /\ UNCHANGED <<current, leaving, need_resched, pool>>

\* do_yield
Yield ==
  /\ Running
  /\ need_resched' = [need_resched EXCEPT ![current] = TRUE]
  /\ UNCHANGED <<state, current, leaving, pool, lab6_stride, lab6_priority, time_slice>>

\* lab6_set_priority, a system call.
SetPriority(n) ==
  /\ Running
  /\ lab6_priority' = [lab6_priority EXCEPT ![current] = IF n = 0 THEN 1 ELSE n]
  /\ UNCHANGED <<state, current, leaving, need_resched, pool, lab6_stride, time_slice>>

\* stride_proc_tick
ProcTick(p) ==
  /\ time_slice' = [time_slice EXCEPT ![p] = IF @ > 0 THEN @ - 1 ELSE @]
  /\ need_resched' = [need_resched EXCEPT ![p] = @ \/ time_slice'[p] = 0]

\* The timer interrupt: run_timer_list without the timers.
Tick ==
  /\ IF current # Idle THEN ProcTick(current)
     ELSE /\ need_resched' = [need_resched EXCEPT ![Idle] = TRUE]
          /\ UNCHANGED time_slice
  /\ UNCHANGED <<state, current, leaving, pool, lab6_stride, lab6_priority>>

MustSchedule == leaving \/ need_resched[current]
GoesOn == current # Idle /\ state[current] = "RUNNABLE"

\* The pool stride_pick_next takes the root of.
Requeued == IF GoesOn THEN Insert(pool, current, lab6_stride) ELSE pool

\* schedule().  The stride of the root moves while it is still in the heap;
\* its removal compares only the others.
Schedule ==
  /\ current = Idle => MustSchedule
  /\ IF Requeued = <<>>
     THEN current' = Idle /\ pool' = <<>> /\ UNCHANGED lab6_stride
     ELSE /\ current' = Requeued[1]
          /\ lab6_stride' = [lab6_stride EXCEPT ![current'] =
                               Advanced(@, Pass(lab6_priority[current']))]
          /\ pool' = RemoveRoot(Requeued, lab6_stride')
  /\ time_slice' = [p \in Procs |-> IF GoesOn /\ p = current
                                    THEN Granted(time_slice[p]) ELSE time_slice[p]]
  /\ need_resched' = [need_resched EXCEPT ![current] = FALSE]
  /\ leaving' = FALSE
  /\ UNCHANGED <<state, lab6_priority>>

Next == \/ \E p \in Procs : Fork(p) \/ Wakeup(p) \/ Reap(p)
        \/ \E n \in Priorities : SetPriority(n)
        \/ Sleep \/ Exit \/ Yield \/ Tick \/ Schedule

Spec == Init /\ [][Next]_vars

----------------------------------------------------------------------------
\* However insertions and removals shape the heap, a process is in it once
\* when it is runnable and not running, and not at all otherwise.
PoolAgrees == TypeOK /\ pool \in Heaps[Ready \ {current}]

Core == INSTANCE SchedCore

\* schedule() runs a runnable process whenever there is one and otherwise
\* idleproc.
ImplementsCore == Core!Spec

Strides(P) == {lab6_stride[p] : p \in P}

\* No process gets so far ahead that the comparison of two strides turns
\* around: no turn of a process, whatever its priority, takes it past the half
\* circle that begins at the last one.  Only a process that is created or
\* woken up can bring a stride that is out of step.
StridesStayInStep ==
  [][Ready' # {} /\ Ready' \subseteq Ready /\ OnHalfCircle(Strides(Ready))
     => OnHalfCircle(Strides(Ready)')]_lab6_stride

\* "stride_pick_next pick the element from the run-queue, with the minimum
\* value of stride": none of the others is behind the process dispatched, if
\* the strides have a minimum at all, and whatever they were when the heap
\* was built.
PicksMinimum ==
  [][LET chosen == lab6_stride[current']
         others == Strides(Ready' \ {current'})
     IN  /\ current' \in Procs
         /\ lab6_stride'[current'] # chosen
         /\ OnHalfCircle(others \union {chosen})
         => FirstOf(chosen, others)]_lab6_stride
=============================================================================
