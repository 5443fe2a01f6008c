-------------------------- MODULE RoundRobin_proofs --------------------------
(***************************************************************************)
(* Proofs about RoundRobin, for any number of processes and any slice.     *)
(*                                                                         *)
(* The inductive invariant adds to QueueAgrees what the class takes for    *)
(* granted of its caller: the process on the CPU is runnable, except       *)
(* between a change of its state and the schedule() that follows.  Without *)
(* it a fork or a wakeup could put the running process into the queue.     *)
(***************************************************************************)
EXTENDS RoundRobin, SequenceFacts, TLAPS

Ready(p) == state[p] = "RUNNABLE" /\ p # current
ReadySet == {p \in Procs : Ready(p)}
Runnable == {p \in Procs : state[p] = "RUNNABLE"}

\* The list holds each process of R once and nothing else, with some ticks
\* left of its slice.
Holds(list, slice, R) ==
  /\ list \in Seq(Procs)
  /\ Once(list)
  /\ Elems(list) = R
  /\ slice \in [Procs -> 0 .. max_time_slice]
  /\ \A p \in R : slice[p] > 0

CurrentIsRunnable ==
  /\ state[Idle] = "RUNNABLE"
  /\ leaving => current \in Procs
  /\ ~ leaving => state[current] = "RUNNABLE"

IInv == /\ TypeOK
        /\ Holds(run_list, time_slice, ReadySet)
        /\ CurrentIsRunnable
        /\ OverrunIsNoticed

----------------------------------------------------------------------------
\* rr_enqueue leaves a process with a slice, and no more than a whole one.
LEMMA GrantedSlice ==
  ASSUME NEW slice \in Nat
  PROVE  Granted(slice) \in 1 .. max_time_slice
BY RRAssumption DEF Granted

\* Enqueueing a process that is not in the queue adds it to those in it.
LEMMA EnqueueHolds ==
  ASSUME NEW R \in SUBSET Procs, NEW p \in Procs \ R,
         NEW list, NEW slice, Holds(list, slice, R)
  PROVE  Holds(Push(list, p), [slice EXCEPT ![p] = Granted(@)], R \cup {p})
<1> DEFINE s == [slice EXCEPT ![p] = Granted(@)]
<1>1. slice[p] \in Nat /\ Granted(slice[p]) \in 1 .. max_time_slice
  BY GrantedSlice, RRAssumption DEF Holds
<1>2. /\ s \in [Procs -> 0 .. max_time_slice]
      /\ \A q \in R \cup {p} : s[q] > 0
  BY <1>1, RRAssumption DEF Holds
<1> HIDE DEF s
<1>3. /\ Push(list, p) \in Seq(Procs)
      /\ Once(Push(list, p))
      /\ Elems(Push(list, p)) = R \cup {p}
  BY AppendOnce DEF Holds, Push
<1> QED
  BY <1>2, <1>3 DEF Holds, s

\* A tick or a new alloc_proc touches the slice of a process that is not in
\* the queue.
LEMMA SliceHolds ==
  ASSUME NEW R \in SUBSET Procs, NEW p \in Procs \ R, NEW n \in 0 .. max_time_slice,
         NEW list, NEW slice, Holds(list, slice, R)
  PROVE  Holds(list, [slice EXCEPT ![p] = n], R)
BY DEF Holds

\* rr_pick_next and rr_dequeue take the first process out.
LEMMA TakeHolds ==
  ASSUME NEW R \in SUBSET Procs, NEW list, NEW slice, Holds(list, slice, R)
  PROVE  /\ list = <<>> <=> R = {}
         /\ list # <<>> =>
              /\ Head(list) \in R
              /\ slice[Head(list)] > 0
              /\ Holds(Tail(list), slice, R \ {Head(list)})
<1>1. list = <<>> <=> R = {}
  BY ElemsType DEF Holds
<1>2. ASSUME list # <<>>
      PROVE  /\ Head(list) \in R
             /\ slice[Head(list)] > 0
             /\ Holds(Tail(list), slice, R \ {Head(list)})
  BY <1>2, TailOnce DEF Holds
<1> QED
  BY <1>1, <1>2

\* The ready processes after a change of one process's state.
LEMMA ReadyAfter ==
  ASSUME TypeOK, NEW p \in Procs, NEW s \in States,
         state' = [state EXCEPT ![p] = s], current' = current
  PROVE  ReadySet' = IF s = "RUNNABLE" /\ p # current THEN ReadySet \cup {p}
                     ELSE ReadySet \ {p}
<1>1. \A q \in Procs : state'[q] = IF q = p THEN s ELSE state[q]
  BY DEF TypeOK, AllProcs
<1> QED
  BY <1>1 DEF ReadySet, Ready

----------------------------------------------------------------------------
(* The invariant, one action at a time.                                    *)

LEMMA InitInv == Init => IInv
<1> SUFFICES ASSUME Init PROVE IInv
  OBVIOUS
<1>1. PICK init \in Procs :
        /\ state = [p \in AllProcs |->
                      IF p \in {Idle, init} THEN "RUNNABLE" ELSE "UNINIT"]
        /\ current = Idle
        /\ leaving = FALSE
        /\ need_resched = [p \in AllProcs |-> p = Idle]
        /\ run_list = <<init>>
        /\ time_slice = [p \in Procs |-> IF p = init THEN max_time_slice ELSE 0]
  BY DEF Init
<1>2. Idle \notin Procs /\ max_time_slice \in Nat \ {0}
  BY RRAssumption
<1>3. ReadySet = {init}
  BY <1>1, <1>2 DEF ReadySet, Ready, AllProcs
<1>4. Holds(run_list, time_slice, ReadySet)
  <2>1. run_list \in Seq(Procs) /\ Once(run_list) /\ Elems(run_list) = {init}
    BY <1>1 DEF Once, Elems
  <2>2. time_slice \in [Procs -> 0 .. max_time_slice] /\ time_slice[init] > 0
    BY <1>1, <1>2
  <2> QED
    BY <1>3, <2>1, <2>2 DEF Holds
<1>5. TypeOK
  BY <1>1, <1>4 DEF TypeOK, Holds, AllProcs, States
<1>6. CurrentIsRunnable /\ OverrunIsNoticed
  BY <1>1, <1>2 DEF CurrentIsRunnable, OverrunIsNoticed, Running, AllProcs
<1> QED
  BY <1>4, <1>5, <1>6 DEF IInv

\* do_fork
LEMMA ForkInv == ASSUME IInv, NEW p \in Procs, Fork(p) PROVE IInv'
<1>1. /\ state' = [state EXCEPT ![p] = "RUNNABLE"]
      /\ state[p] = "UNINIT"
      /\ run_list' = Push(run_list, p)
      /\ time_slice' = [time_slice EXCEPT ![p] = Granted(@)]
      /\ current' = current /\ leaving' = leaving /\ need_resched' = need_resched
      /\ current \in Procs /\ ~ leaving
  BY DEF Fork, Enqueue, Running
<1>2. p # current /\ p \notin ReadySet
  BY <1>1 DEF IInv, CurrentIsRunnable, ReadySet, Ready
<1>3. ReadySet' = ReadySet \cup {p}
  BY <1>1, <1>2, ReadyAfter DEF IInv, States
<1>4. Holds(run_list', time_slice', ReadySet')
  <2>1. ReadySet \in SUBSET Procs
    BY DEF ReadySet
  <2> QED
    BY <1>1, <1>2, <1>3, <2>1, EnqueueHolds DEF IInv
<1>5. TypeOK'
  BY <1>1, <1>4 DEF IInv, TypeOK, Holds, AllProcs, States
<1>6. CurrentIsRunnable'
  BY <1>1, <1>2, RRAssumption DEF IInv, TypeOK, CurrentIsRunnable, AllProcs
<1>7. OverrunIsNoticed'
  BY <1>1, <1>2 DEF IInv, TypeOK, OverrunIsNoticed, Running
<1> QED
  BY <1>4, <1>5, <1>6, <1>7 DEF IInv

\* wakeup_proc
LEMMA WakeupInv == ASSUME IInv, NEW p \in Procs, Wakeup(p) PROVE IInv'
<1>1. /\ state' = [state EXCEPT ![p] = "RUNNABLE"]
      /\ state[p] = "SLEEPING"
      /\ current' = current /\ leaving' = leaving /\ need_resched' = need_resched
  BY DEF Wakeup
<1>2. /\ p # current => /\ run_list' = Push(run_list, p)
                        /\ time_slice' = [time_slice EXCEPT ![p] = Granted(@)]
      /\ p = current => run_list' = run_list /\ time_slice' = time_slice
  BY DEF Wakeup, Enqueue
<1>3. p \notin ReadySet /\ ReadySet \in SUBSET Procs
  BY <1>1 DEF ReadySet, Ready
<1>4. Holds(run_list', time_slice', ReadySet')
  <2>1. CASE p # current
    <3>1. ReadySet' = ReadySet \cup {p}
      BY <1>1, <2>1, ReadyAfter DEF IInv, States
    <3> QED
      BY <1>2, <1>3, <2>1, <3>1, EnqueueHolds DEF IInv
  <2>2. CASE p = current
    <3>1. ReadySet' = ReadySet \ {p}
      BY <1>1, <2>2, ReadyAfter DEF IInv, States
    <3> QED
      BY <1>2, <1>3, <2>2, <3>1 DEF IInv
  <2> QED
    BY <2>1, <2>2
<1>5. TypeOK'
  BY <1>1, <1>4 DEF IInv, TypeOK, Holds, AllProcs, States
<1>6. CurrentIsRunnable'
  BY <1>1, RRAssumption DEF IInv, TypeOK, CurrentIsRunnable, AllProcs
<1>7. OverrunIsNoticed'
  <2>1. Running => p # current
    BY <1>1 DEF IInv, CurrentIsRunnable, Running
  <2> QED
    BY <1>1, <1>2, <2>1 DEF IInv, TypeOK, OverrunIsNoticed, Running
<1> QED
  BY <1>4, <1>5, <1>6, <1>7 DEF IInv

\* do_wait frees a zombie.
LEMMA ReapInv == ASSUME IInv, NEW p \in Procs, Reap(p) PROVE IInv'
<1>1. /\ state' = [state EXCEPT ![p] = "UNINIT"]
      /\ state[p] = "ZOMBIE"
      /\ time_slice' = [time_slice EXCEPT ![p] = 0]
      /\ current' = current /\ leaving' = leaving
      /\ need_resched' = need_resched /\ run_list' = run_list
      /\ current \in Procs /\ ~ leaving
  BY DEF Reap, Running
<1>2. p # current /\ p \notin ReadySet /\ ReadySet \in SUBSET Procs
  BY <1>1 DEF IInv, CurrentIsRunnable, ReadySet, Ready
<1>3. ReadySet' = ReadySet
  <2>1. ReadySet' = ReadySet \ {p}
    BY <1>1, ReadyAfter DEF IInv, States
  <2> QED
    BY <1>2, <2>1
<1>4. Holds(run_list', time_slice', ReadySet')
  <2>1. 0 \in 0 .. max_time_slice
    BY RRAssumption
  <2> QED
    BY <1>1, <1>2, <1>3, <2>1, SliceHolds DEF IInv
<1>5. TypeOK'
  BY <1>1, <1>4 DEF IInv, TypeOK, Holds, AllProcs, States
<1>6. CurrentIsRunnable'
  BY <1>1, <1>2, RRAssumption DEF IInv, TypeOK, CurrentIsRunnable, AllProcs
<1>7. OverrunIsNoticed'
  BY <1>1, <1>2 DEF IInv, TypeOK, OverrunIsNoticed, Running
<1> QED
  BY <1>4, <1>5, <1>6, <1>7 DEF IInv

\* do_wait and do_exit, up to their call of schedule()
LEMMA LeaveInv ==
  ASSUME IInv, NEW s \in {"SLEEPING", "ZOMBIE"}, Leave(s) PROVE IInv'
<1>1. /\ state' = [state EXCEPT ![current] = s]
      /\ leaving' = TRUE
      /\ current' = current /\ need_resched' = need_resched
      /\ run_list' = run_list /\ time_slice' = time_slice
      /\ current \in Procs
  BY DEF Leave, Running
<1>2. ReadySet' = ReadySet
  <2>1. current \notin ReadySet
    BY DEF ReadySet, Ready
  <2>2. ReadySet' = ReadySet \ {current}
    BY <1>1, ReadyAfter DEF IInv, States
  <2> QED
    BY <2>1, <2>2
<1>3. Holds(run_list', time_slice', ReadySet')
  BY <1>1, <1>2 DEF IInv
<1>4. TypeOK'
  BY <1>1 DEF IInv, TypeOK, AllProcs, States
<1>5. CurrentIsRunnable' /\ OverrunIsNoticed'
  BY <1>1, RRAssumption
  DEF IInv, TypeOK, CurrentIsRunnable, OverrunIsNoticed, Running, AllProcs
<1> QED
  BY <1>3, <1>4, <1>5 DEF IInv

\* do_yield
LEMMA YieldInv == ASSUME IInv, Yield PROVE IInv'
<1>1. /\ need_resched' = [need_resched EXCEPT ![current] = TRUE]
      /\ UNCHANGED <<state, current, leaving, run_list, time_slice>>
  BY DEF Yield
<1>2. ReadySet' = ReadySet
  BY <1>1 DEF ReadySet, Ready
<1>3. Holds(run_list', time_slice', ReadySet') /\ TypeOK' /\ CurrentIsRunnable'
  BY <1>1, <1>2 DEF IInv, TypeOK, CurrentIsRunnable
<1>4. OverrunIsNoticed'
  BY <1>1 DEF IInv, TypeOK, OverrunIsNoticed, Running, AllProcs
<1> QED
  BY <1>3, <1>4 DEF IInv

\* run_timer_list
LEMMA TickInv == ASSUME IInv, Tick PROVE IInv'
<1>1. UNCHANGED <<state, current, leaving, run_list>> /\ ReadySet' = ReadySet
  BY DEF Tick, ReadySet, Ready
<1>2. CASE current = Idle
  <2>1. need_resched' = [need_resched EXCEPT ![Idle] = TRUE] /\ time_slice' = time_slice
    BY <1>2 DEF Tick
  <2>2. Holds(run_list', time_slice', ReadySet') /\ TypeOK' /\ CurrentIsRunnable'
    BY <1>1, <2>1 DEF IInv, TypeOK, CurrentIsRunnable
  <2>3. OverrunIsNoticed'
    BY <1>1, <1>2, RRAssumption DEF OverrunIsNoticed, Running
  <2> QED
    BY <2>2, <2>3 DEF IInv
<1>3. CASE current # Idle
  <2> DEFINE left == IF time_slice[current] > 0 THEN time_slice[current] - 1
                     ELSE time_slice[current]
  <2>1. /\ time_slice' = [time_slice EXCEPT ![current] = left]
        /\ need_resched' = [need_resched EXCEPT ![current] =
                              @ \/ time_slice'[current] = 0]
    BY <1>3 DEF Tick, ProcTick
  <2>2. current \in Procs \ ReadySet /\ ReadySet \in SUBSET Procs
    BY <1>3 DEF IInv, TypeOK, AllProcs, ReadySet, Ready
  <2>3. left \in 0 .. max_time_slice /\ time_slice'[current] = left
    BY <2>1, <2>2, RRAssumption DEF IInv, TypeOK
  <2> HIDE DEF left
  <2>4. Holds(run_list', time_slice', ReadySet')
    BY <1>1, <2>1, <2>2, <2>3, SliceHolds DEF IInv
  <2>5. need_resched' \in [AllProcs -> BOOLEAN]
    BY <2>1, <2>2 DEF IInv, TypeOK, AllProcs
  <2>6. TypeOK' /\ CurrentIsRunnable'
    BY <1>1, <2>4, <2>5 DEF IInv, TypeOK, CurrentIsRunnable, Holds
  <2>7. OverrunIsNoticed'
    BY <1>1, <2>1, <2>2 DEF IInv, TypeOK, OverrunIsNoticed, Running, AllProcs
  <2> QED
    BY <2>4, <2>6, <2>7 DEF IInv
<1> QED
  BY <1>2, <1>3

\* After schedule() put the current process back, the queue holds all that
\* are runnable, and time_slice' their slices.
LEMMA RequeuedHolds ==
  ASSUME IInv, Schedule PROVE Holds(Requeued, time_slice', Runnable)
<1>1. time_slice' = [p \in Procs |-> IF GoesOn /\ p = current
                                     THEN Granted(time_slice[p]) ELSE time_slice[p]]
  BY DEF Schedule
<1>2. CASE GoesOn
  <2>1. current \in Procs /\ current \notin ReadySet /\ ReadySet \in SUBSET Procs
    BY <1>2 DEF GoesOn, IInv, TypeOK, AllProcs, ReadySet, Ready
  <2>2. Runnable = ReadySet \cup {current}
    BY <1>2, <2>1 DEF GoesOn, Runnable, ReadySet, Ready
  <2>3. time_slice' = [time_slice EXCEPT ![current] = Granted(@)]
    BY <1>1, <1>2, <2>1 DEF IInv, TypeOK
  <2> QED
    BY <1>2, <2>1, <2>2, <2>3, EnqueueHolds DEF IInv, Requeued
<1>3. CASE ~ GoesOn
  <2>1. Runnable = ReadySet
    BY <1>3, RRAssumption DEF GoesOn, Runnable, ReadySet, Ready
  <2>2. time_slice' = time_slice
    BY <1>1, <1>3 DEF IInv, TypeOK
  <2> QED
    BY <1>3, <2>1, <2>2 DEF IInv, Requeued
<1> QED
  BY <1>2, <1>3

\* What schedule() does.
LEMMA ScheduleEffect ==
  ASSUME IInv, Schedule
  PROVE  \/ /\ Runnable = {}
            /\ current' = Idle
            /\ Holds(run_list', time_slice', {})
         \/ /\ current' \in Runnable
            /\ Holds(run_list', time_slice', Runnable \ {current'})
            /\ time_slice'[current'] > 0
<1>1. Holds(Requeued, time_slice', Runnable) /\ Runnable \in SUBSET Procs
  BY RequeuedHolds DEF Runnable
<1>2. IF Requeued = <<>>
      THEN current' = Idle /\ run_list' = <<>>
      ELSE current' = Head(Requeued) /\ run_list' = Tail(Requeued)
  BY DEF Schedule
<1>3. CASE Requeued = <<>>
  BY <1>1, <1>2, <1>3, TakeHolds
<1>4. CASE Requeued # <<>>
  <2>1. /\ Head(Requeued) \in Runnable
        /\ time_slice'[Head(Requeued)] > 0
        /\ Holds(Tail(Requeued), time_slice', Runnable \ {Head(Requeued)})
    BY <1>1, <1>4, TakeHolds
  <2> QED
    BY <1>2, <1>4, <2>1
<1> QED
  BY <1>3, <1>4

\* schedule()
LEMMA ScheduleInv == ASSUME IInv, Schedule PROVE IInv'
<1>1. /\ leaving' = FALSE
      /\ need_resched' = [need_resched EXCEPT ![current] = FALSE]
      /\ state' = state
  BY DEF Schedule
<1>2. /\ current' \in AllProcs
      /\ state[current'] = "RUNNABLE"
      /\ Holds(run_list', time_slice', ReadySet')
      /\ current' \in Procs => time_slice'[current'] > 0
  <2>1. ReadySet' = Runnable \ {current'}
    BY <1>1 DEF ReadySet, Ready, Runnable
  <2>2. CASE Runnable = {} /\ current' = Idle /\ Holds(run_list', time_slice', {})
    BY <2>1, <2>2, RRAssumption DEF AllProcs, IInv, CurrentIsRunnable
  <2>3. CASE /\ current' \in Runnable
             /\ Holds(run_list', time_slice', Runnable \ {current'})
             /\ time_slice'[current'] > 0
    BY <2>1, <2>3 DEF AllProcs, Runnable
  <2> QED
    BY <2>2, <2>3, ScheduleEffect
<1>3. TypeOK'
  BY <1>1, <1>2 DEF IInv, TypeOK, Holds
<1>4. CurrentIsRunnable'
  BY <1>1, <1>2 DEF IInv, CurrentIsRunnable
<1>5. OverrunIsNoticed'
  BY <1>2 DEF OverrunIsNoticed, Running
<1> QED
  BY <1>2, <1>3, <1>4, <1>5 DEF IInv

\* Every step preserves the invariant.
LEMMA NextInv == IInv /\ [Next]_vars => IInv'
<1> SUFFICES ASSUME IInv, [Next]_vars PROVE IInv'
  OBVIOUS
<1>1. ASSUME NEW p \in Procs, Fork(p) PROVE IInv'
  BY <1>1, ForkInv
<1>2. ASSUME NEW p \in Procs, Wakeup(p) PROVE IInv'
  BY <1>2, WakeupInv
<1>3. ASSUME NEW p \in Procs, Reap(p) PROVE IInv'
  BY <1>3, ReapInv
<1>4. CASE Sleep
  BY <1>4, LeaveInv DEF Sleep
<1>5. CASE Exit
  BY <1>5, LeaveInv DEF Exit
<1>6. CASE Yield
  BY <1>6, YieldInv
<1>7. CASE Tick
  BY <1>7, TickInv
<1>8. CASE Schedule
  BY <1>8, ScheduleInv
<1>9. CASE UNCHANGED vars
  BY <1>9 DEF vars, IInv, TypeOK, ReadySet, Ready, CurrentIsRunnable,
              OverrunIsNoticed, Running
<1> QED
  BY <1>1, <1>2, <1>3, <1>4, <1>5, <1>6, <1>7, <1>8, <1>9 DEF Next

\* The queue and the process states stay in order, in every behaviour of
\* sched.c with rr_sched_class.
THEOREM Invariance == Spec => []IInv
<1>1. Init => IInv
  BY InitInv
<1>2. IInv /\ [Next]_vars => IInv'
  BY NextInv
<1> QED
  BY <1>1, <1>2, PTL DEF Spec

----------------------------------------------------------------------------
(* The properties of RoundRobin.                                           *)

\* The queue holds exactly the processes that wait for the CPU, once each and
\* with ticks left, and a process that runs on with its slice used up is
\* about to be rescheduled.
THEOREM QueueAlwaysAgrees == Spec => []QueueAgrees
<1>1. IInv => QueuedOnceIffReady
  <2> SUFFICES ASSUME IInv, NEW p \in Procs
               PROVE  /\ Entries(p) # {} <=> state[p] = "RUNNABLE" /\ p # current
                      /\ \A i, j \in Entries(p) : i = j
    BY DEF QueuedOnceIffReady
  <2>1. Entries(p) # {} <=> p \in Elems(run_list)
    BY DEF Entries, Elems
  <2>2. p \in Elems(run_list) <=> state[p] = "RUNNABLE" /\ p # current
    BY DEF IInv, Holds, ReadySet, Ready
  <2>3. \A i, j \in Entries(p) : i = j
    BY DEF IInv, Holds, Once, Entries
  <2> QED
    BY <2>1, <2>2, <2>3
<1>2. IInv => QueuedHasTicks
  BY DEF IInv, Holds, QueuedHasTicks, Elems
<1>3. IInv => QueueAgrees
  BY <1>1, <1>2 DEF IInv, QueueAgrees
<1> QED
  BY <1>3, Invariance, PTL

\* The scheduler with this class implements SchedCore: it hands the CPU to a
\* runnable process whenever there is one, and to idleproc only otherwise.
THEOREM Refinement == Spec => ImplementsCore
<1>1. Init => Core!Init
  BY DEF Init, Core!Init, AllProcs, Core!AllProcs
<1>2. IInv /\ [Next]_vars => [Core!Next]_(Core!vars)
  <2> SUFFICES ASSUME IInv, [Next]_vars
               PROVE  Core!Next \/ UNCHANGED <<state, current>>
    BY DEF Core!vars
  <2>1. Running => Core!Running
    BY DEF IInv, CurrentIsRunnable, Running, Core!Running
  <2>2. ASSUME NEW p \in Procs, Fork(p) PROVE Core!Fork(p)
    BY <2>1, <2>2 DEF Fork, Core!Fork, Core!SetState
  <2>3. ASSUME NEW p \in Procs, Wakeup(p) PROVE Core!Wakeup(p)
    BY <2>3 DEF Wakeup, Core!Wakeup, Core!SetState
  <2>4. ASSUME NEW p \in Procs, Reap(p) PROVE Core!Reap(p)
    BY <2>1, <2>4 DEF Reap, Core!Reap, Core!SetState
  <2>5. CASE Sleep
    BY <2>1, <2>5 DEF Sleep, Leave, Core!Next, Core!Sleep, Core!SetState
  <2>6. CASE Exit
    BY <2>1, <2>6 DEF Exit, Leave, Core!Next, Core!Exit, Core!SetState
  <2>7. CASE Yield \/ Tick \/ UNCHANGED vars
    BY <2>7 DEF Yield, Tick, vars
  <2>8. CASE Schedule
    <3>1. state' = state
      BY <2>8 DEF Schedule
    <3>2. \/ Runnable = {} /\ current' = Idle
          \/ current' \in Runnable
      BY <2>8, ScheduleEffect
    <3> QED
      BY <3>1, <3>2 DEF Core!Next, Core!Schedule, Runnable
  <2> QED
    BY <2>2, <2>3, <2>4, <2>5, <2>6, <2>7, <2>8 DEF Next, Core!Next
<1> QED
  BY <1>1, <1>2, Invariance, PTL DEF Spec, ImplementsCore, Core!Spec

\* Those that wait keep their order, lose only the first of them, and are
\* joined by others behind them.
THEOREM FirstComeFirstServed == Spec => Fifo
<1> DEFINE left == IF current' # current /\ current' # Idle
                   THEN Tail(run_list) ELSE run_list
<1>1. ASSUME IInv, Next, run_list # <<>>
      PROVE  left = SubSeq(run_list', 1, Len(left))
  <2>1. run_list \in Seq(Procs) /\ Idle \notin Procs
    BY <1>1, RRAssumption DEF IInv, TypeOK
  <2>2. ASSUME current' = current,
               \/ run_list' = run_list
               \/ \E p \in Procs : run_list' = Push(run_list, p)
        PROVE  left = SubSeq(run_list', 1, Len(left))
    BY <2>1, <2>2, FrontKept DEF Push
  <2>3. CASE Schedule
    <3>1. /\ Requeued \in Seq(Procs)
          /\ Requeued # <<>> /\ Head(Requeued) = Head(run_list)
          /\ GoesOn => Tail(Requeued) = Append(Tail(run_list), current)
                       /\ current \in Procs
          /\ ~ GoesOn => Tail(Requeued) = Tail(run_list)
      BY <1>1, <2>1, FrontKept DEF Requeued, Push, GoesOn, IInv, TypeOK, AllProcs
    <3>2. current' = Head(run_list) /\ run_list' = Tail(Requeued)
      BY <2>3, <3>1 DEF Schedule
    <3>3. Head(run_list) \in Procs /\ Tail(run_list) \in Seq(Procs)
      BY <1>1, <2>1
    <3>4. current' # current
      <4>1. Head(run_list) \in ReadySet
        BY <1>1, TailOnce DEF IInv, Holds
      <4> QED
        BY <3>2, <4>1 DEF ReadySet, Ready
    <3>5. left = Tail(run_list)
      BY <2>1, <3>2, <3>3, <3>4
    <3> QED
      BY <3>1, <3>2, <3>3, <3>5, FrontKept
  <2>4. CASE ~ Schedule
    BY <1>1, <2>2, <2>4
    DEF Next, Fork, Wakeup, Reap, Sleep, Exit, Leave, Yield, Tick, Enqueue
  <2> QED
    BY <2>3, <2>4
<1>2. IInv /\ [Next]_vars =>
        [LET l == IF current' # current /\ current' # Idle
                  THEN Tail(run_list) ELSE run_list
         IN  run_list # <<>> => l = SubSeq(run_list', 1, Len(l))]_run_list
  BY <1>1 DEF vars
<1> QED
  BY <1>2, Invariance, PTL DEF Spec, Fifo
=============================================================================
