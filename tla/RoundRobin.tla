----------------------------- MODULE RoundRobin -----------------------------
(***************************************************************************)
(* kern/schedule/sched.c with the class rr_sched_class of                  *)
(* kern/schedule/rr_sched.c: one FIFO queue, and a slice that a process    *)
(* that gives up the CPU takes with it to its next turn.                   *)
(*                                                                         *)
(* The actions of sched.c and proc.c are those of SmartMlfq.  rq->proc_num *)
(* is left out: nothing reads it.                                          *)
(***************************************************************************)
EXTENDS Integers, Sequences

CONSTANTS Procs,            \* the proc_structs that can be in use at once
          Idle,             \* idleproc, never in the queue
          max_time_slice    \* rq->max_time_slice

ASSUME RRAssumption == Idle \notin Procs /\ max_time_slice \in Nat \ {0}

VARIABLES state,          \* proc->state; "UNINIT" is also a slot not in use
          current,        \* the process that owns the CPU
          leaving,        \* current is between a change of its state and the
                          \* call of schedule() that follows
          need_resched,   \* proc->need_resched
          run_list,       \* rq->run_list
          time_slice      \* proc->time_slice

vars == <<state, current, leaving, need_resched, run_list, time_slice>>

AllProcs == Procs \cup {Idle}
States == {"UNINIT", "SLEEPING", "RUNNABLE", "ZOMBIE"}

TypeOK == /\ state \in [AllProcs -> States]
          /\ current \in AllProcs
          /\ leaving \in BOOLEAN
          /\ need_resched \in [AllProcs -> BOOLEAN]
          /\ run_list \in Seq(Procs)
          /\ time_slice \in [Procs -> 0 .. max_time_slice]

----------------------------------------------------------------------------
\* Faulty variant: a used up slice is not filled again.
GrantedOnlyAbove(slice) == IF slice > max_time_slice THEN max_time_slice ELSE slice

\* The slice rr_enqueue leaves a process with.
Granted(slice) ==
  IF slice = 0 \/ slice > max_time_slice THEN max_time_slice ELSE slice

\* Faulty variant: the process goes to the front.
PushFront(list, p) == <<p>> \o list

\* list_add_before the head of a circular list is its tail.
Push(list, p) == Append(list, p)

\* rr_enqueue
Enqueue(p) ==
  /\ run_list' = Push(run_list, p)
  /\ time_slice' = [time_slice EXCEPT ![p] = Granted(@)]

\* sched_init and proc_init
Init == \E init \in Procs :
  /\ state = [p \in AllProcs |->
                IF p \in {Idle, init} THEN "RUNNABLE" ELSE "UNINIT"]
  /\ current = Idle
  /\ leaving = FALSE
  /\ need_resched = [p \in AllProcs |-> p = Idle]
  /\ run_list = <<init>>
  /\ time_slice = [p \in Procs |-> IF p = init THEN max_time_slice ELSE 0]

Running == current \in Procs /\ ~ leaving

\* do_fork ends in wakeup_proc on the new process.
Fork(p) ==
  /\ Running
  /\ state[p] = "UNINIT"
  /\ state' = [state EXCEPT ![p] = "RUNNABLE"]
  /\ Enqueue(p)
  /\ UNCHANGED <<current, leaving, need_resched>>

\* wakeup_proc; p = current when an interrupt wakes the process up just before
\* it calls schedule().
Wakeup(p) ==
  /\ state[p] = "SLEEPING"
  /\ state' = [state EXCEPT ![p] = "RUNNABLE"]
  /\ IF p # current THEN Enqueue(p) ELSE UNCHANGED <<run_list, time_slice>>
  /\ UNCHANGED <<current, leaving, need_resched>>

\* do_wait and do_exit, up to the schedule() they call.
Leave(s) ==
  /\ Running
  /\ state' = [state EXCEPT ![current] = s]
  /\ leaving' = TRUE
  /\ UNCHANGED <<current, need_resched, run_list, time_slice>>

Sleep == Leave("SLEEPING")
Exit == Leave("ZOMBIE")

\* do_wait frees a zombie; its slot gets the fields of the next alloc_proc.
Reap(p) ==
  /\ Running
  /\ state[p] = "ZOMBIE"
  /\ state' = [state EXCEPT ![p] = "UNINIT"]
  /\ time_slice' = [time_slice EXCEPT ![p] = 0]
  /\ UNCHANGED <<current, leaving, need_resched, run_list>>

\* do_yield
Yield ==
  /\ Running
  /\ need_resched' = [need_resched EXCEPT ![current] = TRUE]
  /\ UNCHANGED <<state, current, leaving, run_list, time_slice>>

\* rr_proc_tick, whatever the state of the process.
ProcTick(p) ==
  /\ time_slice' = [time_slice EXCEPT ![p] = IF @ > 0 THEN @ - 1 ELSE @]
  /\ need_resched' = [need_resched EXCEPT ![p] = @ \/ time_slice'[p] = 0]

\* The timer interrupt: run_timer_list without the timers.
Tick ==
  /\ IF current # Idle THEN ProcTick(current)
     ELSE /\ need_resched' = [need_resched EXCEPT ![Idle] = TRUE]
          /\ UNCHANGED time_slice
  /\ UNCHANGED <<state, current, leaving, run_list>>

MustSchedule == leaving \/ need_resched[current]
GoesOn == current # Idle /\ state[current] = "RUNNABLE"

\* Faulty variant: a process that yields is not put back when it is alone.
RequeuedNotAlone ==
  IF GoesOn /\ run_list # <<>> THEN Push(run_list, current) ELSE run_list

\* The queue rr_pick_next takes the first process of.
Requeued == IF GoesOn THEN Push(run_list, current) ELSE run_list

\* schedule()
Schedule ==
  /\ current = Idle => MustSchedule
  /\ IF Requeued = <<>>
     THEN current' = Idle /\ run_list' = <<>>
     ELSE current' = Head(Requeued) /\ run_list' = Tail(Requeued)
  /\ time_slice' = [p \in Procs |-> IF GoesOn /\ p = current
                                    THEN Granted(time_slice[p]) ELSE time_slice[p]]
  /\ need_resched' = [need_resched EXCEPT ![current] = FALSE]
  /\ leaving' = FALSE
  /\ UNCHANGED state

Next == \/ \E p \in Procs : Fork(p) \/ Wakeup(p) \/ Reap(p)
        \/ Sleep \/ Exit \/ Yield \/ Tick \/ Schedule

Spec == Init /\ [][Next]_vars

\* The timer keeps interrupting, and a process that has to call schedule()
\* does: it returns from its system call, or is about to call it.
FairSpec == Spec /\ WF_vars(Tick) /\ WF_vars(MustSchedule /\ Schedule)

----------------------------------------------------------------------------
Entries(p) == {i \in 1 .. Len(run_list) : run_list[i] = p}

QueuedOnceIffReady ==
  \A p \in Procs :
    /\ Entries(p) # {} <=> state[p] = "RUNNABLE" /\ p # current
    /\ \A i, j \in Entries(p) : i = j

QueuedHasTicks == \A i \in 1 .. Len(run_list) : time_slice[run_list[i]] > 0

OverrunIsNoticed == Running /\ time_slice[current] = 0 => need_resched[current]

\* A process is in the queue once when it is runnable and not running, and
\* not at all otherwise.  What is left of its slice is carried along through
\* sleeps and yields, but none comes to its turn with nothing left, and a
\* process that runs on with its slice used up is about to be rescheduled.
QueueAgrees == TypeOK /\ QueuedOnceIffReady /\ QueuedHasTicks /\ OverrunIsNoticed

\* First come, first served: those that wait keep their order, lose only the
\* first of them, and are joined by others behind them.
Fifo ==
  [][LET left == IF current' # current /\ current' # Idle
                 THEN Tail(run_list) ELSE run_list
     IN  run_list # <<>> => left = SubSeq(run_list', 1, Len(left))]_run_list

Core == INSTANCE SchedCore

\* schedule() runs a runnable process whenever there is one and otherwise
\* idleproc.
ImplementsCore == Core!Spec

\* Every process that is ready gets the CPU.
NoStarvation == Core!NoStarvation
=============================================================================
