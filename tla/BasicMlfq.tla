----------------------------- MODULE BasicMlfq -----------------------------
(***************************************************************************)
(* kern/schedule/sched.c as it is committed: sched_class points to         *)
(* basic_mlfq_sched_class of kern/schedule/basic_mlfq_sched.c.  Four FIFO  *)
(* ready queues and a boost as in SmartMlfq, and no score: a slice used up *)
(* costs one level, giving up the CPU brings the process to the top.       *)
(*                                                                         *)
(* Abstractions, as in SmartMlfq: global_timer, slices and sched_count     *)
(* saturate where the code compares them.  Left out: the statistic runs,   *)
(* and rq->proc_num, which nothing reads (SmartMlfq shows its balance).    *)
(***************************************************************************)
EXTENDS Integers, Sequences

CONSTANTS Procs,         \* the proc_structs that can be in use at once
          Idle,          \* idleproc, never in a queue
          level_slice,   \* ticks a process may run at each level
          BOOST_TICKS    \* ticks between two boosts

MLFQ_LEVELS == 4
Level == 0 .. MLFQ_LEVELS - 1

ASSUME BasicAssumption ==
  /\ Idle \notin Procs
  /\ level_slice \in [Level -> Nat \ {0}]
  /\ BOOST_TICKS \in Nat \ {0}

VARIABLES state,          \* proc->state; "UNINIT" is also a slot not in use
          current,        \* the process that owns the CPU
          leaving,        \* current is between a change of its state and the
                          \* call of schedule() that follows
          need_resched,   \* proc->need_resched
          queues,         \* mlfq_inst.queues
          global_timer,   \* mlfq_inst.global_timer
          procs           \* the fields of proc_struct the class uses

vars == <<state, current, leaving, need_resched, queues, global_timer, procs>>

AllProcs == Procs \cup {Idle}
States == {"UNINIT", "SLEEPING", "RUNNABLE", "ZOMBIE"}
MlfqFields == [level : Level, ticks : Nat, counted : BOOLEAN]

TypeOK == /\ state \in [AllProcs -> States]
          /\ current \in AllProcs
          /\ leaving \in BOOLEAN
          /\ need_resched \in [AllProcs -> BOOLEAN]
          /\ queues \in [Level -> Seq(Procs)]
          /\ global_timer \in 0 .. BOOST_TICKS
          /\ procs \in [Procs -> MlfqFields]

Saturated(n, bound) == IF n < bound THEN n ELSE bound

New == [level |-> 0, ticks |-> 0, counted |-> FALSE]   \* as alloc_proc has it

----------------------------------------------------------------------------
\* Faulty variant: no check for the lowest level.
NextLevelNoFloor(f) ==
  IF f.ticks <= 0 THEN (f.level + 1) % MLFQ_LEVELS ELSE 0

\* basic_mlfq_update_level
NextLevel(f) ==
  IF f.ticks <= 0
  THEN IF f.level < MLFQ_LEVELS - 1 THEN f.level + 1 ELSE f.level
  ELSE 0

\* The fields basic_mlfq_enqueue gives to the process.
Enqueued(f) ==
  LET l == IF f.counted THEN NextLevel(f) ELSE 0
  IN  [f EXCEPT !.level = l, !.ticks = level_slice[l]]

\* list_add_before the head of a circular list: the tail of the queue.
Push(qs, l, p) == [qs EXCEPT ![l] = Append(@, p)]

\* basic_mlfq_enqueue
Enqueue(p) ==
  LET f == Enqueued(procs[p]) IN
  /\ procs' = [procs EXCEPT ![p] = f]
  /\ queues' = Push(queues, f.level, p)

InQueue(qs, l, p) == \E i \in 1 .. Len(qs[l]) : qs[l][i] = p

\* priority_boost: levels 1, 2 and 3, in this order, to the tail of level 0.
BoostedQueues(qs) ==
  [l \in Level |-> IF l = 0 THEN qs[0] \o qs[1] \o qs[2] \o qs[3] ELSE <<>>]

\* Faulty variant: the processes keep the level they came from.
BoostedFieldsKeepLevel(qs, fs) == fs

BoostedFields(qs, fs) ==
  [p \in Procs |->
     IF \E l \in Level \ {0} : InQueue(qs, l, p)
     THEN [fs[p] EXCEPT !.level = 0, !.ticks = level_slice[0]]
     ELSE fs[p]]

\* Faulty variant: the timer never falls due.
BoostDueNever == FALSE

\* When basic_mlfq_pick_next starts with priority_boost.
BoostDue == global_timer >= BOOST_TICKS

\* Faulty variant: only the two upper levels are scanned.
FullUpperLevels(qs) == {l \in {0, 1} : qs[l] # <<>>}

\* The levels basic_mlfq_pick_next can take a process from.
FullLevels(qs) == {l \in Level : qs[l] # <<>>}

\* basic_mlfq_pick_next after the boost, basic_mlfq_dequeue and the switch.
Dispatch(qs, fs) ==
  IF FullLevels(qs) = {}
  THEN /\ current' = Idle
       /\ queues' = qs
       /\ procs' = fs
  ELSE LET l == CHOOSE l \in FullLevels(qs) : \A k \in FullLevels(qs) : l <= k
           p == qs[l][1]
       IN  /\ current' = p
           /\ queues' = [qs EXCEPT ![l] = Tail(@)]
           /\ procs' = [fs EXCEPT ![p].counted = TRUE]

----------------------------------------------------------------------------
\* sched_init and proc_init
Init == \E init \in Procs :
  /\ state = [p \in AllProcs |->
                IF p \in {Idle, init} THEN "RUNNABLE" ELSE "UNINIT"]
  /\ current = Idle
  /\ leaving = FALSE
  /\ need_resched = [p \in AllProcs |-> p = Idle]
  /\ queues = Push([l \in Level |-> <<>>], 0, init)
  /\ global_timer = 0
  /\ procs = [p \in Procs |-> IF p = init THEN Enqueued(New) ELSE New]

Running == current \in Procs /\ ~ leaving

\* do_fork ends in wakeup_proc on the new process.
Fork(p) ==
  /\ Running
  /\ state[p] = "UNINIT"
  /\ state' = [state EXCEPT ![p] = "RUNNABLE"]
  /\ Enqueue(p)
  /\ UNCHANGED <<current, leaving, need_resched, global_timer>>

\* wakeup_proc on a sleeping process; p = current when a timer expires just
\* before current calls schedule().
Wakeup(p) ==
  /\ state[p] = "SLEEPING"
  /\ state' = [state EXCEPT ![p] = "RUNNABLE"]
  /\ IF p # current THEN Enqueue(p) ELSE UNCHANGED <<queues, procs>>
  /\ UNCHANGED <<current, leaving, need_resched, global_timer>>

\* do_wait and do_exit, up to the schedule() they call.
Sleep ==
  /\ Running
  /\ state' = [state EXCEPT ![current] = "SLEEPING"]
  /\ leaving' = TRUE
  /\ UNCHANGED <<current, need_resched, queues, global_timer, procs>>

Exit ==
  /\ Running
  /\ state' = [state EXCEPT ![current] = "ZOMBIE"]
  /\ leaving' = TRUE
  /\ UNCHANGED <<current, need_resched, queues, global_timer, procs>>

\* do_wait frees a zombie; its slot gets the fields of the next alloc_proc.
Reap(p) ==
  /\ Running
  /\ state[p] = "ZOMBIE"
  /\ state' = [state EXCEPT ![p] = "UNINIT"]
  /\ procs' = [procs EXCEPT ![p] = New]
  /\ UNCHANGED <<current, leaving, need_resched, queues, global_timer>>

\* do_yield
Yield ==
  /\ Running
  /\ need_resched' = [need_resched EXCEPT ![current] = TRUE]
  /\ UNCHANGED <<state, current, leaving, queues, global_timer, procs>>

\* basic_mlfq_proc_tick
ProcTick(p) ==
  /\ procs' = [procs EXCEPT ![p].ticks =
                 IF state[p] = "RUNNABLE" /\ @ > 0 THEN @ - 1 ELSE @]
  /\ need_resched' = [need_resched EXCEPT ![p] =
                        @ \/ (state[p] = "RUNNABLE" /\ procs'[p].ticks <= 0)]
  /\ global_timer' = Saturated(global_timer + 1, BOOST_TICKS)

\* The timer interrupt: run_timer_list without the timers.
Tick ==
  /\ IF current # Idle THEN ProcTick(current)
     ELSE /\ need_resched' = [need_resched EXCEPT ![Idle] = TRUE]
          /\ UNCHANGED <<global_timer, procs>>
  /\ UNCHANGED <<state, current, leaving, queues>>

\* The queues and fields when basic_mlfq_pick_next begins: schedule() first
\* enqueues the process that leaves the CPU and can go on.
GoesOn == current # Idle /\ state[current] = "RUNNABLE"

RequeuedQueues ==
  IF GoesOn THEN Push(queues, Enqueued(procs[current]).level, current)
  ELSE queues

RequeuedFields ==
  IF GoesOn THEN [procs EXCEPT ![current] = Enqueued(@)] ELSE procs

MustSchedule == leaving \/ need_resched[current]

\* schedule()
Schedule ==
  /\ current = Idle => MustSchedule
  /\ \E qs \in {RequeuedQueues}, fs \in {RequeuedFields} :
       IF BoostDue
       THEN Dispatch(BoostedQueues(qs), BoostedFields(qs, fs)) /\ global_timer' = 0
       ELSE Dispatch(qs, fs) /\ UNCHANGED global_timer
  /\ need_resched' = [need_resched EXCEPT ![current] = FALSE]
  /\ leaving' = FALSE
  /\ UNCHANGED state

Next == \/ \E p \in Procs : Fork(p) \/ Wakeup(p) \/ Reap(p)
        \/ Sleep \/ Exit \/ Yield \/ Tick \/ Schedule

Spec == Init /\ [][Next]_vars

\* The timer keeps interrupting, and a process that has to call schedule()
\* does: it returns from its system call, or is about to call it.
FairSpec == Spec /\ WF_vars(Tick) /\ WF_vars(MustSchedule /\ Schedule)

----------------------------------------------------------------------------
Queued(p) == \E l \in Level : InQueue(queues, l, p)

QueuedIffReady ==
  \A p \in Procs : Queued(p) <=> state[p] = "RUNNABLE" /\ p # current

QueuedOnce ==
  \A l, k \in Level : \A i \in 1 .. Len(queues[l]), j \in 1 .. Len(queues[k]) :
    queues[l][i] = queues[k][j] => l = k /\ i = j

QueuedAtItsLevel ==
  \A l \in Level : \A i \in 1 .. Len(queues[l]) :
    LET f == procs[queues[l][i]] IN f.level = l /\ f.ticks = level_slice[l]

\* However forks, sleeps, wakeups, exits, ticks and boosts interleave, a
\* process waits in a queue exactly when it is runnable and not running, it is
\* linked once, and it holds the level of its queue and the whole slice of
\* that level, also after a boost moved it: a slice left from a lower level
\* would let it run longer than the top level allows.
QueuesAgree == TypeOK /\ QueuedIffReady /\ QueuedOnce /\ QueuedAtItsLevel

\* "Timeout->Down, Yield->Top" (the trace line of the class): a level is lost
\* one at a time and for a slice used up; the top is reached by giving the CPU
\* up, by a boost or by a new process, and never from the bottom by timeouts.
LevelChangesAreEarned ==
  [][\A p \in Procs :
       LET old == procs[p].level
           new == procs'[p].level
       IN  /\ new > old => new = old + 1 /\ procs[p].ticks <= 0
           /\ new < old => /\ new = 0
                           /\ procs[p].ticks > 0 \/ BoostDue
                              \/ state[p] = "ZOMBIE"]_procs

Core == INSTANCE SchedCore

\* schedule() runs a runnable process whenever there is one and otherwise
\* idleproc, whatever the class does with its queues.
ImplementsCore == Core!Spec

\* Every process that is ready gets the CPU, though others fork, and yield
\* their way to the top, for ever.
NoStarvation == Core!NoStarvation
=============================================================================
