----------------------------- MODULE SmartMlfq -----------------------------
(***************************************************************************)
(* kern/schedule/sched.c driving the class mlfq_sched_class of             *)
(* kern/schedule/mlfq_sched.c: four FIFO ready queues, a slice per level,  *)
(* an EWMA score of how CPU-bound a process is, and a periodic boost.      *)
(*                                                                         *)
(* The record mlfq holds the static mlfq_inst (queues, global_timer),      *)
(* rq->proc_num and the MLFQ fields of every proc_struct.  The functions   *)
(* of the class are operators from such a record to the next; the actions  *)
(* are those of sched.c, and the calls of proc.c that change the state of  *)
(* a process.                                                              *)
(*                                                                         *)
(* Abstractions.  global_timer is only compared with BOOST_TICKS, a slice  *)
(* with 0, sched_count with 0: the three saturate there.  The statistics   *)
(* runs and last_burst, which nothing reads, are left out.                 *)
(***************************************************************************)
EXTENDS Integers, Sequences

CONSTANTS Procs,               \* the proc_structs that can be in use at once
          Idle,                \* idleproc, never in a queue
          level_slice,         \* ticks a process may run at each level
          BOOST_TICKS,         \* ticks between two boosts
          SCORE_SCALE,         \* the score that means 100% CPU-bound
          IO_BOUND_THRESHOLD   \* below this score a process is I/O-bound

MLFQ_LEVELS == 4
Level == 0 .. MLFQ_LEVELS - 1

ASSUME MlfqAssumption ==
  /\ Idle \notin Procs
  /\ level_slice \in [Level -> Nat \ {0}]
  /\ BOOST_TICKS \in Nat \ {0}
  /\ SCORE_SCALE \in Nat \ {0}
  /\ IO_BOUND_THRESHOLD \in 0 .. SCORE_SCALE

VARIABLES state,          \* proc->state; "UNINIT" is also a slot not in use
          current,        \* the process that owns the CPU
          leaving,        \* current is between a change of its state and the
                          \* call of schedule() that follows
          need_resched,   \* proc->need_resched
          mlfq            \* the class's state, see MlfqState

vars == <<state, current, leaving, need_resched, mlfq>>

AllProcs == Procs \cup {Idle}
States == {"UNINIT", "SLEEPING", "RUNNABLE", "ZOMBIE"}

MlfqState ==
  [queues              : [Level -> Seq(Procs)],
   global_timer        : 0 .. BOOST_TICKS,
   proc_num            : Int,
   mlfq_level          : [Procs -> Level],
   current_slice_ticks : [Procs -> Nat],
   sched_count         : [Procs -> {0, 1}],
   cpu_score           : [Procs -> Int]]

TypeOK == /\ state \in [AllProcs -> States]
          /\ current \in AllProcs
          /\ leaving \in BOOLEAN
          /\ need_resched \in [AllProcs -> BOOLEAN]
          /\ mlfq \in MlfqState

Saturated(n, bound) == IF n < bound THEN n ELSE bound

----------------------------------------------------------------------------
(* The sched_class.  Each faulty variant named in PROJECT.json "mutants"   *)
(* stands right before the operator it corrupts.                           *)

\* The ticks of its slice that p used since it was last enqueued.
Used(m, p) ==
  level_slice[m.mlfq_level[p]] - m.current_slice_ticks[p]

\* Faulty variant: the ticks left over taken for the ticks used.
RatioLeftover(m, p) ==
  (m.current_slice_ticks[p] * SCORE_SCALE) \div level_slice[m.mlfq_level[p]]

\* Share of the slice used, in 0..SCORE_SCALE.
Ratio(m, p) ==
  (Used(m, p) * SCORE_SCALE) \div level_slice[m.mlfq_level[p]]

\* EWMA; a score of 0 stands for "no history" and takes the ratio itself.
NextScore(m, p) ==
  IF m.cpu_score[p] = 0 THEN Ratio(m, p)
  ELSE (6 * m.cpu_score[p] + 4 * Ratio(m, p)) \div 10

\* Faulty variant: the score alone decides, also of a process that gave the
\* CPU up before its slice was over.
NextLevelByScore(m, p) ==
  LET l == m.mlfq_level[p] IN
  IF NextScore(m, p) >= IO_BOUND_THRESHOLD
  THEN (IF l < MLFQ_LEVELS - 1 THEN l + 1 ELSE l)
  ELSE 0

\* One level down after a full slice; after a yield to the top if the score
\* says I/O-bound, else one level up.
NextLevel(m, p) ==
  LET l == m.mlfq_level[p] IN
  IF m.current_slice_ticks[p] <= 0
  THEN (IF l < MLFQ_LEVELS - 1 THEN l + 1 ELSE l)
  ELSE IF NextScore(m, p) < IO_BOUND_THRESHOLD THEN 0
  ELSE IF l > 0 THEN l - 1 ELSE l

\* mlfq_predict_and_level_update
PredictAndLevelUpdate(m, p) ==
  [m EXCEPT !.cpu_score[p] = NextScore(m, p),
            !.mlfq_level[p] = NextLevel(m, p)]

\* Faulty variant: the process goes to the front, as the comment at the call
\* of list_add_before has it.
EnqueueAtHead(m, p) ==
  LET u == IF m.sched_count[p] > 0 THEN PredictAndLevelUpdate(m, p)
           ELSE [m EXCEPT !.mlfq_level[p] = 0]
      l == u.mlfq_level[p]
  IN  [u EXCEPT !.current_slice_ticks[p] = level_slice[l],
                !.queues[l] = <<p>> \o @,
                !.proc_num = @ + 1]

\* mlfq_enqueue: list_add_before the head of a circular list is its tail.
Enqueue(m, p) ==
  LET u == IF m.sched_count[p] > 0 THEN PredictAndLevelUpdate(m, p)
           ELSE [m EXCEPT !.mlfq_level[p] = 0]
      l == u.mlfq_level[p]
  IN  [u EXCEPT !.current_slice_ticks[p] = level_slice[l],
                !.queues[l] = Append(@, p),
                !.proc_num = @ + 1]

\* mlfq_dequeue of the process PickNext returned, the first of its queue.
Dequeue(m, p) ==
  [m EXCEPT !.queues[m.mlfq_level[p]] = Tail(@),
            !.proc_num = @ - 1]

InQueue(m, l, p) == \E i \in 1 .. Len(m.queues[l]) : m.queues[l][i] = p

\* Faulty variant: the slices of the old levels are kept.
PriorityBoostKeepSlice(m) ==
  LET q == m.queues
      Moved(p) == \E l \in Level \ {0} : InQueue(m, l, p)
  IN  [m EXCEPT
         !.queues = [l \in Level |->
                       IF l = 0 THEN q[0] \o q[1] \o q[2] \o q[3] ELSE <<>>],
         !.mlfq_level = [p \in Procs |-> IF Moved(p) THEN 0 ELSE @[p]]]

\* priority_boost: levels 1, 2 and 3, in this order, to the tail of level 0.
PriorityBoost(m) ==
  LET q == m.queues
      Moved(p) == \E l \in Level \ {0} : InQueue(m, l, p)
  IN  [m EXCEPT
         !.queues = [l \in Level |->
                       IF l = 0 THEN q[0] \o q[1] \o q[2] \o q[3] ELSE <<>>],
         !.mlfq_level = [p \in Procs |-> IF Moved(p) THEN 0 ELSE @[p]],
         !.current_slice_ticks =
            [p \in Procs |-> IF Moved(p) THEN level_slice[0] ELSE @[p]]]

\* Faulty variant: no boost ever.
BoostIfDueNever(m) == m

\* The first half of mlfq_pick_next.
BoostIfDue(m) ==
  IF m.global_timer >= BOOST_TICKS
  THEN [PriorityBoost(m) EXCEPT !.global_timer = 0]
  ELSE m

\* Faulty variant: the lowest level is not looked at.
FirstProcNotLast(m) ==
  LET full == {l \in Level \ {3} : m.queues[l] # <<>>} IN
  IF full = {} THEN Idle
  ELSE m.queues[CHOOSE l \in full : \A k \in full : l <= k][1]

\* The second half of mlfq_pick_next: the first process of the highest level;
\* Idle stands for NULL, which schedule() replaces by idleproc.
FirstProc(m) ==
  LET full == {l \in Level : m.queues[l] # <<>>} IN
  IF full = {} THEN Idle
  ELSE m.queues[CHOOSE l \in full : \A k \in full : l <= k][1]

\* mlfq_dequeue of the process mlfq_pick_next returned and counted.
Take(m, p) == Dequeue([m EXCEPT !.sched_count[p] = 1], p)

\* Faulty variant: the slice goes down whatever the process is doing.
ProcTickAlways(m, p, runnable) ==
  [m EXCEPT
     !.current_slice_ticks[p] = IF @ > 0 THEN @ - 1 ELSE @,
     !.global_timer = Saturated(@ + 1, BOOST_TICKS)]

\* mlfq_proc_tick, for a process that is not idleproc.
ProcTick(m, p, runnable) ==
  [m EXCEPT
     !.current_slice_ticks[p] = IF runnable /\ @ > 0 THEN @ - 1 ELSE @,
     !.global_timer = Saturated(@ + 1, BOOST_TICKS)]

\* The MLFQ part of alloc_proc.
AllocProc(m, p) ==
  [m EXCEPT !.mlfq_level[p] = 0, !.current_slice_ticks[p] = 0,
            !.sched_count[p] = 0, !.cpu_score[p] = 0]

----------------------------------------------------------------------------
(* sched_init and proc_init: idleproc runs, with need_resched set; init is *)
(* the one process in a queue.                                             *)
EmptyMlfq ==
  [queues              |-> [l \in Level |-> <<>>],
   global_timer        |-> 0,
   proc_num            |-> 0,
   mlfq_level          |-> [p \in Procs |-> 0],
   current_slice_ticks |-> [p \in Procs |-> 0],
   sched_count         |-> [p \in Procs |-> 0],
   cpu_score           |-> [p \in Procs |-> 0]]

Init == \E init \in Procs :
  /\ state = [p \in AllProcs |->
                IF p \in {Idle, init} THEN "RUNNABLE" ELSE "UNINIT"]
  /\ current = Idle
  /\ leaving = FALSE
  /\ need_resched = [p \in AllProcs |-> p = Idle]
  /\ mlfq = Enqueue(EmptyMlfq, init)

----------------------------------------------------------------------------
(* The running process executes its own code: it is neither idleproc nor   *)
(* on its way into schedule().                                             *)
Running == current \in Procs /\ ~ leaving

\* do_fork: alloc_proc (see Reap), then wakeup_proc, which enqueues the child.
Fork(p) ==
  /\ Running
  /\ state[p] = "UNINIT"
  /\ state' = [state EXCEPT ![p] = "RUNNABLE"]
  /\ mlfq' = Enqueue(mlfq, p)
  /\ UNCHANGED <<current, leaving, need_resched>>

\* Faulty variant: wakeup_proc enqueues the running process too.
WakeupAlways(p) ==
  /\ state[p] = "SLEEPING"
  /\ state' = [state EXCEPT ![p] = "RUNNABLE"]
  /\ mlfq' = Enqueue(mlfq, p)
  /\ UNCHANGED <<current, leaving, need_resched>>

\* wakeup_proc on a sleeping process, called by do_exit, do_kill or an
\* expired timer.  A timer may expire between the moment the running process
\* marks itself as sleeping and its call of schedule(): then p = current.
Wakeup(p) ==
  /\ state[p] = "SLEEPING"
  /\ state' = [state EXCEPT ![p] = "RUNNABLE"]
  /\ mlfq' = IF p # current THEN Enqueue(mlfq, p) ELSE mlfq
  /\ UNCHANGED <<current, leaving, need_resched>>

\* do_wait frees the proc_struct of a child that is a zombie.  The fields that
\* the next alloc_proc of the slot sets are set here, so that all free slots
\* look alike.
Reap(p) ==
  /\ Running
  /\ state[p] = "ZOMBIE"
  /\ state' = [state EXCEPT ![p] = "UNINIT"]
  /\ need_resched' = [need_resched EXCEPT ![p] = FALSE]
  /\ mlfq' = AllocProc(mlfq, p)
  /\ UNCHANGED <<current, leaving>>

\* do_wait and do_exit up to their call of schedule(), which is a later step:
\* interrupts are enabled in between.
Sleep ==
  /\ Running
  /\ state' = [state EXCEPT ![current] = "SLEEPING"]
  /\ leaving' = TRUE
  /\ UNCHANGED <<current, need_resched, mlfq>>

Exit ==
  /\ Running
  /\ state' = [state EXCEPT ![current] = "ZOMBIE"]
  /\ leaving' = TRUE
  /\ UNCHANGED <<current, need_resched, mlfq>>

\* do_yield
Yield ==
  /\ Running
  /\ need_resched' = [need_resched EXCEPT ![current] = TRUE]
  /\ UNCHANGED <<state, current, leaving, mlfq>>

\* Faulty variant: the slice is compared with zero before it is decremented.
TickComparesFirst ==
  /\ current # Idle
  /\ mlfq' = ProcTick(mlfq, current, state[current] = "RUNNABLE")
  /\ need_resched' = [need_resched EXCEPT ![current] =
                        @ \/ mlfq.current_slice_ticks[current] <= 0]
  /\ UNCHANGED <<state, current, leaving>>

\* run_timer_list, the timer interrupt, but for the timers themselves.
Tick ==
  /\ IF current = Idle
     THEN /\ need_resched' = [need_resched EXCEPT ![Idle] = TRUE]
          /\ UNCHANGED mlfq
     ELSE LET runnable == state[current] = "RUNNABLE"
              m == ProcTick(mlfq, current, runnable)
          IN  /\ mlfq' = m
              /\ need_resched' =
                   [need_resched EXCEPT ![current] =
                      @ \/ (runnable /\ m.current_slice_ticks[current] <= 0)]
  /\ UNCHANGED <<state, current, leaving>>

\* The class's state when mlfq_pick_next scans the queues: schedule() puts a
\* process that can go on back into a queue first, and the boost comes next.
Requeued ==
  IF current # Idle /\ state[current] = "RUNNABLE"
  THEN Enqueue(mlfq, current) ELSE mlfq

Dispatch(m) ==
  /\ current' = FirstProc(m)
  /\ mlfq' = IF current' = Idle THEN m ELSE Take(m, current')
  /\ leaving' = FALSE
  /\ need_resched' = [need_resched EXCEPT ![current] = FALSE]
  /\ UNCHANGED state

\* schedule() and, when the next process is another one, proc_run.  A process
\* calls it when it returns to user mode with need_resched set, when it has
\* just gone to sleep or become a zombie, and init whenever it reaped a
\* child; idleproc only with need_resched set.  (The singleton set lets TLC
\* evaluate the record once.)
MustSchedule == leaving \/ need_resched[current]
Schedule ==
  /\ current = Idle => MustSchedule
  /\ \E m \in {BoostIfDue(Requeued)} : Dispatch(m)

Next == \/ \E p \in Procs : Fork(p) \/ Wakeup(p) \/ Reap(p)
        \/ Sleep \/ Exit \/ Yield \/ Tick \/ Schedule

Spec == Init /\ [][Next]_vars

\* The timer keeps interrupting, and a process that has to call schedule()
\* does: it returns from its system call, or is about to call it.
Fairness == WF_vars(Tick) /\ WF_vars(MustSchedule /\ Schedule)

FairSpec == Spec /\ Fairness

----------------------------------------------------------------------------
(* Safety.                                                                 *)

Ready(p) == state[p] = "RUNNABLE" /\ p # current

QueuedIffReady ==
  \A p \in Procs : (\E l \in Level : InQueue(mlfq, l, p)) <=> Ready(p)

QueuedOnce ==
  \A l, k \in Level : \A i \in 1 .. Len(mlfq.queues[l]),
                         j \in 1 .. Len(mlfq.queues[k]) :
    mlfq.queues[l][i] = mlfq.queues[k][j] => l = k /\ i = j

QueuedAtItsLevel ==
  \A l \in Level : \A i \in 1 .. Len(mlfq.queues[l]) :
    LET p == mlfq.queues[l][i] IN
    mlfq.mlfq_level[p] = l /\ mlfq.current_slice_ticks[p] = level_slice[l]

ProcNumCounts ==
  mlfq.proc_num = Len(mlfq.queues[0]) + Len(mlfq.queues[1])
                  + Len(mlfq.queues[2]) + Len(mlfq.queues[3])

\* The queues agree with the processes.  A process waits in a queue exactly
\* when it is runnable and not running: none is lost by an enqueue that was
\* skipped, and none, asleep or dead, is left for pick_next to run.  It is
\* linked once, as a second list_add would tear the circular lists apart.  It
\* holds the level of its queue and the whole slice of that level, also after
\* a boost moved it: mlfq_dequeue and the next level update rely on it.
\* rq->proc_num counts the linked processes.
QueuesAgree == QueuedIffReady /\ QueuedOnce /\ QueuedAtItsLevel /\ ProcNumCounts

SliceFitsLevel ==
  \A p \in Procs : mlfq.current_slice_ticks[p] <= level_slice[mlfq.mlfq_level[p]]

\* cpu_score is a fraction of SCORE_SCALE (proc.h: "0-1000").  It stays one
\* because no process has more ticks left than its level grants, so that the
\* ticks it used are never negative.
ScoreInRange ==
  SliceFitsLevel /\ \A p \in Procs : mlfq.cpu_score[p] \in 0 .. SCORE_SCALE

OverrunIsNoticed ==
  Running /\ mlfq.current_slice_ticks[current] <= 0 => need_resched[current]

ReschedOnlyCurrent == \A p \in AllProcs : need_resched[p] => p = current

\* need_resched means what schedule() takes it for.  A process that runs on
\* with its slice used up has it set, so that no order of ticks, system calls
\* and sleeps lets it keep the CPU; and no other process has it set, which
\* would give the CPU away as soon as it gets it.
ReschedIsRight == OverrunIsNoticed /\ ReschedOnlyCurrent

----------------------------------------------------------------------------
(* What a step may never do.                                               *)

\* The queued processes in the order of the scan: level first, then position.
Line(m) == m.queues[0] \o m.queues[1] \o m.queues[2] \o m.queues[3]

Precedes(m, p, q) ==
  \E i, j \in 1 .. Len(Line(m)) : i < j /\ Line(m)[i] = p /\ Line(m)[j] = q

\* While two processes wait, the one behind never gets ahead of the other, not
\* even when a boost merges the levels; and a process that arrives at a level,
\* or comes back to it, goes behind those that wait there.
NoOvertaking ==
  [][LET waiting(m) == {Line(m)[i] : i \in 1 .. Len(Line(m))}
         stayed == waiting(mlfq) \cap waiting(mlfq')
         newcomers == waiting(mlfq') \ waiting(mlfq)
     IN  /\ \A p, q \in stayed : Precedes(mlfq, p, q) => Precedes(mlfq', p, q)
         /\ \A p \in stayed, q \in newcomers, l \in Level :
              InQueue(mlfq, l, p) /\ InQueue(mlfq', l, p) /\ InQueue(mlfq', l, q)
              => Precedes(mlfq', p, q)]_(mlfq.queues)

\* A level is lost one at a time and only for a slice used up, and won only by
\* giving up the CPU before, by a boost, or by being a new process.
LevelChangesAreEarned ==
  [][\A p \in Procs :
       LET old == mlfq.mlfq_level[p]
           new == mlfq'.mlfq_level[p]
           left == mlfq.current_slice_ticks[p]
       IN  /\ new > old => new = old + 1 /\ left <= 0
           /\ new < old => \/ left > 0
                           \/ mlfq.global_timer >= BOOST_TICKS
                           \/ state[p] = "ZOMBIE"]_mlfq

\* The score follows the behaviour: a slice used up never lowers it, a slice
\* not touched never raises it, and a process whose slice was used up is
\* never taken for I/O-bound.  What a process has used is not changed while it
\* sleeps, neither by a tick before its call of schedule() nor by a boost: it
\* is judged at its wakeup by what it ran.
ScoreFollowsBurst ==
  [][\A p \in Procs :
       LET old == mlfq.cpu_score[p]
           new == mlfq'.cpu_score[p]
           left == mlfq.current_slice_ticks[p]
       IN  /\ left <= 0 /\ state[p] # "ZOMBIE" => new >= old
           /\ left <= 0 /\ mlfq'.current_slice_ticks[p] > 0
                /\ mlfq.sched_count[p] > 0 => new >= IO_BOUND_THRESHOLD
           /\ Used(mlfq, p) = 0 => new <= old
           /\ state[p] = "SLEEPING" /\ state'[p] = "SLEEPING" =>
                new = old /\ Used(mlfq', p) = Used(mlfq, p)]_mlfq

----------------------------------------------------------------------------
(* Liveness, and what sched.c promises.                                    *)

Core == INSTANCE SchedCore

\* schedule() runs a runnable process whenever there is one and otherwise
\* idleproc, whatever the class does with its queues.
ImplementsCore == Core!Spec

\* Every process that is ready gets the CPU: the boost brings it to the top
\* level, where the queue is first-in first-out.
NoStarvation == Core!NoStarvation
=============================================================================
