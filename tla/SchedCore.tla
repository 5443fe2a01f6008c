----------------------------- MODULE SchedCore -----------------------------
(***************************************************************************)
(* What kern/schedule/sched.c promises its callers, whichever sched_class  *)
(* is plugged in: which process owns the single CPU, and which state each  *)
(* process is in.  There are no queues here, no ticks and no priorities:   *)
(* schedule() hands the CPU to SOME runnable process, and to idleproc only *)
(* when there is none.  The scheduler classes are shown to implement this  *)
(* module (see SmartMlfq and BasicMlfq).                                   *)
(***************************************************************************)

CONSTANTS Procs,   \* the proc_structs that can be in use at once
          Idle     \* idleproc, which no run queue ever holds

VARIABLES state,   \* proc->state; "UNINIT" is also a slot not in use
          current  \* the process that owns the CPU

vars == <<state, current>>

AllProcs == Procs \cup {Idle}
States == {"UNINIT", "SLEEPING", "RUNNABLE", "ZOMBIE"}

TypeOK == /\ state \in [AllProcs -> States]
          /\ current \in AllProcs

\* After proc_init: idleproc runs, init is ready, the rest is not in use.
Init == /\ \E init \in Procs :
             state = [p \in AllProcs |->
                        IF p \in {Idle, init} THEN "RUNNABLE" ELSE "UNINIT"]
        /\ current = Idle

----------------------------------------------------------------------------
\* The running process is executing its own code, not on its way out of the
\* CPU: what do_fork, do_wait, do_exit and do_yield may rely on.
Running == current \in Procs /\ state[current] = "RUNNABLE"

SetState(p, s) == state' = [state EXCEPT ![p] = s] /\ UNCHANGED current

\* do_fork ends in wakeup_proc on a proc_struct fresh from alloc_proc.
Fork(p) == Running /\ state[p] = "UNINIT" /\ SetState(p, "RUNNABLE")

\* wakeup_proc on a sleeping process.
Wakeup(p) == state[p] = "SLEEPING" /\ SetState(p, "RUNNABLE")

\* do_wait and do_exit change the state first and call schedule() later.
Sleep == Running /\ SetState(current, "SLEEPING")
Exit  == Running /\ SetState(current, "ZOMBIE")

\* do_wait frees a zombie; it is not the process that is running.
Reap(p) == /\ Running
           /\ state[p] = "ZOMBIE"
           /\ SetState(p, "UNINIT")

\* schedule(): any runnable process may be next, the current one included.
Schedule ==
  /\ LET ready == {p \in Procs : state[p] = "RUNNABLE"}
     IN  IF ready = {} THEN current' = Idle ELSE current' \in ready
  /\ UNCHANGED state

Next == \/ \E p \in Procs : Fork(p) \/ Wakeup(p) \/ Reap(p)
        \/ Sleep \/ Exit \/ Schedule

Spec == Init /\ [][Next]_vars

----------------------------------------------------------------------------
\* Nobody waits for the CPU forever: a process that is ready to run is
\* dispatched sooner or later.  (A ready process leaves "RUNNABLE" only by
\* running, so this is all there is to say.)
NoStarvation ==
  \A p \in Procs : (state[p] = "RUNNABLE") ~> (current = p)
=============================================================================
