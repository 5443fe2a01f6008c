------------------------------ MODULE ProcLife ------------------------------
(***************************************************************************)
(* The life of processes: do_fork, do_wait, do_exit and do_kill of         *)
(* kern/process/proc.c, init_main, and the way back to user mode in        *)
(* kern/trap/trap.c, where a killed process is sent to do_exit.            *)
(*                                                                         *)
(* The kernel is not preemptive and has one CPU: between two calls of      *)
(* schedule() only interrupt handlers run, and none of them touches the    *)
(* state kept here (no process ever starts a timer).  An action is what a  *)
(* process does up to its next schedule(), that call included; the choice  *)
(* of the next process is that of SchedCore, any runnable one.  pc[p] says *)
(* where p goes on when it has the CPU.                                    *)
(*                                                                         *)
(* A proc_struct and its pid are one thing here, an element of Procs; a    *)
(* freed one may come back as another process.  need_resched is a choice   *)
(* made when it is read: a tick may have set it at any time.               *)
(***************************************************************************)
EXTENDS Naturals, FiniteSets, SequencesExt

CONSTANTS Procs,         \* proc_structs and pids, InitProc among them
          Idle,          \* idleproc
          InitProc,      \* initproc
          NULL,          \* the null pointer; also pid 0, "any child"
          MAX_PROCESS    \* limit on nr_process, idleproc included

ASSUME LifeAssumption ==
  /\ IsFiniteSet(Procs) /\ InitProc \in Procs
  /\ Idle \notin Procs /\ NULL \notin Procs /\ Idle # NULL
  /\ MAX_PROCESS \in Nat \ {0, 1, 2}

VARIABLES state,        \* proc->state; "UNINIT" is a free proc_struct
          current,      \* the process that owns the CPU
          wait_child,   \* proc->wait_state = WT_CHILD (else it is 0)
          exiting,      \* proc->flags & PF_EXITING
          links,        \* parent, cptr, optr and yptr of every proc_struct
          hashed,       \* the processes in hash_list and proc_list
          nr_process,   \* as in proc.c
          pc,           \* where a process goes on
          target,       \* the pid a process waits for, in do_wait
          halted        \* init_main has returned, which ends in a panic

vars == <<state, current, wait_child, exiting, links, hashed, nr_process, pc,
          target, halted>>

States == {"UNINIT", "SLEEPING", "RUNNABLE", "ZOMBIE"}
AllProcs == Procs \cup {Idle}
Ptr == Procs \cup {NULL}

\* "start"  the first step of init_main
\* "loop"   init_main, about to call do_wait(0, NULL)
\* "user"   user mode
\* "ret"    the end of trap(), on the way back to user mode
\* "wait"   in do_wait, behind its call of schedule()
\* "dead"   in do_exit, behind its call of schedule()
PCs == {"none", "start", "loop", "user", "ret", "wait", "dead"}

TypeOK == /\ state \in [Procs -> States]
          /\ current \in AllProcs
          /\ wait_child \in [Procs -> BOOLEAN]
          /\ exiting \in [Procs -> BOOLEAN]
          /\ links \in [parent : [Procs -> AllProcs \cup {NULL}],
                        cptr   : [AllProcs -> Ptr],
                        optr   : [Procs -> Ptr],
                        yptr   : [Procs -> Ptr]]
          /\ hashed \subseteq Procs
          /\ nr_process \in 0 .. MAX_PROCESS
          /\ pc \in [Procs -> PCs]
          /\ target \in [Procs -> Ptr]
          /\ halted \in BOOLEAN

----------------------------------------------------------------------------
(* The family tree.  Each faulty variant named in PROJECT.json "mutants"   *)
(* stands right before the operator it corrupts.                           *)

\* Faulty variant: the older sibling is not told of the new one.
SetLinksOneWay(t, p) ==
  LET par == t.parent[p] IN
  [t EXCEPT !.yptr[p] = NULL, !.optr[p] = t.cptr[par], !.cptr[par] = p]

\* set_links: p becomes the youngest child of its parent.
SetLinks(t, p) ==
  LET par == t.parent[p]
      old == t.cptr[par]
      u   == [t EXCEPT !.yptr[p] = NULL, !.optr[p] = old, !.cptr[par] = p]
  IN  IF old = NULL THEN u ELSE [u EXCEPT !.yptr[old] = p]

\* remove_links, and the fields of the next alloc_proc in the freed one.
RemoveLinks(t, p) ==
  LET o == t.optr[p]
      y == t.yptr[p]
      u == IF o = NULL THEN t ELSE [t EXCEPT !.yptr[o] = y]
      v == IF y # NULL THEN [u EXCEPT !.optr[y] = o]
           ELSE [u EXCEPT !.cptr[t.parent[p]] = o]
  IN  [v EXCEPT !.parent[p] = NULL, !.cptr[p] = NULL,
                !.optr[p] = NULL, !.yptr[p] = NULL]

\* One round of the loop in do_exit: the youngest child of p goes to initproc.
AdoptByInit(t, p) ==
  LET c == t.cptr[p]
      u == [t EXCEPT !.cptr[p] = t.optr[c]]
      i == u.cptr[InitProc]
      v == [u EXCEPT !.yptr[c] = NULL, !.optr[c] = i, !.parent[c] = InitProc,
                     !.cptr[InitProc] = c]
  IN  IF i = NULL THEN v ELSE [v EXCEPT !.yptr[i] = c]

\* The children of p in the order of the list, the youngest first.
Kids(p) ==
  LET kid[n \in 1 .. Cardinality(Procs)] ==
        IF n = 1 THEN links.cptr[p]
        ELSE IF kid[n - 1] = NULL THEN NULL ELSE links.optr[kid[n - 1]]
  IN  [n \in {k \in 1 .. Cardinality(Procs) : kid[k] # NULL} |-> kid[n]]

\* The loop of do_exit, until p has no child.
OrphansToInit(p) ==
  LET after[n \in 0 .. Cardinality(Procs)] ==
        IF n = 0 THEN links
        ELSE IF after[n - 1].cptr[p] = NULL THEN after[n - 1]
        ELSE AdoptByInit(after[n - 1], p)
  IN  after[Cardinality(Procs)]

----------------------------------------------------------------------------
(* schedule() in the states st.                                            *)
Pick(st) == LET ready == {p \in Procs : st[p] = "RUNNABLE"}
            IN  IF ready = {} THEN {Idle} ELSE ready

Free == {p \in Procs : state[p] = "UNINIT"}

\* Only idleproc and init exist after proc_init; init has not run yet.
Init == /\ state = [p \in Procs |-> IF p = InitProc THEN "RUNNABLE" ELSE "UNINIT"]
        /\ current = Idle
        /\ wait_child = [p \in Procs |-> FALSE]
        /\ exiting = [p \in Procs |-> FALSE]
        /\ links = [parent |-> [p \in Procs |-> IF p = InitProc THEN Idle ELSE NULL],
                    cptr   |-> [p \in AllProcs |-> IF p = Idle THEN InitProc ELSE NULL],
                    optr   |-> [p \in Procs |-> NULL],
                    yptr   |-> [p \in Procs |-> NULL]]
        /\ hashed = {InitProc}
        /\ nr_process = 2
        /\ pc = [p \in Procs |-> IF p = InitProc THEN "start" ELSE "none"]
        /\ target = [p \in Procs |-> NULL]
        /\ halted = FALSE

At(where) == ~ halted /\ current \in Procs /\ pc[current] = where

Goto(where) == pc' = [pc EXCEPT ![current] = where]

\* cpu_idle
IdleSchedules ==
  /\ ~ halted /\ current = Idle
  /\ current' \in Pick(state)
  /\ UNCHANGED <<state, wait_child, exiting, links, hashed, nr_process, pc,
                 target, halted>>

----------------------------------------------------------------------------
(* do_fork                                                                 *)

RoomForProcess == nr_process < MAX_PROCESS

\* The successful path: the child returns to user mode from forkret, without
\* the checks at the end of trap().
NewChild(c) ==
  /\ RoomForProcess
  /\ c \in Free
  /\ state' = [state EXCEPT ![c] = "RUNNABLE"]
  /\ links' = SetLinks([links EXCEPT !.parent[c] = current], c)
  /\ hashed' = hashed \cup {c}
  /\ nr_process' = nr_process + 1
  /\ UNCHANGED <<current, wait_child, exiting, target, halted>>

Fork(c) ==
  /\ At("user")
  /\ NewChild(c)
  /\ pc' = [pc EXCEPT ![current] = "ret", ![c] = "user"]

\* init_main makes user_main, which execs the first program.
InitForks(c) ==
  /\ At("start")
  /\ NewChild(c)
  /\ pc' = [pc EXCEPT ![current] = "loop", ![c] = "user"]

\* Trap: a tick, or a system call that leaves no trace here, such as yield,
\* a fork that found no room or no memory, or a kill of nobody.
Trap ==
  /\ At("user")
  /\ Goto("ret")
  /\ UNCHANGED <<state, current, wait_child, exiting, links, hashed,
                 nr_process, target, halted>>

----------------------------------------------------------------------------
(* do_exit                                                                 *)

\* A child that has exited.
AnyDead(kids) == \E i \in DOMAIN kids : state[kids[i]] = "ZOMBIE"

\* Faulty variant: nobody tells init that it got a child that is dead.
WokenParentOnly(p) ==
  {q \in {links.parent[p]} \cap Procs : wait_child[q]}

\* The processes that do_exit of p wakes: the parent, and init for a zombie
\* among the children it gets.
WokenByExit(p) ==
  {q \in ({links.parent[p]} \cap Procs)
           \cup (IF AnyDead(Kids(p)) THEN {InitProc} ELSE {}) : wait_child[q]}

DoExit ==
  /\ state' = [p \in Procs |->
                 IF p = current THEN "ZOMBIE"
                 ELSE IF p \in WokenByExit(current) THEN "RUNNABLE" ELSE state[p]]
  /\ wait_child' = [p \in Procs |->
                      wait_child[p] /\ p \notin WokenByExit(current)]
  /\ links' = OrphansToInit(current)
  /\ Goto("dead")
  /\ target' = [target EXCEPT ![current] = NULL]
  /\ current' \in Pick(state')
  /\ UNCHANGED <<exiting, hashed, nr_process, halted>>

\* SYS_exit, and an exec that fails.
Exit == At("user") /\ DoExit

----------------------------------------------------------------------------
(* do_wait                                                                 *)

\* The children do_wait(pid) looks at, in the order it does.
Candidates(pid) ==
  IF pid = NULL THEN Kids(current)
  ELSE IF pid \in hashed /\ links.parent[pid] = current THEN <<pid>>
  ELSE <<>>

\* The child that do_wait finds.
FirstDead(kids) ==
  kids[CHOOSE i \in DOMAIN kids :
         /\ state[kids[i]] = "ZOMBIE"
         /\ \A j \in 1 .. i - 1 : state[kids[j]] # "ZOMBIE"]

\* The end of do_wait at label found, and the next alloc_proc's fields.
FreeProc(c) ==
  /\ state' = [state EXCEPT ![c] = "UNINIT"]
  /\ exiting' = [exiting EXCEPT ![c] = FALSE]
  /\ links' = RemoveLinks(links, c)
  /\ hashed' = hashed \ {c}
  /\ nr_process' = nr_process - 1

\* A zombie is found.  init_main calls schedule() before its next do_wait.
WaitFound(pid) ==
  LET dead == FirstDead(Candidates(pid)) IN
  /\ AnyDead(Candidates(pid))
  /\ FreeProc(dead)
  /\ target' = [target EXCEPT ![current] = NULL]
  /\ pc' = [pc EXCEPT ![current] = IF current = InitProc THEN "loop" ELSE "ret",
                      ![dead] = "none"]
  /\ IF current = InitProc THEN current' \in Pick(state') ELSE UNCHANGED current
  /\ UNCHANGED <<wait_child, halted>>

\* No zombie among the children: sleep until one of them exits.
WaitBlocks(pid) ==
  /\ Candidates(pid) # <<>> /\ ~ AnyDead(Candidates(pid))
  /\ state' = [state EXCEPT ![current] = "SLEEPING"]
  /\ wait_child' = [wait_child EXCEPT ![current] = TRUE]
  /\ target' = [target EXCEPT ![current] = pid]
  /\ Goto("wait")
  /\ current' \in Pick(state')
  /\ UNCHANGED <<exiting, links, hashed, nr_process, halted>>

\* No such child: -E_BAD_PROC, which ends init_main.
WaitFails(pid) ==
  /\ Candidates(pid) = <<>>
  /\ target' = [target EXCEPT ![current] = NULL]
  /\ IF current = InitProc THEN halted' = TRUE /\ UNCHANGED pc
     ELSE Goto("ret") /\ UNCHANGED halted
  /\ UNCHANGED <<state, current, wait_child, exiting, links, hashed, nr_process>>

DoWait(pid) == WaitFound(pid) \/ WaitBlocks(pid) \/ WaitFails(pid)

\* SYS_wait
Wait(pid) == At("user") /\ DoWait(pid)

\* init_main's loop
InitWaits == At("loop") /\ DoWait(NULL)

\* Back from schedule() in do_wait: killed, or once more from label repeat.
WaitResumes ==
  /\ At("wait")
  /\ IF exiting[current] THEN DoExit ELSE DoWait(target[current])

----------------------------------------------------------------------------
(* do_kill and the way back to user mode                                   *)

\* SYS_kill: only the first kill of a process wakes it.  init is killed by no
\* program (its end is the end of the system).
Kill(p) ==
  /\ At("user")
  /\ p \in hashed \ {InitProc}
  /\ exiting' = [exiting EXCEPT ![p] = TRUE]
  /\ LET wakes == ~ exiting[p] /\ wait_child[p]
     IN  /\ state' = [state EXCEPT ![p] = IF wakes THEN "RUNNABLE" ELSE @]
         /\ wait_child' = [wait_child EXCEPT ![p] = @ /\ ~ wakes]
  /\ Goto("ret")
  /\ UNCHANGED <<current, links, hashed, nr_process, target, halted>>

\* The end of trap(): a killed process exits; else need_resched decides
\* between user mode at once and a call of schedule(), which ends there too.
ReturnKilled == At("ret") /\ exiting[current] /\ DoExit

ReturnToUser ==
  /\ At("ret") /\ ~ exiting[current]
  /\ Goto("user")
  /\ UNCHANGED <<state, current, wait_child, exiting, links, hashed,
                 nr_process, target, halted>>

ReturnResched ==
  /\ At("ret") /\ ~ exiting[current]
  /\ Goto("user")
  /\ current' \in Pick(state)
  /\ UNCHANGED <<state, wait_child, exiting, links, hashed, nr_process,
                 target, halted>>

----------------------------------------------------------------------------
Next == \/ IdleSchedules \/ InitWaits
        \/ \E c \in Procs : InitForks(c) \/ Fork(c) \/ Kill(c)
        \/ \E pid \in Ptr : Wait(pid)
        \/ Trap \/ Exit \/ WaitResumes
        \/ ReturnKilled \/ ReturnToUser \/ ReturnResched

Spec == Init /\ [][Next]_vars

\* What is not up to the programs.  The kernel goes on where it stands; ticks
\* interrupt user code and, slice by slice, make it call schedule() at the end
\* of trap(); and the scheduler starves nobody there (SchedCore!NoStarvation).
Fairness ==
  /\ WF_vars(IdleSchedules \/ \E c \in Procs : InitForks(c))
  /\ WF_vars(InitWaits \/ WaitResumes \/ ReturnKilled)
  /\ WF_vars(Trap)
  /\ \A p \in Procs : SF_vars(ReturnResched /\ current # p /\ current' = p)

FairSpec == Spec /\ Fairness

----------------------------------------------------------------------------
(* Safety.                                                                 *)

TreeConsistent ==
  /\ \A p \in hashed \cup {Idle} :
       /\ ToSet(Kids(p)) = {c \in hashed : links.parent[c] = p}
       /\ Len(Kids(p)) = Cardinality(ToSet(Kids(p)))
       /\ links.cptr[p] # NULL => links.yptr[links.cptr[p]] = NULL
  /\ \A c \in hashed : links.optr[c] # NULL => links.yptr[links.optr[c]] = c

ParentIsAlive ==
  \A c \in hashed : /\ links.parent[c] \in (hashed \cup {Idle})
                    /\ links.parent[c] # Idle => state[links.parent[c]] # "ZOMBIE"

NrProcessCounts ==
  nr_process = Cardinality(hashed) + 1 /\ nr_process <= MAX_PROCESS

InitLeavesLast == halted => hashed = {InitProc} /\ nr_process = 2

\* No order of forks, exits, adoptions and waits tears the family apart:
\* following cptr and then optr finds the children of a process, each once,
\* and yptr is the way back; and a live process has a live parent, so that
\* do_exit never wakes or links to a zombie or to memory do_wait has freed.
\* nr_process counts the family and idleproc, and when init finds no child at
\* the end it is alone: the assertions of init_main.
FamilyIsWhole ==
  TypeOK /\ TreeConsistent /\ ParentIsAlive /\ NrProcessCounts /\ InitLeavesLast

WaitStateMeansAsleep == \A p \in Procs : wait_child[p] => state[p] = "SLEEPING"

NotAllAsleep == \E p \in Procs : state[p] = "RUNNABLE"

\* Nobody sleeps through the end of a child: a process asleep in do_wait has
\* a child it waits for, and that child has yet to exit.  And wait_state is
\* set for sleepers only: the assertions of do_fork and wakeup_proc hold and
\* no process that is awake is woken a second time.  Never does everybody wait
\* for somebody: one process at least can run.
NoLostWakeup ==
  /\ WaitStateMeansAsleep
  /\ NotAllAsleep
  /\ \A p \in Procs : state[p] = "SLEEPING" =>
       LET kids == IF target[p] = NULL THEN ToSet(Kids(p))
                   ELSE {target[p]} \cap ToSet(Kids(p))
       IN  wait_child[p] /\ kids # {} /\ \A c \in kids : state[c] # "ZOMBIE"

----------------------------------------------------------------------------
(* Liveness.                                                               *)

\* A process in do_wait with a dead child to wait for gets out of do_wait.
WaitReturns ==
  \A p, c \in Procs :
    (pc[p] = "wait" /\ state[c] = "ZOMBIE" /\ links.parent[c] = p
       /\ target[p] \in {NULL, c}) ~> (pc[p] # "wait")

\* proc.c: "SYS_kill: kill process --> do_kill --> proc->flags |= PF_EXITING
\* --> wakeup_proc --> do_wait --> do_exit".  A killed process would end.
KilledProcessExits ==
  \A p \in Procs : exiting[p] ~> (state[p] \in {"ZOMBIE", "UNINIT"})
=============================================================================
