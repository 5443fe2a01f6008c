------------------------------- MODULE GetPid -------------------------------
(***************************************************************************)
(* get_pid of kern/process/proc.c, the processes of proc_list it scans,    *)
(* and the interval last_pid..next_safe it remembers from call to call: no *)
(* process had a pid strictly inside it when the list was last scanned.    *)
(*                                                                         *)
(* A call runs with interrupts disabled, so nothing changes proc_list      *)
(* meanwhile.  Its loop is a step per node here: the loop moves last_pid   *)
(* and next_safe while it runs, and may start again.                       *)
(***************************************************************************)
EXTENDS Integers, Sequences

CONSTANTS MAX_PID,       \* pids are 1 .. MAX_PID - 1; 0 is idleproc's
          MAX_PROCS      \* MAX_PROCESS, the limit on nr_process

ASSUME PidAssumption ==
  /\ MAX_PROCS \in Nat \ {0}
  /\ MAX_PID \in Nat
  /\ MAX_PID > MAX_PROCS      \* the static_assert of get_pid
  /\ MAX_PID > 1

Pid == 1 .. MAX_PID - 1

VARIABLES proc_list,   \* the pids of the processes in proc_list, in its order
          last_pid,    \* the static variables of get_pid
          next_safe,
          pos,         \* le: the node the loop is at; 0 outside of get_pid
          from         \* last_pid when the call began

pidVars == <<proc_list, last_pid, next_safe, pos, from>>

Nodes == 1 .. Len(proc_list)
Used == {proc_list[i] : i \in Nodes}

PidTypeOK == /\ proc_list \in Seq(Pid)
             /\ last_pid \in 1 .. MAX_PID
             /\ next_safe \in 1 .. MAX_PID
             /\ pos \in 0 .. Len(proc_list) + 1
             /\ from \in 1 .. MAX_PID

PidInit == /\ proc_list = <<>>
           /\ last_pid = MAX_PID
           /\ next_safe = MAX_PID
           /\ pos = 0
           /\ from = MAX_PID

----------------------------------------------------------------------------
\* do_fork found a free place; nr_process also counts idleproc, which is not
\* in proc_list.
MayFork == pos = 0 /\ Len(proc_list) + 1 < MAX_PROCS

\* set_links puts the new process at the head of the list.
Assign(pid) == proc_list' = <<pid>> \o proc_list

\* The pid after the last one is inside the interval: no look at the list.
Quick ==
  /\ MayFork
  /\ last_pid + 1 < MAX_PID
  /\ last_pid + 1 < next_safe
  /\ last_pid' = last_pid + 1
  /\ from' = last_pid
  /\ Assign(last_pid + 1)
  /\ UNCHANGED <<next_safe, pos>>

\* The end of the interval, or of the pids: scan the list.
StartScan ==
  /\ MayFork
  /\ last_pid + 1 >= MAX_PID \/ last_pid + 1 >= next_safe
  /\ last_pid' = IF last_pid + 1 >= MAX_PID THEN 1 ELSE last_pid + 1
  /\ next_safe' = MAX_PID
  /\ from' = last_pid
  /\ pos' = 1
  /\ UNCHANGED proc_list

\* Faulty variant: every search that starts again begins with pid 1.
CollisionFromOne ==
  /\ pos \in Nodes
  /\ proc_list[pos] = last_pid
  /\ IF last_pid + 1 >= next_safe
     THEN last_pid' = 1 /\ next_safe' = MAX_PID /\ pos' = 1
     ELSE last_pid' = last_pid + 1 /\ pos' = pos + 1 /\ UNCHANGED next_safe
  /\ UNCHANGED <<proc_list, from>>

\* Faulty variant: the pid is not advanced when the search starts again.
CollisionStuck ==
  /\ pos \in Nodes
  /\ proc_list[pos] = last_pid
  /\ IF last_pid + 1 >= next_safe
     THEN next_safe' = MAX_PID /\ pos' = 1 /\ UNCHANGED last_pid
     ELSE last_pid' = last_pid + 1 /\ pos' = pos + 1 /\ UNCHANGED next_safe
  /\ UNCHANGED <<proc_list, from>>

\* A node with the pid under consideration: take the next pid, and when that
\* one is not known to be free, start again.
Collision ==
  /\ pos \in Nodes
  /\ proc_list[pos] = last_pid
  /\ IF last_pid + 1 >= next_safe
     THEN /\ last_pid' = IF last_pid + 1 >= MAX_PID THEN 1 ELSE last_pid + 1
          /\ next_safe' = MAX_PID
          /\ pos' = 1
     ELSE /\ last_pid' = last_pid + 1
          /\ pos' = pos + 1
          /\ UNCHANGED next_safe
  /\ UNCHANGED <<proc_list, from>>

\* Faulty variant: only the first larger pid of the list is remembered.
PassFirst ==
  /\ pos \in Nodes
  /\ proc_list[pos] # last_pid
  /\ next_safe' = IF proc_list[pos] > last_pid /\ next_safe = MAX_PID
                  THEN proc_list[pos] ELSE next_safe
  /\ pos' = pos + 1
  /\ UNCHANGED <<proc_list, last_pid, from>>

\* Any other node: next_safe is the least larger pid met.
Pass ==
  /\ pos \in Nodes
  /\ proc_list[pos] # last_pid
  /\ next_safe' = IF proc_list[pos] > last_pid /\ next_safe > proc_list[pos]
                  THEN proc_list[pos] ELSE next_safe
  /\ pos' = pos + 1
  /\ UNCHANGED <<proc_list, last_pid, from>>

\* The end of the list.
EndScan ==
  /\ pos = Len(proc_list) + 1
  /\ pos' = 0
  /\ Assign(last_pid)
  /\ UNCHANGED <<last_pid, next_safe, from>>

\* remove_links of a process that do_wait frees; never that of init.
RemovePid(i) ==
  /\ pos = 0
  /\ proc_list[i] # 1
  /\ proc_list' = [j \in 1 .. Len(proc_list) - 1 |->
                     proc_list[IF j < i THEN j ELSE j + 1]]
  /\ UNCHANGED <<last_pid, next_safe, pos, from>>

PidNext == \/ Quick \/ StartScan \/ Collision \/ Pass \/ EndScan
           \/ \E i \in Nodes : RemovePid(i)

PidSpec == PidInit /\ [][PidNext]_pidVars

\* A call of get_pid does not stop halfway.
PidFairness == WF_pidVars(Collision \/ Pass \/ EndScan)

----------------------------------------------------------------------------
\* No two processes have the same pid: find_proc, kill and wait name the
\* process they mean.
PidsDistinct ==
  \A i, j \in Nodes : proc_list[i] = proc_list[j] => i = j

\* What get_pid may rely on when it does not scan: between two calls the pids
\* inside the remembered interval are free.
IntervalIsSafe ==
  pos = 0 => \A q \in Used : ~ (last_pid < q /\ q < next_safe)

\* The pids between a and b when 1 follows MAX_PID - 1.
Between(a, b) ==
  IF a < b THEN {q \in Pid : a < q /\ q < b} ELSE {q \in Pid : a < q \/ q < b}

\* The pid before the first one tried: the last one given, or none.
Start == IF from = MAX_PID THEN 0 ELSE from

\* get_pid gives the next free pid after the one it gave last, and wraps: it
\* leaves none out, and a freed pid comes back as late as possible.
TakesTheNextFree ==
  [][Len(proc_list') > Len(proc_list) =>
       /\ proc_list'[1] \in Pid \ Used
       /\ Between(Start', proc_list'[1]) \subseteq Used]_proc_list

\* The loop ends, though it may start over from its first node.
GetPidReturns == (pos # 0) ~> (pos = 0)
=============================================================================
