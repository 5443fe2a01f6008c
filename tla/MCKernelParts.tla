--------------------------- MODULE MCKernelParts ---------------------------
(***************************************************************************)
(* The parts of the kernel that keep their state to themselves and are     *)
(* small enough to be checked together: a behaviour picks one of them, and *)
(* only that part moves.  No two of them share state in the kernel either, *)
(* so what holds of each alone holds of them together.                     *)
(*                                                                         *)
(* The page allocator and get_pid are the parts whose theorems this run    *)
(* accompanies: they are here under their own names, the other parts under *)
(* the names of their instances.                                           *)
(***************************************************************************)
EXTENDS FirstFit, GetPid

CONSTANTS Timer, MaxExpires,
          PAGE_SIZE, HeapPages, Requests, BIGBLOCK,
          mm, SwapFrames, CHECK_VALID_PHY_PAGE_NUM, CHECK_VALID_VIR_PAGE_NUM,
          CONSBUFSIZE, SerialChars, MaxPending,
          CRT_ROWS, CRT_COLS, BUFSIZE, Typed,
          Node, nil, root,
          Length, MaxCalls, STACKFRAME_DEPTH,
          NULL

VARIABLES part,
          timer_list, expires, fired,
          heap, blocks,
          m, pgfault_num, step, check_rp, stored,
          down, wire, kbd, com, shift, buf, rpos, wpos, got,
          crt_buf, crt_pos, line, reading,
          t,
          prog, readable, calls

timerVars == <<timer_list, expires, fired>>
frameVars == <<free_list, nr_free, property, reserved, held>>
heapVars == <<heap, blocks>>
swapVars == <<m, pgfault_num, step, check_rp, stored>>
inputVars == <<down, wire, kbd, com, shift, buf, rpos, wpos, got>>
screenVars == <<crt_buf, crt_pos, line, reading>>
traceVars == <<prog, readable, calls>>
partsVars == <<part, timerVars, frameVars, heapVars, swapVars, inputVars, screenVars, t,
               traceVars, pidVars>>

\* Two regions of memory with a hole before, between and behind.
TwoRegions == <<<<1, 5>>, <<7, 2>>>>

\* The right control key, which sends E0 first, and A.
SomeKeys == {<<TRUE, 29>>, <<FALSE, 30>>}

\* Nodes with data of their own but for two pairs of equals.
SomeData == [n \in Node |-> IF n \in {2, 6} THEN n - 1 ELSE n]

Timers == INSTANCE TimerList
Heap == INSTANCE KernelHeap
Checks == INSTANCE BootChecks WITH
  npage <- SwapFrames, Mm <- {mm}, PTSIZE <- 8, USERBASE <- 1, USERTOP <- 8, Value <- {0}
Input == INSTANCE ConsoleInput WITH Keys <- SomeKeys
Screen == INSTANCE Monitor WITH Prompt <- <<75, 62>>, Answer <- <<63, 10>>
Tree == INSTANCE RbTree WITH data <- SomeData
Trace == INSTANCE StackTrace

\* What the parts assume of their constants.
ASSUME PartsAssumption ==
  /\ Timers!TimerAssumption /\ Heap!HeapAssumption
  /\ Checks!CheckAssumption /\ Screen!ScreenAssumption /\ Tree!NodeAssumption

PartsInit ==
  /\ part \in {"frames", "timers", "heap", "checks", "input", "screen", "tree", "trace", "pids"}
  /\ Init /\ Timers!Init /\ Heap!Init /\ Checks!Init
  /\ Input!Init /\ Screen!Init /\ Tree!Init /\ Trace!Init /\ PidInit
  /\ part # "screen" => crt_pos = 0
  /\ part # "trace" => \A i \in 1 .. Length : prog[i] = "asm" /\ readable

FramesMove == /\ part = "frames" /\ Next
              /\ UNCHANGED <<part, pidVars, timerVars, heapVars, swapVars, inputVars, screenVars, t, traceVars>>
TimersMove == /\ part = "timers" /\ Timers!Next
              /\ UNCHANGED <<part, pidVars, frameVars, heapVars, swapVars, inputVars, screenVars, t, traceVars>>
HeapMoves == /\ part = "heap" /\ Heap!Next
             /\ UNCHANGED <<part, pidVars, frameVars, timerVars, swapVars, inputVars, screenVars, t, traceVars>>
ChecksMove == /\ part = "checks" /\ Checks!Next
              /\ UNCHANGED <<part, pidVars, frameVars, timerVars, heapVars, inputVars, screenVars, t, traceVars>>
InputMoves == /\ part = "input" /\ Input!Next
              /\ UNCHANGED <<part, pidVars, frameVars, timerVars, heapVars, swapVars, screenVars, t, traceVars>>
ScreenMoves == /\ part = "screen" /\ Screen!Next
               /\ UNCHANGED <<part, pidVars, frameVars, timerVars, heapVars, swapVars, inputVars, t, traceVars>>
TreeMoves == /\ part = "tree" /\ Tree!Next
             /\ UNCHANGED <<part, pidVars, frameVars, timerVars, heapVars, swapVars, inputVars, screenVars, traceVars>>

TraceMoves == /\ part = "trace" /\ Trace!Next
              /\ UNCHANGED <<part, pidVars, frameVars, timerVars, heapVars, swapVars, inputVars, screenVars, t>>

PidsMove == /\ part = "pids" /\ PidNext
            /\ UNCHANGED <<part, frameVars, timerVars, heapVars, swapVars, inputVars, screenVars, t,
                           traceVars>>

PartsNext == \/ FramesMove \/ TimersMove \/ HeapMoves \/ ChecksMove
             \/ InputMoves \/ ScreenMoves \/ TreeMoves \/ TraceMoves \/ PidsMove

PartsSpec == PartsInit /\ [][PartsNext]_partsVars

\* Only a call of get_pid is known to go on.
FairPartsSpec == PartsSpec /\ PidFairness

----------------------------------------------------------------------------
\* The properties of the parts, under their names; what they say of the code is
\* said where they are defined.  A part that does not move is as it began.
\* FreeListIsSound and ImplementsPool are FirstFit's own; PidsDistinct,
\* TakesTheNextFree and GetPidReturns are GetPid's.

\* kmalloc and kfree keep their ring and every unit of memory: see KernelHeap.
HeapIsSound == part = "heap" => Heap!HeapIsSound

\* What the kernel checks about its memory at boot passes: see BootChecks.
CheckPasses == part = "checks" => Checks!CheckPasses

\* No key remains held down for the console: see ConsoleInput.
NoStuckModifier == part = "input" => Input!NoStuckModifier

\* What the user sees is what the monitor will be given: see Monitor.
ScreenShowsLine == part = "screen" => Screen!ScreenShowsLine

\* A backtrace names the calls in progress: see StackTrace.
BacktraceNamesCalls == part = "trace" => Trace!BacktraceNamesCalls

\* rb_insert and rb_delete leave a red-black tree: see RbTree.
TreeIsSound == part = "tree" => Tree!TreeIsSound

\* A timer fires when its ticks have passed, and in its turn: see TimerList.
ImplementsTimers == Timers!ImplementsTimers

\* cons_getc gives the characters in the order they came in: see ConsoleInput.
ImplementsQueue == Input!ImplementsQueue

\* The red-black tree is a sorted list: see RbTree.
ImplementsList == Tree!ImplementsList
=============================================================================
