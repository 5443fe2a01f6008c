----------------------------- MODULE StackTrace -----------------------------
(***************************************************************************)
(* The backtrace of kern/debug/kdebug.c: print_stackframe follows the      *)
(* saved frames and, for each, looks for the instruction's file, function  *)
(* and line in the table of stabs that the compiler leaves in the image.   *)
(*                                                                         *)
(* The compiler is external: Stabs is what gcc and the assembler write for *)
(* a program, here a sequence of instructions of Width addresses, each of  *)
(* which says what begins with it.  The kernel and the user's program have *)
(* a table each; the same program stands for both.                         *)
(***************************************************************************)
EXTENDS Integers, Sequences, SequencesExt, FiniteSetsExt

CONSTANTS Length,            \* instructions of a program
          MaxCalls,          \* calls in progress: a bound for TLC
          STACKFRAME_DEPTH

VARIABLES prog,       \* what begins at each instruction
          readable,   \* the process has memory and its table can be read
          calls       \* <<space, instruction>> of the calls in progress,
                      \* the innermost first

vars == <<prog, readable, calls>>

Width == 2
Address(i) == Width * i

\* "file" and "asm" begin a source file, "file" its first function too; "line"
\* is a line of that file and "header" a line of code taken from a header.
Steps == {"file", "asm", "fun", "line", "header", "same"}

Latest(i, steps) == Max({0} \union {j \in 1 .. i : prog[j] \in steps})
FileOf(i) == Latest(i, {"file", "asm"})
InC(i) == prog[FileOf(i)] = "file"
FunOf(i) == Latest(i, {"file", "fun"})
LineOf(i) == Latest(i, Steps \ {"same"})
InHeader(i) == prog[LineOf(i)] = "header"

----------------------------------------------------------------------------
\* The table the compiler writes, numbered from 0.  The value of an SLINE counts
\* from its function; in assembler files there is none.
Stab(type, value, desc, name) == [type |-> type, value |-> value, desc |-> desc, name |-> name]

SLine(i) == <<Stab("SLINE", IF InC(i) THEN Address(i) - Address(FunOf(i)) ELSE Address(i), i, 0)>>

\* Each function has variables of its own, listed with their block behind its
\* lines.
EndOfFun(i) == IF i > 1 /\ InC(i - 1) THEN <<Stab("OTHER", 0, 0, 0)>> ELSE <<>>

EndOfFile(i) ==
  IF i > 1 /\ InC(i - 1) THEN EndOfFun(i) \o <<Stab("SO", Address(i), 0, 0)>> ELSE <<>>

FromFile(i) ==
  IF i > 1 /\ InHeader(i - 1) THEN <<Stab("SOL", Address(i), 0, <<"file", FileOf(i)>>)>> ELSE <<>>

Fun(i) == <<Stab("FUN", Address(i), 0, i), Stab("PSYM", 0, 0, 0)>>

StabsAt(i) ==
  CASE prog[i] = "file"   -> EndOfFile(i) \o <<Stab("SO", Address(i), 0, <<"file", i>>)>>
                               \o Fun(i) \o SLine(i)
    [] prog[i] = "asm"    -> EndOfFile(i) \o <<Stab("SO", Address(i), 0, <<"file", i>>)>> \o SLine(i)
    [] prog[i] = "fun"    -> EndOfFun(i) \o Fun(i) \o FromFile(i) \o SLine(i)
    [] prog[i] = "line"   -> FromFile(i) \o SLine(i)
    [] prog[i] = "header" -> <<Stab("SOL", Address(i), 0, <<"header", i>>)>> \o SLine(i)
    [] prog[i] = "same"   -> <<>>

Stabs ==
  LET all == FlattenSeq([i \in 1 .. Length |-> StabsAt(i)]) \o EndOfFile(Length + 1)
  IN  [n \in 0 .. Len(all) |-> IF n = 0 THEN Stab("UNDF", 0, 0, 0) ELSE all[n]]

----------------------------------------------------------------------------
\* The loop of stab_binsearch: m is the last stab of the type up to the middle.
RECURSIVE Narrow(_, _, _)
Narrow(stabs, type, s) ==
  LET true_m == (s.l + s.r) \div 2
      before == {m \in s.l .. true_m : stabs[m].type = type}
      m == Max(before)
      found == [s EXCEPT !.any_matches = TRUE]
  IN  IF s.l > s.r THEN s
      ELSE Narrow(stabs, type,
             IF before = {} THEN [s EXCEPT !.l = true_m + 1]
             ELSE IF stabs[m].value < s.addr THEN [found EXCEPT !.left = m, !.l = true_m + 1]
             ELSE IF stabs[m].value > s.addr THEN [found EXCEPT !.right = m - 1, !.r = m - 1]
             ELSE [found EXCEPT !.left = m, !.l = m, !.addr = @ + 1])

\* What stab_binsearch makes of the bounds after its loop.
Bounds(stabs, type, s) ==
  LET inside == {m \in s.left + 1 .. s.right : stabs[m].type = type}
  IN  IF ~ s.any_matches THEN [left |-> s.left, right |-> s.left - 1]
      ELSE [left |-> IF inside # {} THEN Max(inside)
                     ELSE IF s.right < s.left THEN s.right ELSE s.left,
            right |-> s.right]

\* stab_binsearch in left .. right: the bounds of what contains addr.  It is
\* not found when left is above right.
StabBinsearch(stabs, left, right, type, addr) ==
  Bounds(stabs, type,
         Narrow(stabs, type, [l |-> left, r |-> right, left |-> left, right |-> right,
                              any_matches |-> FALSE, addr |-> addr]))

Unknown == [found |-> FALSE]

Found(range) == range.left <= range.right

\* What is known when the three searches are done.
Info(stabs, addr, file, fun, line) ==
  LET sources == {m \in file.left .. line.left :
                    \/ stabs[m].type = "SOL"
                    \/ stabs[m].type = "SO" /\ stabs[m].value # 0}
      fn == stabs[fun.left]
  IN  IF file.left = 0 \/ ~ Found(line) THEN Unknown
      ELSE [found |-> TRUE,
            eip_file |-> stabs[Max(sources)].name,
            eip_line |-> stabs[line.right].desc,
            eip_fn_name |-> IF Found(fun) THEN fn.name ELSE 0,
            eip_fn_addr |-> IF Found(fun) THEN fn.value ELSE addr]

\* A line counts from its function, if there is one.
LineSearch(stabs, addr, file, fun) ==
  IF Found(fun)
  THEN StabBinsearch(stabs, fun.left, fun.right, "SLINE", addr - stabs[fun.left].value)
  ELSE StabBinsearch(stabs, file.left, file.right, "SLINE", addr)

\* debuginfo_eip: what one search finds is the range of the next.
FileSearch(stabs, addr) ==
  StabBinsearch(stabs, 0, Cardinality(DOMAIN stabs) - 1, "SO", addr)

FunSearch(stabs, addr, file) ==
  StabBinsearch(stabs, file.left, file.right, "FUN", addr)

DebuginfoEip(space, addr) ==
  LET stabs == Stabs
      file == FileSearch(stabs, addr)
      fun == FunSearch(stabs, addr, file)
      line == LineSearch(stabs, addr, file, fun)
  IN  IF space = "user" /\ ~ readable THEN Unknown
      ELSE Info(stabs, addr, file, fun, line)

\* What a call leaves on the stack.
ReturnTo(i) == Address(i) + Width

\* Faulty variant: the address the call returns to is looked up.
FrameInfoOfReturn(call) == DebuginfoEip(call[1], ReturnTo(call[2]))

\* print_stackframe prints what is known of eip - 1.
FrameInfo(call) == DebuginfoEip(call[1], ReturnTo(call[2]) - 1)

PrintStackframe ==
  [n \in 1 .. Min({Len(calls), STACKFRAME_DEPTH}) |-> FrameInfo(calls[n])]

----------------------------------------------------------------------------
Init ==
  /\ prog \in [1 .. Length -> Steps]
  /\ prog[1] \in {"file", "asm"}
  /\ \A i \in 1 .. Length : InC(i) \/ prog[i] \in {"asm", "line", "same"}
  /\ readable \in BOOLEAN
  /\ calls = <<>>

\* A call, in the kernel or, below it, in the user's program.
Call(space, i) ==
  /\ Len(calls) < MaxCalls
  /\ space = "user" => \A n \in 1 .. Len(calls) : calls[n][1] = "user"
  /\ calls' = <<<<space, i>>>> \o calls
  /\ UNCHANGED <<prog, readable>>

Return ==
  /\ calls # <<>>
  /\ calls' = Tail(calls)
  /\ UNCHANGED <<prog, readable>>

Next == \/ \E space \in {"kernel", "user"}, i \in 1 .. Length : Call(space, i)
        \/ Return

Spec == Init /\ [][Next]_vars

----------------------------------------------------------------------------
\* What identifies the code at an address inside instruction i.
Identifies(info, i, addr) ==
  /\ info.found
  /\ info.eip_file = IF InHeader(i) THEN <<"header", LineOf(i)>> ELSE <<"file", FileOf(i)>>
  /\ info.eip_fn_name = IF InC(i) THEN FunOf(i) ELSE 0
  /\ info.eip_fn_addr = IF InC(i) THEN Address(FunOf(i)) ELSE addr

\* The stab at which the last of the three searches ends.
LineStab(addr) ==
  LET stabs == Stabs
      file == FileSearch(stabs, addr)
      fun == FunSearch(stabs, addr, file)
  IN  stabs[LineSearch(stabs, addr, file, fun).left]

\* The backtrace names the file and function of every call in progress, of its
\* innermost STACKFRAME_DEPTH calls to be exact: code of assembler files and of
\* headers, a call that ends its function and returns to where the next one
\* begins, and a process whose memory is gone included.  The search for a line
\* ends with *region_left at the stab of the line, as the comment of
\* stab_binsearch says.  Outside of the program nothing is found.
BacktraceNamesCalls ==
  LET trace == PrintStackframe
  IN  /\ Len(trace) = Min({Len(calls), STACKFRAME_DEPTH})
      /\ \A n \in 1 .. Len(trace) :
           LET space == calls[n][1]
               i == calls[n][2]
           IN  IF space = "user" /\ ~ readable THEN ~ trace[n].found
               ELSE Identifies(trace[n], i, Address(i) + Width - 1)
      /\ calls = <<>> =>
           /\ \A i \in 1 .. Length :
                /\ Identifies(DebuginfoEip("kernel", Address(i)), i, Address(i))
                /\ LineStab(Address(i)).desc = LineOf(i)
           /\ ~ DebuginfoEip("kernel", Address(1) - 1).found
           /\ InC(Length) => ~ DebuginfoEip("kernel", Address(Length + 1)).found

\* The backtrace gives the line of every call that it knows.  debuginfo_eip says
\* so where it sets eip_line: "If found, set info->eip_line to the right line
\* number."
BacktraceGivesLines ==
  LET trace == PrintStackframe
  IN  \A n \in 1 .. Len(trace) :
        trace[n].found => trace[n].eip_line = LineOf(calls[n][2])
=============================================================================
