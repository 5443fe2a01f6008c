------------------------------ MODULE Monitor ------------------------------
(***************************************************************************)
(* The screen of kern/driver/console.c and those who write to it while the *)
(* kernel monitor runs: readline of kern/libs/readline.c echoes what is    *)
(* typed, and kmonitor prints prompts and the results of commands.         *)
(*                                                                         *)
(* The monitor runs after a panic, with interrupts disabled.  A character  *)
(* that ConsoleInput hands out is one step.  What also goes to the printer *)
(* and the serial port is not modelled: a backspace is sent as three       *)
(* characters, and nothing depends on it.                                  *)
(***************************************************************************)
EXTENDS Integers, Sequences, SequencesExt, FiniteSetsExt

CONSTANTS CRT_ROWS, CRT_COLS,
          BUFSIZE,     \* of readline
          Typed,       \* characters that are typed
          Prompt,      \* the prompt, a sequence of characters
          Answer       \* what a command prints, with the end of the line

CRT_SIZE == CRT_ROWS * CRT_COLS
Space == 32
BS == 8
LF == 10
CR == 13

\* A line, less its end, fits on the screen below the first row.
ScreenAssumption ==
  /\ CRT_ROWS \in Nat \ {0, 1} /\ CRT_COLS \in Nat \ {0}
  /\ BUFSIZE \in Nat \ {0} /\ BUFSIZE - 1 <= CRT_SIZE - CRT_COLS
  /\ Typed \subseteq 1 .. 255

VARIABLES crt_buf, crt_pos,
          line,        \* buf[0 .. i-1] of readline
          reading      \* readline waits for a character

vars == <<crt_buf, crt_pos, line, reading>>

\* The cursor is where the firmware left it.
Init ==
  /\ crt_buf = [i \in 0 .. CRT_SIZE - 1 |-> Space]
  /\ crt_pos \in 0 .. CRT_SIZE - 1
  /\ line = <<>>
  /\ reading = FALSE

----------------------------------------------------------------------------
\* What the character does at the cursor, s.pos.
Written(s, c) ==
  CASE c = BS -> IF s.pos > 0 THEN [buf |-> [s.buf EXCEPT ![s.pos - 1] = Space],
                                    pos |-> s.pos - 1]
                 ELSE s
    [] c = LF -> [s EXCEPT !.pos = s.pos + CRT_COLS - (s.pos % CRT_COLS)]
    [] c = CR -> [s EXCEPT !.pos = s.pos - (s.pos % CRT_COLS)]
    [] OTHER  -> [buf |-> [s.buf EXCEPT ![s.pos] = c], pos |-> s.pos + 1]

\* Behind the last cell all rows move up by one.
Scrolled(s) ==
  IF s.pos < CRT_SIZE THEN s
  ELSE [buf |-> [i \in 0 .. CRT_SIZE - 1 |->
                   IF i + CRT_COLS < CRT_SIZE THEN s.buf[i + CRT_COLS] ELSE Space],
        pos |-> s.pos - CRT_COLS]

\* cga_putc, of one character and of a sequence of them (cputs, cprintf).
Putc(s, c) == Scrolled(Written(s, c))
Puts(s, text) == FoldLeft(Putc, s, text)

Shows(s) == crt_buf' = s.buf /\ crt_pos' = s.pos
Screen == [buf |-> crt_buf, pos |-> crt_pos]

----------------------------------------------------------------------------
\* readline prints the prompt.
Ask ==
  /\ ~ reading
  /\ Shows(Puts(Screen, Prompt))
  /\ line' = <<>>
  /\ reading' = TRUE

Type(c) ==
  /\ reading
  /\ c >= Space /\ Len(line) < BUFSIZE - 1
  /\ Shows(Putc(Screen, c))
  /\ line' = Append(line, c)
  /\ UNCHANGED reading

\* Faulty variant: a backspace is echoed at the start of the line, too.
EraseAlways(c) ==
  /\ reading
  /\ c = BS
  /\ Shows(Putc(Screen, c))
  /\ line' = IF line = <<>> THEN line ELSE Front(line)
  /\ UNCHANGED reading

Erase(c) ==
  /\ reading
  /\ c = BS /\ line # <<>>
  /\ Shows(Putc(Screen, c))
  /\ line' = Front(line)
  /\ UNCHANGED reading

\* The words parse finds: they start where white space, or nothing, is before.
White(c) == c \in {Space, 9, LF, CR}
Words(text) ==
  {i \in 1 .. Len(text) : ~ White(text[i]) /\ (i > 1 => White(text[i - 1]))}

\* The end of the line.  When there is a word in it runcmd prints something,
\* if only that it does not know the command.
Enter(c) ==
  /\ reading
  /\ c \in {LF, CR}
  /\ Shows(Puts(Screen, <<c>> \o (IF Words(line) = {} THEN <<>> ELSE Answer)))
  /\ reading' = FALSE
  /\ UNCHANGED line

Next == \/ Ask
        \/ \E c \in Typed : Type(c) \/ Erase(c) \/ Enter(c)

Spec == Init /\ [][Next]_vars

----------------------------------------------------------------------------
\* While a line is typed the screen shows it before the cursor, after every
\* character and backspace, where the line wraps and where the screen scrolls:
\* what the user sees is what runcmd will be given, and a backspace takes
\* neither the prompt nor the line before it.  The cursor stays on the screen.
ScreenShowsLine ==
  /\ crt_pos \in 0 .. CRT_SIZE - 1
  /\ reading =>
       LET shown == Prompt \o line
           start == crt_pos - Len(shown)
       IN  \A i \in 1 .. Len(shown) :
             start + i - 1 >= 0 => crt_buf[start + i - 1] = shown[i]
  /\ reading => crt_pos >= Len(line)
=============================================================================
