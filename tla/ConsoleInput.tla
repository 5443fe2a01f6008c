---------------------------- MODULE ConsoleInput ----------------------------
(***************************************************************************)
(* The input of kern/driver/console.c: the keyboard and the serial port    *)
(* hold what has come in until cons_getc, called by their interrupts or by *)
(* readline, moves all of it to a ring buffer and takes one character.     *)
(*                                                                         *)
(* The hardware is external.  A key sends a byte when it goes down and the *)
(* byte + 128 when it goes up, some keys with a byte E0 before; the kernel *)
(* may come between the two.  cons_getc runs with interrupts disabled.     *)
(***************************************************************************)
EXTENDS Integers, Sequences, SequencesExt, FiniteSetsExt

CONSTANTS CONSBUFSIZE,
          Keys,        \* keys of the keyboard: <<TRUE if after E0, code>>
          SerialChars, \* what comes in from the serial port
          MaxPending   \* bytes that wait in a device: a bound for TLC

VARIABLES down,        \* the keys that are held down
          wire,        \* bytes the keyboard has yet to send
          kbd,         \* bytes in the keyboard controller
          com,         \* bytes in the serial port
          shift,       \* the flags of the keys seen so far
          buf, rpos, wpos,
          got          \* what the last cons_getc returned

keyboard == <<down, wire>>
ring == <<buf, rpos, wpos>>
vars == <<keyboard, kbd, com, shift, ring, got>>

E0 == 224
KEY_DEL == 233
Released(byte) == byte >= 128

\* shiftcode and togglecode, as sets of flags
shiftcode(code) ==
  CASE code \in {42, 54}  -> {"SHIFT"}
    [] code \in {29, 157} -> {"CTL"}
    [] code \in {56, 184} -> {"ALT"}
    [] OTHER -> {}
togglecode(code) ==
  CASE code = 58 -> {"CAPSLOCK"}
    [] code = 69 -> {"NUMLOCK"}
    [] code = 70 -> {"SCROLLLOCK"}
    [] OTHER -> {}

\* The letters of normalmap, a row of keys after the other; 0 for other keys.
normalmap(code) ==
  CASE code \in 16 .. 25 -> <<113, 119, 101, 114, 116, 121, 117, 105, 111, 112>>[code - 15]
    [] code \in 30 .. 38 -> <<97, 115, 100, 102, 103, 104, 106, 107, 108>>[code - 29]
    [] code \in 44 .. 50 -> <<122, 120, 99, 118, 98, 110, 109>>[code - 43]
    [] OTHER -> 0

\* charcode[shift & (CTL | SHIFT)][code]: the letters, enter, backspace and
\* delete; the other keys are like these.  0 where the maps have NO.
charcode(flags, code) ==
  IF normalmap(code) # 0
  THEN normalmap(code) - (IF "CTL" \in flags THEN 96
                          ELSE IF "SHIFT" \in flags THEN 32 ELSE 0)
  ELSE CASE code = 28 -> IF "CTL" \in flags THEN 13 ELSE 10
         [] code = 14 -> IF "CTL" \in flags THEN 0 ELSE 8
         [] code = 211 -> KEY_DEL
         [] OTHER -> 0

\* CAPSLOCK exchanges small and capital letters.
Capsed(c) == IF c \in 97 .. 122 THEN c - 32 ELSE IF c \in 65 .. 90 THEN c + 32 ELSE c

\* Faulty variant: a released key leaves the E0 flag as it is.
ReleasedKeepsE0(flags, byte) == flags \ shiftcode(IF "E0ESC" \in flags THEN byte ELSE byte - 128)

\* The flags after a released key.
AfterRelease(flags, byte) ==
  flags \ (shiftcode(IF "E0ESC" \in flags THEN byte ELSE byte - 128) \union {"E0ESC"})

\* kbd_proc_data of one byte: the flags and the character, 0 for none.
KbdProcData(flags, byte) ==
  LET code == IF "E0ESC" \in flags THEN byte + 128 ELSE byte
      pressed == (flags \ {"E0ESC"}) \union shiftcode(code)
      toggled == (pressed \ togglecode(code)) \union (togglecode(code) \ pressed)
      c == charcode(toggled, code)
  IN  CASE byte = E0 -> [flags |-> flags \union {"E0ESC"}, c |-> 0]
        [] Released(byte) /\ byte # E0 -> [flags |-> AfterRelease(flags, byte), c |-> 0]
        [] OTHER -> [flags |-> toggled, c |-> IF "CAPSLOCK" \in toggled THEN Capsed(c) ELSE c]

\* serial_proc_data
SerialProcData(byte) == IF byte = 127 THEN 8 ELSE byte

Inc(pos) == IF pos + 1 = CONSBUFSIZE THEN 0 ELSE pos + 1

\* Faulty variant: a 0, which is no character, is stored too.
StoreAll(r, c) == [r EXCEPT !.buf[r.wpos] = c, !.wpos = Inc(@)]

\* cons_intr stores a character.  It does not look at rpos.
Store(r, c) == IF c = 0 THEN r ELSE [r EXCEPT !.buf[r.wpos] = c, !.wpos = Inc(@)]

\* serial_intr and kbd_intr: everything that waits.
SerialIntr(r) == FoldLeft(LAMBDA s, byte : Store(s, SerialProcData(byte)), r, com)
KbdIntr(r) ==
  FoldLeft(LAMBDA s, byte : LET k == KbdProcData(s.shift, byte)
                            IN  [Store(s, k.c) EXCEPT !.shift = k.flags], r, kbd)

Init ==
  /\ down = {} /\ wire = <<>> /\ kbd = <<>> /\ com = <<>>
  /\ shift = {}
  /\ buf = [i \in 0 .. CONSBUFSIZE - 1 |-> 0] /\ rpos = 0 /\ wpos = 0
  /\ got = 0

\* A key goes down or up.
Key(k) ==
  LET byte == IF k \in down THEN k[2] + 128 ELSE k[2]
  IN  /\ wire = <<>>
      /\ down' = IF k \in down THEN down \ {k} ELSE down \union {k}
      /\ wire' = IF k[1] THEN <<E0, byte>> ELSE <<byte>>
      /\ UNCHANGED <<kbd, com, shift, ring, got>>

Send ==
  /\ wire # <<>> /\ Len(kbd) < MaxPending
  /\ kbd' = Append(kbd, Head(wire))
  /\ wire' = Tail(wire)
  /\ UNCHANGED <<down, com, shift, ring, got>>

Receive(c) ==
  /\ Len(com) < MaxPending
  /\ com' = Append(com, c)
  /\ UNCHANGED <<keyboard, kbd, shift, ring, got>>

\* cons_getc: 0 when the ring looks empty.
Getc ==
  LET r == KbdIntr(SerialIntr([buf |-> buf, wpos |-> wpos, shift |-> shift]))
  IN  /\ buf' = r.buf /\ wpos' = r.wpos /\ shift' = r.shift
      /\ kbd' = <<>> /\ com' = <<>>
      /\ IF rpos # wpos' THEN got' = buf'[rpos] /\ rpos' = Inc(rpos)
                         ELSE got' = 0 /\ UNCHANGED rpos
      /\ UNCHANGED keyboard

Next == \/ \E k \in Keys : Key(k)
        \/ Send
        \/ \E c \in SerialChars : Receive(c)
        \/ Getc

Spec == Init /\ [][Next]_vars

----------------------------------------------------------------------------
\* When all keys are up and all bytes have been seen no flag of a key is left,
\* wherever the kernel came between the bytes; only toggles may be on.
NoStuckModifier ==
  down = {} /\ wire = <<>> /\ kbd = <<>> =>
    shift \intersect {"SHIFT", "CTL", "ALT", "E0ESC"} = {}

\* The characters between rpos and wpos.
Unread ==
  [i \in 1 .. (wpos - rpos + CONSBUFSIZE) % CONSBUFSIZE |-> buf[(rpos + i - 1) % CONSBUFSIZE]]

\* The characters in the devices, in the order in which they are asked.
Decoded ==
  LET seen[i \in 0 .. Len(kbd)] == IF i = 0 THEN [flags |-> shift, c |-> 0]
                                   ELSE KbdProcData(seen[i - 1].flags, kbd[i])
  IN  SelectSeq([i \in DOMAIN com |-> SerialProcData(com[i])]
                  \o [i \in DOMAIN kbd |-> seen[i].c],
                LAMBDA c : c # 0)

Queue == INSTANCE InputQueue WITH
  waiting <- Decoded, queue <- Unread, Room <- CONSBUFSIZE - 1

\* cons_getc gives the characters in the order they came in; some are lost only
\* when one more comes in than the ring has room for, and then all that wait
\* are lost, because a full ring looks like an empty one.
ImplementsQueue == Queue!Spec
=============================================================================
