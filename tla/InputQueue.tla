----------------------------- MODULE InputQueue -----------------------------
(***************************************************************************)
(* What the console promises to those who read from it: characters wait    *)
(* in the devices until somebody asks for one, then all of them go to a    *)
(* queue and the first is given out.  The queue has room for so many; one  *)
(* more, and the queue is empty.                                           *)
(***************************************************************************)
EXTENDS Naturals, Sequences, SequencesExt

CONSTANT Room

VARIABLES waiting,     \* characters in the devices, the oldest first
          queue,
          got          \* the character given out, 0 if there was none

Init == waiting = <<>> /\ queue = <<>> /\ got = 0

Put(q, c) == IF Len(q) = Room THEN <<>> ELSE Append(q, c)

\* One more waits; no device takes back what it has.
OneMore(new, old) ==
  /\ Len(new) = Len(old) + 1
  /\ \E i \in 1 .. Len(new) : RemoveAt(new, i) = old

Arrive == /\ UNCHANGED <<queue, got>>
          /\ OneMore(waiting', waiting)

Get ==
  LET all == FoldLeft(Put, queue, waiting)
  IN  /\ waiting' = <<>>
      /\ IF all = <<>> THEN got' = 0 /\ queue' = <<>>
                       ELSE got' = Head(all) /\ queue' = Tail(all)

Next == Arrive \/ Get

Spec == Init /\ [][Next]_<<waiting, queue, got>>
=============================================================================
