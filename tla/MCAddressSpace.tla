--------------------------- MODULE MCAddressSpace ---------------------------
(***************************************************************************)
(* Two page tables map user pages 1 .. 5: one page of text, two of data    *)
(* that lie in both tables, and two of stack, the upper one allocated at   *)
(* once.                                                                   *)
(***************************************************************************)
EXTENDS AddressSpace, TLC

Text == [va |-> 1, filesz |-> 1, memsz |-> 1, flags |-> {"read", "exec"}]
Data == [va |-> 2, filesz |-> 1, memsz |-> 2, flags |-> {"read", "write"}]
Empty == [va |-> 3, filesz |-> 0, memsz |-> 1, flags |-> {"read"}]

Image(magic, segs) == [magic |-> magic, segs |-> segs]

\* A program, in which a segment without a file part is passed over; and files
\* with a wrong magic number, a segment that is longer than its memory, and
\* one that lies under the stack.
SomeImages ==
  {Image(TRUE, <<Text, Data, Empty>>),
   Image(FALSE, <<Text, Data>>),
   Image(TRUE, <<Text, [Data EXCEPT !.filesz = 3]>>),
   Image(TRUE, <<Text, [Data EXCEPT !.memsz = 3]>>)}

Symmetry == Permutations(Procs)
=============================================================================
