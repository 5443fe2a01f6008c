---------------------------- MODULE OrderedList ----------------------------
(***************************************************************************)
(* What a red-black tree promises to those who use it: its nodes in the    *)
(* order of their data, a node that comes in behind those that are equal.  *)
(***************************************************************************)
EXTENDS Integers, Sequences, SequencesExt, FiniteSetsExt

CONSTANTS Node, data

VARIABLE list

TypeOK == list \in Seq(Node)

Init == list = <<>>

\* The number of nodes that stay before n.
NotGreater(n) == Cardinality({m \in ToSet(list) : data[m] <= data[n]})

Insert(n) == /\ n \notin ToSet(list)
             /\ list' = InsertAt(list, NotGreater(n) + 1, n)

Delete(n) == n \in ToSet(list) /\ list' = Remove(list, n)

Next == \E n \in Node : Insert(n) \/ Delete(n)

Spec == Init /\ [][Next]_list
=============================================================================
