------------------------------- MODULE RbTree -------------------------------
(***************************************************************************)
(* The red-black tree of kern/libs/rb_tree.c.                              *)
(*                                                                         *)
(* Two nodes belong to the tree itself: nil stands for every missing child *)
(* and has a parent while rb_delete works on it, and root, above the tree, *)
(* has the tree for its left child.  The two sides are told apart by the   *)
(* name of the field, as the macros of the source do it.                   *)
(*                                                                         *)
(* Nothing in the kernel calls the tree yet.  Its caller here inserts and  *)
(* deletes nodes in any order, as check_rb_tree does in some.              *)
(***************************************************************************)
EXTENDS Integers, Sequences

CONSTANTS Node,          \* what the caller can insert
          data,          \* their data: the integers that order them
          nil, root      \* the nodes of the tree itself

NodeAssumption == /\ nil # root /\ {nil, root} \intersect Node = {}
                         /\ data \in [Node -> Int]

VARIABLE t               \* the tree: the fields of all nodes, and failed, set
                         \* when an assertion is broken

All == Node \union {nil, root}

Other(side) == IF side = "left" THEN "right" ELSE "left"

\* rb_tree_create.  A tree that lacks one of its three blocks is not returned.
Init == t = [parent |-> [n \in All |-> nil], left |-> [n \in All |-> nil],
             right |-> [n \in All |-> nil], red |-> [n \in All |-> FALSE],
             failed |-> FALSE]

Empty == t.left[root] = nil

----------------------------------------------------------------------------
\* The field of the parent that is taken to point to the node.
SideOf(u, n) == IF u.left[u.parent[n]] = n THEN "left" ELSE "right"

Failing(u, broken) == [u EXCEPT !.failed = @ \/ broken]

Painted(u, n, red) == [u EXCEPT !.red[n] = red]

\* FUNC_ROTATE: the child on the far side takes the place of x.
Rotate(u, x, side) ==
  LET far == Other(side)
      y == u[far][x]
      between == u[side][y]
      turned == [u EXCEPT ![far][x] = between,
                          ![SideOf(u, x)][u.parent[x]] = y,
                          ![side][y] = x,
                          !.parent[y] = u.parent[x],
                          !.parent[x] = y]
  IN  Failing(IF between # nil THEN [turned EXCEPT !.parent[between] = x] ELSE turned,
              x \in {root, nil} \/ y = nil \/ u.red[nil])

\* Where the descent of rb_insert_binary from x ends.
RECURSIVE Bottom(_, _, _, _)
Bottom(u, y, x, n) ==
  IF x = nil THEN y
  ELSE Bottom(u, x, IF data[x] > data[n] THEN u.left[x] ELSE u.right[x], n)

\* Faulty variant: ">=" where the node is linked, ">" on the way down.
InsertBinaryBeforeEqual(u, n) ==
  LET y == Bottom(u, root, u.left[root], n)
      side == IF y = root \/ data[y] >= data[n] THEN "left" ELSE "right"
  IN  [u EXCEPT !.left[n] = nil, !.right[n] = nil, !.parent[n] = y, ![side][y] = n]

\* rb_insert_binary
InsertBinary(u, n) ==
  LET y == Bottom(u, root, u.left[root], n)
      side == IF y = root \/ data[y] > data[n] THEN "left" ELSE "right"
  IN  [u EXCEPT !.left[n] = nil, !.right[n] = nil, !.parent[n] = y, ![side][y] = n]

\* The loop of rb_insert.  A red uncle takes the conflict two levels up; a
\* black one ends it with one rotation or two.
RECURSIVE InsertFixup(_, _)
InsertFixup(u, x) ==
  LET p == u.parent[x]
      g == u.parent[p]
      side == SideOf(u, p)
      uncle == u[Other(side)][g]
      inner == x = u[Other(side)][p]
      v == IF inner THEN Rotate(u, p, side) ELSE u
      q == IF inner THEN x ELSE p
  IN  IF ~ u.red[p] THEN u
      ELSE IF u.red[uncle]
      THEN InsertFixup(Painted(Painted(Painted(u, p, FALSE), uncle, FALSE), g, TRUE), g)
      ELSE Rotate(Painted(Painted(v, q, FALSE), g, TRUE), g, Other(side))

\* rb_insert
Inserted(n) ==
  LET u == InsertFixup(Painted(InsertBinary(t, n), n, TRUE), n)
      v == Painted(u, u.left[root], FALSE)
  IN  Failing(v, v.red[nil] \/ v.red[root])

----------------------------------------------------------------------------
\* The end of the path from n that follows the fields of one side.
RECURSIVE Far(_, _, _)
Far(u, n, side) == IF u[side][n] = nil THEN n ELSE Far(u, u[side][n], side)

\* The first node above x that is not left by the field of that side.
RECURSIVE UpFrom(_, _, _)
UpFrom(u, x, side) ==
  LET y == u.parent[x]
  IN  IF x # u[side][y] THEN y
      ELSE IF y = root THEN nil ELSE UpFrom(u, y, side)

\* rb_tree_successor; root is above the last node.
Successor(u, n) ==
  IF u.right[n] # nil THEN Far(u, u.right[n], "left")
  ELSE LET y == UpFrom(u, n, "right") IN IF y = root THEN nil ELSE y

\* rb_tree_predecessor: root is left by its left field.
Predecessor(u, n) ==
  IF u.left[n] # nil THEN Far(u, u.left[n], "right") ELSE UpFrom(u, n, "left")

----------------------------------------------------------------------------
\* The part of RB_DELETE_FIXUP_SUB that ends the loop: the brother w of x is
\* black and has a red child.
Borrow(u, x, w, side) ==
  LET far == Other(side)
      p == u.parent[x]
      turn == ~ u.red[u[far][w]]
      v == IF turn
           THEN Rotate(Painted(Painted(u, u[side][w], FALSE), w, TRUE), w, far)
           ELSE u
      b == v[far][p]
  IN  Rotate(Painted(Painted(Painted(v, b, v.red[p]), p, FALSE), v[far][b], FALSE),
             p, side)

\* rb_delete_fixup.  What was the top of the tree when the loop began is where
\* it ends, even when a rotation has put another node above it.
RECURSIVE DeleteFixup(_, _, _)
DeleteFixup(u, x, top) ==
  LET p == u.parent[x]
      side == SideOf(u, x)
      far == Other(side)
      brother == u[far][p]
      v == IF u.red[brother]
           THEN Rotate(Painted(Painted(u, brother, FALSE), p, TRUE), p, side)
           ELSE u
      w == v[far][p]
  IN  IF x = top \/ u.red[x] THEN Painted(u, x, FALSE)
      ELSE IF ~ v.red[v.left[w]] /\ ~ v.red[v.right[w]]
      THEN DeleteFixup(Painted(v, w, TRUE), p, top)
      ELSE Painted(Borrow(v, x, w, side), top, FALSE)

\* Faulty variant: the colour that is lost is that of the node itself.
LostColour(u, y, z) == u.red[z]

\* The colour that leaves its place: need_fixup is set when it is black.
Lost(u, y, z) == u.red[y]

\* *y = *z: the fields of z, its colour too, are those of y now.
Replaced(u, y, z) ==
  LET above == [u EXCEPT ![SideOf(u, z)][u.parent[z]] = y]
      below == [above EXCEPT !.parent[above.left[z]] = y, !.parent[above.right[z]] = y]
  IN  [below EXCEPT !.parent[y] = below.parent[z], !.left[y] = below.left[z],
                    !.right[y] = below.right[z], !.red[y] = below.red[z]]

\* rb_delete: z itself, or its successor when it has two children, is taken
\* from its place, and the successor comes in the place of z.
Deleted(z) ==
  LET y == IF t.left[z] = nil \/ t.right[z] = nil THEN z ELSE Successor(t, z)
      x == IF t.left[y] # nil THEN t.left[y] ELSE t.right[y]
      out == [t EXCEPT !.parent[x] = t.parent[y], ![SideOf(t, y)][t.parent[y]] = x]
      u == Failing(IF y # z THEN Replaced(out, y, z) ELSE out, y \in {root, nil})
  IN  IF ~ Lost(t, y, z) THEN DeleteFixup(u, x, u.left[root]) ELSE u

\* Nobody reads the fields of a node that is not in the tree, nor the parent of
\* nil, before they are written again: they are forgotten.
Forgotten(u, gone) ==
  [u EXCEPT !.parent = [n \in All |-> IF n \in gone \union {nil} THEN nil ELSE @[n]],
            !.left = [n \in All |-> IF n \in gone THEN nil ELSE @[n]],
            !.right = [n \in All |-> IF n \in gone THEN nil ELSE @[n]],
            !.red = [n \in All |-> n \notin gone /\ @[n]]]

----------------------------------------------------------------------------
\* rb_search: the highest node with this data.
RECURSIVE Below(_, _, _)
Below(u, n, d) ==
  IF n = nil \/ data[n] = d THEN n
  ELSE Below(u, IF data[n] > d THEN u.left[n] ELSE u.right[n], d)

Search(d) == Below(t, t.left[root], d)

\* The nodes below n in order, as rb_node_left and rb_node_right lead to them.
RECURSIVE InOrder(_, _)
InOrder(u, n) ==
  IF n = nil THEN <<>> ELSE InOrder(u, u.left[n]) \o <<n>> \o InOrder(u, u.right[n])

Order == InOrder(t, t.left[root])

InTree == {Order[i] : i \in 1 .. Len(Order)}

Insert(n) == n \notin InTree /\ t' = Inserted(n)

Delete(n) == n \in InTree /\ t' = Forgotten(Deleted(n), {n})

Next == \E n \in Node : Insert(n) \/ Delete(n)

Spec == Init /\ [][Next]_t

----------------------------------------------------------------------------
\* check_tree: the black nodes from n to every nil below it, or -1.
RECURSIVE BlackHeight(_, _)
BlackHeight(u, n) ==
  LET l == u.left[n]
      r == u.right[n]
      hl == BlackHeight(u, l)
      linked == /\ l # nil => data[n] >= data[l] /\ u.parent[l] = n
                /\ r # nil => data[n] <= data[r] /\ u.parent[r] = n
                /\ u.red[n] => ~ u.red[l] /\ ~ u.red[r]
  IN  IF n = nil THEN (IF u.red[nil] THEN -1 ELSE 1)
      ELSE IF ~ linked \/ hl = -1 \/ hl # BlackHeight(u, r) THEN -1
      ELSE hl + (IF u.red[n] THEN 0 ELSE 1)

\* After any insertions and deletions, of equal nodes too, check_tree finds no
\* fault, no assertion of a rotation was broken, a search finds a node exactly
\* when one has that data, and rb_node_next and rb_node_prev walk through the
\* same order from both ends.
TreeIsSound ==
  LET order == Order
      n == Len(order)
  IN  /\ ~ t.failed
      /\ BlackHeight(t, t.left[root]) # -1
      /\ Empty <=> n = 0
      /\ \A i \in 1 .. n :
           /\ Successor(t, order[i]) = IF i < n THEN order[i + 1] ELSE nil
           /\ Predecessor(t, order[i]) = IF i > 1 THEN order[i - 1] ELSE nil
      /\ \A d \in {data[m] : m \in Node} :
           IF \E i \in 1 .. n : data[order[i]] = d
           THEN Search(d) # nil /\ data[Search(d)] = d
           ELSE Search(d) = nil

Sorted == INSTANCE OrderedList WITH list <- Order

\* The tree is a sorted list: rotations move no node out of its place, what is
\* inserted comes behind its equals, and only the node that is deleted leaves,
\* although it is another one that is taken out of its place.
ImplementsList == Sorted!Spec
=============================================================================
