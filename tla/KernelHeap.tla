----------------------------- MODULE KernelHeap -----------------------------
(***************************************************************************)
(* kmalloc and kfree of kern/mm/kmalloc.c: a first-fit heap (SLOB) whose   *)
(* free blocks form a ring sorted by address, and big blocks, which are    *)
(* runs of pages with a descriptor in the heap.                            *)
(*                                                                         *)
(* Addresses and sizes are in units of SLOB_UNIT, the size of a block's    *)
(* header; page p holds the units from p * PAGE_SIZE on.  The arena lies   *)
(* below all pages, at 0.  The locks disable interrupts, and no interrupt  *)
(* handler allocates: one step for each call.  kmalloc is never asked for  *)
(* an alignment.                                                           *)
(***************************************************************************)
EXTENDS Integers, Sequences, SequencesExt, FiniteSetsExt

CONSTANTS PAGE_SIZE,   \* units in a page
          HeapPages,   \* pages that alloc_pages can give
          Requests,    \* the sizes callers ask for
          BIGBLOCK,    \* units of a bigblock_t
          NULL

VARIABLES heap,        \* a record: slobfree; next and units of the blocks in
                       \* the ring, units of the blocks in use as well; the
                       \* list of big blocks; the free pages
          blocks       \* what callers hold: <<address, size asked for>>

arena == 0
Address == 0 .. (Max(HeapPages) + 1) * PAGE_SIZE - 1

Init ==
  /\ heap = [slobfree |-> arena,
             next |-> [a \in Address |-> IF a = arena THEN arena ELSE NULL],
             units |-> [a \in Address |-> IF a = arena THEN 1 ELSE 0],
             bigblocks |-> <<>>,
             pages |-> HeapPages]
  /\ blocks = {}

InRing(h) == {a \in Address : h.next[a] # NULL}

\* The ring from slobfree on: its i-th block, for i from 0.
Ring(h) ==
  LET ring[i \in 0 .. Cardinality(InRing(h))] ==
        IF i = 0 THEN h.slobfree ELSE h.next[ring[i - 1]]
  IN  ring

----------------------------------------------------------------------------
\* Where the loop of slob_free stops: b belongs behind cur.
After(h, cur, b) ==
  \/ b > cur /\ b < h.next[cur]
  \/ cur >= h.next[cur] /\ (b > cur \/ b < h.next[cur])

\* b takes the block that follows in memory.
JoinNext(h, b, cur) ==
  LET next == h.next[cur]
  IN  IF b + h.units[b] = next
      THEN [h EXCEPT !.units[b] = @ + h.units[next], !.next[b] = h.next[next],
                     !.next[next] = NULL, !.units[next] = 0]
      ELSE [h EXCEPT !.next[b] = next]

\* The block before it in memory takes b.
JoinPrev(h, b, cur) ==
  IF cur + h.units[cur] = b
  THEN [h EXCEPT !.units[cur] = @ + h.units[b], !.next[cur] = h.next[b],
                 !.next[b] = NULL, !.units[b] = 0]
  ELSE [h EXCEPT !.next[cur] = b]

\* slob_free; without a size, the header says how large the block is.
SlobFree(h, b, size) ==
  LET sized == IF size = 0 THEN h ELSE [h EXCEPT !.units[b] = size]
      cur == CHOOSE c \in InRing(h) : After(h, c, b)
  IN  [JoinPrev(JoinNext(sized, b, cur), b, cur) EXCEPT !.slobfree = cur]

\* The number of the first block of the ring with room, or 0.
FirstFit(h, size) ==
  LET ring == Ring(h)
      fits == {i \in DOMAIN ring \ {0} : h.units[ring[i]] >= size}
  IN  IF fits = {} THEN 0 ELSE Min(fits)

\* Faulty variant: the rest of the block is not put back.
TakeWhole(h, prev, cur, size) ==
  [h EXCEPT !.next[prev] = h.next[cur], !.next[cur] = NULL,
            !.units[cur] = size, !.slobfree = prev]

\* A block behind prev is unlinked, but for what is left of it.
Take(h, prev, cur, size) ==
  LET rest == cur + size
  IN  IF h.units[cur] = size
      THEN [h EXCEPT !.next[prev] = h.next[cur], !.next[cur] = NULL, !.slobfree = prev]
      ELSE [h EXCEPT !.next[prev] = rest, !.next[cur] = NULL,
                     !.next[rest] = h.next[cur],
                     !.units[rest] = h.units[cur] - size, !.units[cur] = size,
                     !.slobfree = prev]

\* slob_alloc: a page is added to the ring when no block has room.
SlobAlloc(h, size) ==
  LET page == Min(h.pages)
      grown == IF FirstFit(h, size) # 0 THEN h
               ELSE SlobFree([h EXCEPT !.pages = @ \ {page}], page * PAGE_SIZE, PAGE_SIZE)
      i == FirstFit(grown, size)
      ring == Ring(grown)
  IN  IF FirstFit(h, size) = 0 /\ h.pages = {} THEN [heap |-> h, at |-> NULL]
      ELSE [heap |-> Take(grown, ring[i - 1], ring[i], size), at |-> ring[i]]

----------------------------------------------------------------------------
\* find_order: the size is halved, and what is left over is lost.
find_order(size) == Min({k \in 0 .. size : size \div 2^k <= PAGE_SIZE})

\* Sizes that kmalloc does not serve, and nobody asks for: slob_alloc asserts
\* more than __kmalloc has tested, and find_order gives too few pages.
Refused(size) ==
  \/ size < PAGE_SIZE - 1 /\ size + 2 >= PAGE_SIZE
  \/ size >= PAGE_SIZE - 1 /\ 2^find_order(size) * PAGE_SIZE < size

HeapAssumption ==
  /\ PAGE_SIZE \in Nat /\ PAGE_SIZE > BIGBLOCK + 1
  /\ HeapPages \subseteq Nat \ {0}
  /\ Requests \subseteq Nat \ {0}
  /\ \A size \in Requests : ~ Refused(size)

\* __slob_get_free_pages: the lowest run of free pages, if there is one.
PageRuns(h, n) == {p \in h.pages : p .. p + n - 1 \subseteq h.pages}

\* kmalloc of less than a page less a header; the header comes first.
AllocSmall(size) ==
  LET r == SlobAlloc(heap, size + 1)
  IN  /\ size < PAGE_SIZE - 1
      /\ heap' = r.heap
      /\ blocks' = IF r.at = NULL THEN blocks ELSE blocks \union {<<r.at + 1, size>>}

\* Any other size.  Without pages for it the descriptor is freed again.
AllocBig(size) ==
  LET bb == SlobAlloc(heap, BIGBLOCK)
      order == find_order(size)
      runs == PageRuns(bb.heap, 2^order)
      page == Min(runs)
      big == [at |-> bb.at, order |-> order, pages |-> page * PAGE_SIZE]
  IN  /\ size >= PAGE_SIZE - 1
      /\ IF bb.at = NULL THEN UNCHANGED <<heap, blocks>>
         ELSE IF runs = {} THEN heap' = SlobFree(bb.heap, bb.at, BIGBLOCK) /\ UNCHANGED blocks
         ELSE /\ heap' = [bb.heap EXCEPT !.bigblocks = <<big>> \o @,
                                         !.pages = @ \ (page .. page + 2^order - 1)]
              /\ blocks' = blocks \union {<<big.pages, size>>}

\* kfree: a block at the start of a page may be a big one.
Free(block) ==
  LET at == block[1]
      bigs == {i \in 1 .. Len(heap.bigblocks) : heap.bigblocks[i].pages = at}
      bb == heap.bigblocks[Min(bigs)]
      page == at \div PAGE_SIZE
  IN  /\ blocks' = blocks \ {block}
      /\ IF at % PAGE_SIZE = 0 /\ bigs # {}
         THEN heap' = SlobFree([heap EXCEPT !.bigblocks = RemoveAt(@, Min(bigs)),
                                            !.pages = @ \union (page .. page + 2^bb.order - 1)],
                               bb.at, BIGBLOCK)
         ELSE heap' = SlobFree(heap, at - 1, 0)

Next == \/ \E size \in Requests : AllocSmall(size)
        \/ \E size \in Requests : AllocBig(size)
        \/ \E block \in blocks : Free(block)

Spec == Init /\ [][Next]_<<heap, blocks>>

----------------------------------------------------------------------------
Span(at, n) == at .. at + n - 1
PageUnits(p) == Span(p * PAGE_SIZE, PAGE_SIZE)

\* What is in use: small blocks with their headers, big blocks, descriptors.
Bigs == ToSet(heap.bigblocks)
Small == {b \in blocks : \A bb \in Bigs : bb.pages # b[1]}
SpansInUse ==
  {Span(b[1] - 1, b[2] + 1) : b \in Small}
    \union {Span(bb.at, BIGBLOCK) : bb \in Bigs}
    \union {Span(bb.pages, 2^bb.order * PAGE_SIZE) : bb \in Bigs}
SpansFree == {Span(a, heap.units[a]) : a \in InRing(heap) \ {arena}}

\* Through every order of allocations and frees the ring is one ring, sorted
\* but for one step down, and no two of its blocks are neighbours that were not
\* joined.  Every unit of the pages taken is in one free block or in one block
\* in use; a header says how large its block is, and a big block is as large as
\* was asked for.
HeapIsSound ==
  LET ring == Ring(heap)
      n == Cardinality(InRing(heap))
      owned == UNION {PageUnits(p) : p \in HeapPages \ heap.pages}
  IN  /\ ring[n] = ring[0]
      /\ Cardinality({i \in 1 .. n : heap.next[ring[i]] <= ring[i]}) = 1
      /\ \A a \in InRing(heap) : a + heap.units[a] # heap.next[a]
      /\ UNION (SpansInUse \union SpansFree) = owned
      /\ MapThenSumSet(Cardinality, SpansInUse \union SpansFree)
           = Cardinality(owned)
      /\ \A b \in Small : heap.units[b[1] - 1] = b[2] + 1
      /\ \A b \in blocks \ Small : \E bb \in Bigs :
           bb.pages = b[1] /\ 2^bb.order * PAGE_SIZE >= b[2]
=============================================================================
