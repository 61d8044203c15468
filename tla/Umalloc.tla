------------------------------ MODULE Umalloc -------------------------------
(***************************************************************************)
(* malloc() and free() (user/umalloc.c).  Addresses and sizes count        *)
(* headers.  A heap h has the headers that are in use (free blocks and     *)
(* allocated ones), freep, and brk, the end of the process.                *)
(***************************************************************************)
EXTENDS Integers, FiniteSets

CONSTANTS
  HEAP,      \* where the heap begins
  TOP,       \* sbrk() fails beyond this address
  MINCORE,   \* morecore() asks for at least this (4096)
  Requests,  \* sizes asked for, with the header
  Sbrks      \* what the program itself asks of sbrk()

VARIABLES
  heap,
  used,      \* blocks that the program has
  others,    \* units that the program has from sbrk()
  answer     \* of the last malloc(): the size asked for and the block, 0 for none

heapvars == <<heap, used, others, answer>>

base == 1
Null == 0

With(h, bp, hdr) == [h EXCEPT !.hdr = [a \in DOMAIN @ \cup {bp} |-> IF a = bp THEN hdr ELSE @[a]]]
Without(h, bp) == [h EXCEPT !.hdr = [a \in DOMAIN @ \ {bp} |-> @[a]]]

HeapInit ==
  /\ heap = [hdr |-> [a \in {base} |-> [ptr |-> Null, size |-> 0]], freep |-> Null, brk |-> HEAP]
  /\ used = {}
  /\ others = {}
  /\ answer = [n |-> 0, at |-> Null]

-----------------------------------------------------------------------------
(* free().                                                                 *)

\* The free block after which bp belongs, from p on: between two neighbours, or
\* beyond the last or before the first one.
RECURSIVE Place(_, _, _)
Place(h, bp, p) ==
  LET next == h.hdr[p].ptr
  IN  IF \/ bp > p /\ bp < next
         \/ p >= next /\ (bp > p \/ bp < next)
      THEN p ELSE Place(h, bp, next)

\* bp is joined to the block above it ...
JoinedAbove(h, bp, p) ==
  LET next == h.hdr[p].ptr
  IN  IF bp + h.hdr[bp].size = next
      THEN Without(With(h, bp, [ptr |-> h.hdr[next].ptr, size |-> h.hdr[bp].size + h.hdr[next].size]), next)
      ELSE [h EXCEPT !.hdr[bp].ptr = next]

\* Mutant: blocks are joined to the one above only.
NotJoinedBelow(h, bp, p) == [h EXCEPT !.hdr[p].ptr = bp]

\* ... and to the one below it.
JoinedBelow(h, bp, p) ==
  IF p + h.hdr[p].size = bp
  THEN Without(With(h, p, [ptr |-> h.hdr[bp].ptr, size |-> h.hdr[p].size + h.hdr[bp].size]), bp)
  ELSE [h EXCEPT !.hdr[p].ptr = bp]

free(h, bp) ==
  LET p == Place(h, bp, h.freep)
  IN  [JoinedBelow(JoinedAbove(h, bp, p), bp, p) EXCEPT !.freep = p]

-----------------------------------------------------------------------------
(* malloc().                                                               *)

\* h is the heap after sbrk() and free(); ok is FALSE if sbrk() fails.
morecore(h, nu) ==
  LET n == IF nu < MINCORE THEN MINCORE ELSE nu
      grown == [With(h, h.brk, [ptr |-> Null, size |-> n]) EXCEPT !.brk = @ + n]
  IN  IF h.brk + n > TOP THEN [h |-> h, ok |-> FALSE] ELSE [h |-> free(grown, h.brk), ok |-> TRUE]

\* The size of the part of a block that is given away.
TailSize(size, n) == n

\* n units of the free block p: all of it or its upper end.
Taken(h, prevp, p, n) ==
  LET size == h.hdr[p].size
      at == p + size - n
  IN  IF size = n
      THEN [h |-> [h EXCEPT !.hdr[prevp].ptr = h.hdr[p].ptr, !.hdr[p].ptr = Null, !.freep = prevp], at |-> p]
      ELSE [h |-> [With([h EXCEPT !.hdr[p].size = size - n], at, [ptr |-> Null, size |-> TailSize(size, n)])
                     EXCEPT !.freep = prevp],
            at |-> at]

\* Mutant: the search gives up one block early.
OnceRoundEarly(h, p) == h.hdr[p].ptr = h.freep

\* The search has come back to where it started.
OnceRound(h, p) == p = h.freep

RECURSIVE Search(_, _, _, _)
Search(h, prevp, p, n) ==
  LET m == morecore(h, n)
  IN  IF h.hdr[p].size >= n THEN Taken(h, prevp, p, n)
      ELSE IF ~OnceRound(h, p) THEN Search(h, p, h.hdr[p].ptr, n)
      ELSE IF ~m.ok THEN [h |-> h, at |-> Null]
      ELSE Search(m.h, m.h.freep, m.h.hdr[m.h.freep].ptr, n)

malloc(h, n) ==
  LET h1 == IF h.freep = Null THEN [h EXCEPT !.hdr[base].ptr = base, !.freep = base] ELSE h
  IN  Search(h1, h1.freep, h1.hdr[h1.freep].ptr, n)

-----------------------------------------------------------------------------
Malloc(n) ==
  LET m == malloc(heap, n)
  IN  /\ heap' = m.h
      /\ used' = IF m.at = Null THEN used ELSE used \cup {<<m.at, n>>}
      /\ answer' = [n |-> n, at |-> m.at]
      /\ UNCHANGED others

Free(b) ==
  /\ heap' = free(heap, b[1])
  /\ used' = used \ {b}
  /\ answer' = [n |-> 0, at |-> Null]
  /\ UNCHANGED others

\* The program asks for memory itself: the heap goes on above it.
Sbrk(n) ==
  /\ heap.brk + n <= TOP
  /\ heap' = [heap EXCEPT !.brk = @ + n]
  /\ others' = others \cup (heap.brk .. heap.brk + n - 1)
  /\ answer' = [n |-> 0, at |-> Null]
  /\ UNCHANGED used

HeapNext ==
  \/ \E n \in Requests : Malloc(n)
  \/ \E b \in used : Free(b)
  \/ \E n \in Sbrks : Sbrk(n)

-----------------------------------------------------------------------------
(* Properties.                                                             *)

Units(at, n) == at .. at + n - 1

\* The blocks that are not allocated, with their sizes.
FreeBlocks(h) == {<<a, h.hdr[a].size>> : a \in DOMAIN h.hdr \ ({base} \cup {b[1] : b \in used})}

\* Every unit that malloc() has got from sbrk() is in exactly one block, free or
\* allocated: none is lost, and none is given out twice, in whatever order blocks
\* are freed and whatever else the program does with sbrk().
BlocksPartition ==
  LET blocks == FreeBlocks(heap) \cup used
  IN  /\ UNION {Units(b[1], b[2]) : b \in blocks} = (HEAP .. heap.brk - 1) \ others
      /\ \A b, c \in blocks : b # c => Units(b[1], b[2]) \cap Units(c[1], c[2]) = {}
      /\ \A b \in used : heap.hdr[b[1]].size = b[2]

\* The free list goes through all free blocks in the order of their addresses and
\* back to base, and no two of them touch: free() has joined them.
FreeListSorted ==
  heap.freep # Null =>
    LET frees == {b[1] : b \in FreeBlocks(heap)} \cup {base}
        above(a) == {c \in frees : c > a}
    IN  /\ heap.freep \in frees
        /\ \A a \in frees :
             LET next == heap.hdr[a].ptr
             IN  /\ next = IF above(a) = {} THEN base
                           ELSE CHOOSE c \in above(a) : \A d \in above(a) : c <= d
                 /\ a # base => next # a + heap.hdr[a].size

\* Together: free() and malloc() keep the heap cut into blocks, with the free ones
\* joined and in order.
HeapExact == BlocksPartition /\ FreeListSorted

\* malloc() fails only if no free block is large enough and sbrk() has failed.
FailsOnlyWhenFull ==
  [][answer'.n # 0 /\ answer'.at = Null =>
       /\ \A b \in FreeBlocks(heap) : b[2] < answer'.n
       /\ heap.brk + (IF answer'.n < MINCORE THEN MINCORE ELSE answer'.n) > TOP]_heapvars
=============================================================================
