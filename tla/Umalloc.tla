------------------------------ MODULE Umalloc ------------------------------
(***************************************************************************)
(* The user-level allocator (user/umalloc.c).  Memory is counted in        *)
(* headers; address 0 is `base', which lies below the heap.  Every header  *)
(* has the fields ptr and size, and the free ones form a circular list in  *)
(* the order of their addresses.                                           *)
(***************************************************************************)
EXTENDS Integers, FiniteSets

CONSTANTS MaxHeap,    \* units the kernel gives before sbrk fails
          MINUNITS,   \* least asked of sbrk at once (4096 in the code)
          Requests    \* units asked of malloc, the header included

VARIABLES ptr, size,   \* [0..MaxHeap -> Nat], the headers
          freep,       \* Null before the first call
          brk,         \* first address above the heap
          live         \* the blocks given out: set of <<address, units>>

heapVars == <<ptr, size, freep, brk, live>>
Null == -1
base == 0

HeapInit == /\ ptr = [a \in 0..MaxHeap |-> 0] /\ size = ptr
            /\ freep = Null /\ brk = 1 /\ live = {}

Heap == [ptr |-> ptr, size |-> size, freep |-> freep, brk |-> brk]

\* free's search: the entry before bp in the order of addresses, or the last
\* one when bp is outside the list.
RECURSIVE Place(_, _, _)
Place(h, bp, p) ==
  LET next == h.ptr[p]
  IN  IF (bp > p /\ bp < next) \/ (p >= next /\ (bp > p \/ bp < next)) THEN p
      ELSE Place(h, bp, next)

\* (mutant: only the block above is joined)
JoinsBelow_not(h, p, bp) == FALSE

JoinsBelow(h, p, bp) == p + h.size[p] = bp

Freed(h, bp) ==
  LET p == Place(h, bp, h.freep)
      next == h.ptr[p]
      up == IF bp + h.size[bp] = next
            THEN [h EXCEPT !.size[bp] = @ + h.size[next], !.ptr[bp] = h.ptr[next]]
            ELSE [h EXCEPT !.ptr[bp] = next]
      down == IF JoinsBelow(up, p, bp)
              THEN [up EXCEPT !.size[p] = @ + up.size[bp], !.ptr[p] = up.ptr[bp]]
              ELSE [up EXCEPT !.ptr[p] = bp]
  IN  [down EXCEPT !.freep = p]

\* morecore: the heap with nu units more on the list, or Null
Fits(h, nu) == h.brk + nu <= MaxHeap
Units(nu) == IF nu < MINUNITS THEN MINUNITS ELSE nu
morecore(h, nu) == Freed([h EXCEPT !.size[h.brk] = nu, !.brk = @ + nu], h.brk)

\* malloc's loop: the heap left and the block found, Null if there is none
RECURSIVE Fit(_, _, _, _)
Fit(h, n, prevp, p) ==
  LET rest == h.size[p] - n
      more == morecore(h, Units(n))
  IN  CASE rest = 0 ->
             [h |-> [h EXCEPT !.ptr[prevp] = h.ptr[p], !.freep = prevp], block |-> p]
        [] rest > 0 ->
             [h |-> [h EXCEPT !.size[p] = rest, !.size[p + rest] = n, !.freep = prevp],
              block |-> p + rest]
        [] rest < 0 /\ p = h.freep ->
             IF Fits(h, Units(n)) THEN Fit(more, n, more.freep, more.ptr[more.freep])
             ELSE [h |-> h, block |-> Null]
        [] OTHER -> Fit(h, n, p, h.ptr[p])

Started(h) == IF h.freep # Null THEN h
              ELSE [h EXCEPT !.ptr[base] = base, !.freep = base, !.size[base] = 0]

Set(h) == ptr' = h.ptr /\ size' = h.size /\ freep' = h.freep /\ brk' = h.brk

malloc(n) ==
  LET h == Started(Heap)
      r == Fit(h, n, h.freep, h.ptr[h.freep])
  IN  /\ Set(r.h)
      /\ live' = IF r.block = Null THEN live ELSE live \cup {<<r.block, n>>}

free(b) == b \in live /\ Set(Freed(Heap, b[1])) /\ live' = live \ {b}

\* The program takes memory from sbrk itself: the heap has a hole in it.
sbrk == brk < MaxHeap /\ brk' = brk + 1 /\ UNCHANGED <<ptr, size, freep, live>>

HeapNext == \/ \E n \in Requests : malloc(n)
            \/ \E b \in live : free(b)
            \/ sbrk

-----------------------------------------------------------------------------
RECURSIVE From(_)
From(p) == IF ptr[p] = base THEN {} ELSE {ptr[p]} \cup From(ptr[p])
Span(a, n) == a..a + n - 1

\* The heap is never corrupted by any order of calls: the list goes through
\* the free blocks once each, upwards and back to base; no two of them touch;
\* no unit is in two free or live blocks; and a block keeps the size it was
\* given out with (free, malloc, morecore).
HeapSound ==
  freep # Null =>
    /\ \A p \in {base} \cup From(base) : ptr[p] > p \/ ptr[p] = base
    /\ freep \in {base} \cup From(base)
    /\ \A p, q \in From(base) : p < q => p + size[p] < q
    /\ \A p \in From(base) : size[p] > 0 /\ p + size[p] <= brk
    /\ \A b \in live : /\ size[b[1]] = b[2]
                       /\ \A p \in From(base) : Span(p, size[p]) \cap Span(b[1], b[2]) = {}
                       /\ \A c \in live \ {b} : Span(c[1], c[2]) \cap Span(b[1], b[2]) = {}
=============================================================================
