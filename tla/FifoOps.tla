------------------------------ MODULE FifoOps ------------------------------
(***************************************************************************)
(* What the four calls of x_queue.c that move bytes do to the bytes held   *)
(* by the queue, seen as a sequence: oldest byte first.  A call moves all  *)
(* of its bytes or none of them.                                           *)
(***************************************************************************)
EXTENDS Naturals, Sequences

CONSTANT Size           \* This->Size, the capacity given to x_queue_alloc

ASSUME SizeAssumption == Size \in Nat \ {0}

\* x_queue_write refuses a run of bytes that does not fit as a whole.
Accepts(q, b) == Len(q) + Len(b) <= Size

AfterPut(q, b) == IF Accepts(q, b) THEN q \o b ELSE q

\* x_queue_read refuses a request for more bytes than it holds.
Holds(q, n) == n <= Len(q)

Taken(q, n) == SubSeq(q, 1, n)

AfterTake(q, n) == SubSeq(q, n + 1, Len(q))

=============================================================================
