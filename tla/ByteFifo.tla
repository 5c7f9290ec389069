------------------------------ MODULE ByteFifo ------------------------------
(***************************************************************************)
(* What x_queue promises its callers: a bounded first-in first-out store   *)
(* of bytes.  A state is the sequence of bytes held, what the last call    *)
(* returned and the bytes it put in the caller's buffer.                   *)
(***************************************************************************)
EXTENDS FifoOps

CONSTANTS Byte,         \* the values of a byte
          Inputs,       \* the runs of bytes a caller writes
          Requests      \* the positions and sizes a caller asks for

VARIABLES q,            \* the bytes held, oldest first
          ret,          \* the value the last call returned
          buf           \* what the last call that delivered bytes delivered

fifoVars == <<q, ret, buf>>

Init == /\ q = << >>
        /\ ret = 0
        /\ buf = << >>

\* A run of bytes goes in whole, behind the others, or not at all.
Put(b) == /\ q' = AfterPut(q, b)
          /\ ret' = IF Accepts(q, b) THEN Len(b) ELSE 0
          /\ UNCHANGED buf

\* The n oldest bytes come out, in order, or none does.
Take(n) == \/ /\ Holds(q, n)
              /\ q' = AfterTake(q, n)
              /\ ret' = n
              /\ buf' = Taken(q, n)
           \/ /\ ~Holds(q, n)
              /\ ret' = 0
              /\ UNCHANGED <<q, buf>>

\* The oldest byte comes out.
TakeOne == /\ Holds(q, 1)
           /\ q' = AfterTake(q, 1)
           /\ ret' = 1
           /\ buf' = Taken(q, 1)

\* n bytes from position pos are copied; the store keeps them.
Peek(pos, n) == /\ IF Holds(q, pos + n)
                   THEN /\ ret' = n
                        /\ buf' = SubSeq(q, pos + 1, pos + n)
                   ELSE /\ ret' = 0
                        /\ UNCHANGED buf
                /\ UNCHANGED q

Length == /\ ret' = Len(q)
          /\ UNCHANGED <<q, buf>>

Reset == /\ q' = << >>
         /\ UNCHANGED <<ret, buf>>

Next == \/ \E b \in Inputs : Put(b)
        \/ \E n \in Requests : Take(n)
        \/ \E pos, n \in Requests : Peek(pos, n)
        \/ TakeOne
        \/ Length
        \/ Reset

Spec == Init /\ [][Next]_fifoVars

=============================================================================
