------------------------------ MODULE MCXQueue ------------------------------
(* A ring of 4 cells and every run of up to MCMax of two distinct bytes.   *)
EXTENDS XQueue

MCMax == 5
MCInputs == UNION {[1 .. n -> Byte] : n \in 0 .. 3} \cup {[i \in 1 .. n |-> 1] : n \in 4 .. MCMax}
MCRequests == 0 .. MCMax

=============================================================================
