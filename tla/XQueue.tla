------------------------------- MODULE XQueue -------------------------------
(***************************************************************************)
(* The ring buffer of NTVService/jni/x_queue.c, one action per function.   *)
(* Integers are plain: the only queue the daemon allocates has 512K cells, *)
(* so no sum of an index and a length comes near 2^31.                     *)
(***************************************************************************)
EXTENDS FifoOps

CONSTANTS Byte,         \* the values of a byte
          Inputs,       \* the runs of bytes a caller writes
          Requests      \* the positions and sizes a caller asks for

ASSUME InputsAssumption == Inputs \subseteq Seq(Byte)
ASSUME RequestsAssumption == Requests \subseteq Nat

VARIABLES Count,        \* number of bytes held
          Start,        \* cell of the oldest byte
          data,         \* the cells
          ret,          \* the value the last call returned
          buf           \* what the last call that delivered bytes delivered

vars == <<Count, Start, data, ret, buf>>

Cells == 0 .. Size - 1

(* The cell behind the newest byte. *)
WritePtr == (Start + Count) % Size

(* A transfer of n bytes at cell ptr runs past the last cell. *)
WrapsLate(ptr, n) == ptr + n > Size + 1
Wraps(ptr, n) == ptr + n > Size

(* The cells a transfer of n bytes at cell ptr reads or writes. *)
Touched(ptr, n) == IF Wraps(ptr, n)
                   THEN (ptr .. Size - 1) \cup (0 .. n - (Size - ptr) - 1)
                   ELSE ptr .. ptr + n - 1

(* memcpy(dst + at, src + from, n); the sequence src starts at 1. *)
memcpy(dst, at, src, from, n) ==
  [j \in DOMAIN dst |-> IF at <= j /\ j < at + n THEN src[from + (j - at) + 1]
                                                 ELSE dst[j]]

(* The bytes of b laid down from cell ptr: in two pieces if they wrap. *)
CopyInNoWrap(d, ptr, b) == memcpy(d, ptr, b, 0, Len(b))
CopyIn(d, ptr, b) ==
  LET first == Size - ptr
      other == Len(b) - first
  IN  IF Wraps(ptr, Len(b))
      THEN memcpy(memcpy(d, ptr, b, 0, first), 0, b, first, other)
      ELSE memcpy(d, ptr, b, 0, Len(b))

(* n bytes picked up from cell ptr on: in two pieces if they wrap. *)
CopyOut(d, ptr, n) ==
  LET first == Size - ptr
  IN  [k \in 1 .. n |-> IF Wraps(ptr, n) /\ k > first THEN d[k - first - 1]
                                                      ELSE d[ptr + k - 1]]

(***************************************************************************)
(* The functions.                                                          *)
(***************************************************************************)

(* x_queue_alloc: malloc leaves the cells undefined. *)
Init == /\ Count = 0
        /\ Start = 0
        /\ data \in [Cells -> Byte]
        /\ ret = 0
        /\ buf = << >>

x_queue_clear == /\ Count' = 0
                 /\ Start' = 0
                 /\ UNCHANGED <<data, ret, buf>>

(* Start after n bytes are taken: x_queue_read sets it to the length of    *)
(* the second piece when the bytes wrap and reduces it mod Size otherwise. *)
StartNoMod(n) == IF Wraps(Start, n) THEN n - (Size - Start) ELSE Start + n
StartAfter(n) == IF Wraps(Start, n) THEN n - (Size - Start)
                                    ELSE (Start + n) % Size

x_queue_read(s) == \/ /\ Count < s
                      /\ ret' = 0
                      /\ UNCHANGED <<Count, Start, data, buf>>
                   \/ /\ Count >= s
                      /\ buf' = CopyOut(data, Start, s)
                      /\ Start' = StartAfter(s)
                      /\ Count' = Count - s
                      /\ ret' = s
                      /\ UNCHANGED data

(* The code's guard is Count < 0, so it takes a byte from an empty queue   *)
(* too: see GetchContract.                                                 *)
x_queue_getch == IF Count < 0
                 THEN /\ ret' = 0
                      /\ UNCHANGED <<Count, Start, data, buf>>
                 ELSE /\ buf' = <<data[Start]>>
                      /\ Start' = (Start + 1) % Size
                      /\ Count' = Count - 1
                      /\ ret' = 1
                      /\ UNCHANGED data

x_queue_copy(pos, s) ==
  /\ IF Count < s \/ pos + s > Count
     THEN /\ ret' = 0
          /\ UNCHANGED buf
     ELSE /\ buf' = CopyOut(data, (Start + pos) % Size, s)
          /\ ret' = s
  /\ UNCHANGED <<Count, Start, data>>

(* The bytes of b fit in the cells that are free. *)
FitsOneMore(b) == Len(b) + Count <= Size + 1
Fits(b) == Len(b) + Count <= Size

x_queue_write(b) == \/ /\ ~Fits(b)
                       /\ ret' = 0
                       /\ UNCHANGED <<Count, Start, data, buf>>
                    \/ /\ Fits(b)
                       /\ data' = CopyIn(data, WritePtr, b)
                       /\ Count' = Count + Len(b)
                       /\ ret' = Len(b)
                       /\ UNCHANGED <<Start, buf>>

x_queue_count == /\ ret' = Count
                 /\ UNCHANGED <<Count, Start, data, buf>>

(* No code of the daemon calls x_queue_getch, so nothing says whether it   *)
(* may be called on an empty queue.  A caller that does finds Count = -1   *)
(* afterwards; the specification assumes callers that ask x_queue_count    *)
(* first.                                                                  *)
GetchContract == Count > 0

Next == \/ \E b \in Inputs : x_queue_write(b)
        \/ \E s \in Requests : x_queue_read(s)
        \/ \E pos, s \in Requests : x_queue_copy(pos, s)
        \/ GetchContract /\ x_queue_getch
        \/ x_queue_count
        \/ x_queue_clear

Spec == Init /\ [][Next]_vars

(***************************************************************************)
(* Properties.                                                             *)
(***************************************************************************)

(* The indices stay where the code's arithmetic assumes them: Start is a   *)
(* cell after every call, although x_queue_read leaves the mod out when    *)
(* the bytes wrap, and no sequence of calls makes Count leave 0..Size.     *)
TypeOK == /\ Count \in 0 .. Size
          /\ Start \in Cells
          /\ data \in [Cells -> Byte]
          /\ ret \in 0 .. Size
          /\ buf \in Seq(Byte)

(* Whatever call comes next, the memcpy's it is allowed to make stay       *)
(* inside the array, and a write touches no cell that holds an unread      *)
(* byte.                                                                   *)
TransfersAreSafe ==
  /\ \A n \in 0 .. Count : Touched(Start, n) \subseteq Cells
  /\ \A n \in 0 .. Size - Count :
       /\ Touched(WritePtr, n) \subseteq Cells
       /\ Touched(WritePtr, n) \cap Touched(Start, Count) = {}

(* The bytes held, oldest first. *)
Contents == [i \in 1 .. Count |-> data[(Start + i - 1) % Size]]

Fifo == INSTANCE ByteFifo WITH q <- Contents

(* The ring buffer is a bounded FIFO: bytes come out once, in the order    *)
(* they went in, across every wrap of the array; a write that does not fit *)
(* changes nothing.                                                        *)
IsFifo == Fifo!Spec

=============================================================================
