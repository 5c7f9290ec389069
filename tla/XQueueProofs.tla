---------------------------- MODULE XQueueProofs ----------------------------
(* Proofs about the ring buffer of XQueue.                                 *)
EXTENDS XQueue, SequenceTheorems, TLAPS

(* Every index the code reduces mod Size is below 2 * Size: one            *)
(* subtraction does it.                                                    *)
LEMMA ModOnce ==
  ASSUME NEW a \in 0 .. 2 * Size - 1
  PROVE  a % Size = IF a < Size THEN a ELSE a - Size
  BY SizeAssumption, SMTT(30)

(* A write of the bytes b at cell ptr changes the Len(b) cells from ptr    *)
(* on, going round the array, and no other.                                *)
LEMMA CopyInCells ==
  ASSUME NEW d \in [Cells -> Byte], NEW ptr \in Cells,
         NEW b \in Seq(Byte), Len(b) <= Size
  PROVE  CopyIn(d, ptr, b) =
           [j \in Cells |-> IF ptr <= j /\ j < ptr + Len(b)
                            THEN b[j - ptr + 1]
                            ELSE IF j + Size < ptr + Len(b)
                                 THEN b[j + Size - ptr + 1]
                                 ELSE d[j]]
<1> USE SizeAssumption DEF Cells
<1>0. DOMAIN d = Cells /\ Len(b) \in Nat /\ ptr \in Nat /\ ptr < Size
  OBVIOUS
<1>1. CASE Wraps(ptr, Len(b))
  <2> DEFINE first == Size - ptr
  <2> DEFINE one == memcpy(d, ptr, b, 0, first)
  <2>1. one = [j \in Cells |-> IF ptr <= j THEN b[j - ptr + 1] ELSE d[j]]
    BY <1>0 DEF memcpy
  <2>2. CopyIn(d, ptr, b) = memcpy(one, 0, b, first, Len(b) - first)
    BY <1>1 DEF CopyIn
  <2>3. memcpy(one, 0, b, first, Len(b) - first) =
          [j \in Cells |-> IF 0 <= j /\ j < 0 + (Len(b) - first)
                           THEN b[first + (j - 0) + 1]
                           ELSE IF ptr <= j THEN b[j - ptr + 1] ELSE d[j]]
    BY <2>1 DEF memcpy
  <2> HIDE DEF one
  <2>4. ASSUME NEW j \in Cells
        PROVE  /\ ptr <= j => j < ptr + Len(b) /\ ~(j + Size < ptr + Len(b))
               /\ j < Len(b) - first <=> j + Size < ptr + Len(b)
               /\ first + (j - 0) + 1 = j + Size - ptr + 1
    BY <1>0, <1>1 DEF Wraps
  <2>5. ASSUME NEW j \in Cells
        PROVE  (IF 0 <= j /\ j < 0 + (Len(b) - first)
                THEN b[first + (j - 0) + 1]
                ELSE IF ptr <= j THEN b[j - ptr + 1] ELSE d[j])
               = (IF ptr <= j /\ j < ptr + Len(b)
                  THEN b[j - ptr + 1]
                  ELSE IF j + Size < ptr + Len(b)
                       THEN b[j + Size - ptr + 1]
                       ELSE d[j])
    <3> j \in Int /\ 0 <= j /\ 0 + (Len(b) - first) = Len(b) - first
      BY <1>0
    <3> HIDE DEF first
    <3>1. CASE ptr <= j
      BY <2>4, <3>1
    <3>2. CASE ~(ptr <= j) /\ j < Len(b) - first
      BY <2>4, <3>2
    <3>3. CASE ~(ptr <= j) /\ ~(j < Len(b) - first)
      BY <2>4, <3>3
    <3>4. QED
      BY <3>1, <3>2, <3>3
  <2>6. QED
    BY <2>2, <2>3, <2>5
<1>2. CASE ~Wraps(ptr, Len(b))
  <2>1. CopyIn(d, ptr, b) =
          [j \in Cells |-> IF ptr <= j /\ j < ptr + Len(b)
                           THEN b[0 + (j - ptr) + 1] ELSE d[j]]
    BY <1>0, <1>2 DEF CopyIn, memcpy
  <2>2. ASSUME NEW j \in Cells
        PROVE  /\ ~(j + Size < ptr + Len(b))
               /\ 0 + (j - ptr) + 1 = j - ptr + 1
    BY <1>0, <1>2 DEF Wraps
  <2>3. QED
    BY <2>1, <2>2
<1>3. QED
  BY <1>1, <1>2

(* A write of bytes leaves an array of bytes.                              *)
LEMMA CopyInType ==
  ASSUME NEW d \in [Cells -> Byte], NEW ptr \in Cells,
         NEW b \in Seq(Byte), Len(b) <= Size
  PROVE  CopyIn(d, ptr, b) \in [Cells -> Byte]
<1>1. ASSUME NEW j \in Cells
      PROVE  (IF ptr <= j /\ j < ptr + Len(b)
              THEN b[j - ptr + 1]
              ELSE IF j + Size < ptr + Len(b)
                   THEN b[j + Size - ptr + 1]
                   ELSE d[j]) \in Byte
  <2> Len(b) \in Nat /\ Size \in Nat /\ j \in Nat /\ ptr \in Nat /\ j < Size
    BY SizeAssumption DEF Cells
  <2>1. CASE ptr <= j /\ j < ptr + Len(b)
    <3>1. j - ptr + 1 \in 1 .. Len(b)
      BY <2>1
    <3>2. QED
      BY <2>1, <3>1
  <2>2. CASE ~(ptr <= j) /\ j + Size < ptr + Len(b)
    <3>1. j + Size - ptr + 1 \in 1 .. Len(b)
      BY <2>2 DEF Cells
    <3>2. QED
      BY <2>2, <3>1
  <2>3. CASE j + Size >= ptr + Len(b) /\ ~(ptr <= j /\ j < ptr + Len(b))
    <3>1. d[j] \in Byte
      OBVIOUS
    <3>2. QED
      BY <2>3, <3>1
  <2>4. QED
    BY <2>1, <2>2, <2>3 DEF Cells
<1> DEFINE f == CopyIn(d, ptr, b)
<1>2. f = [j \in Cells |-> IF ptr <= j /\ j < ptr + Len(b)
                           THEN b[j - ptr + 1]
                           ELSE IF j + Size < ptr + Len(b)
                                THEN b[j + Size - ptr + 1]
                                ELSE d[j]]
  BY CopyInCells, Zenon
<1> HIDE DEF f
<1>3. f \in [Cells -> Byte]
  BY <1>1, <1>2
<1>4. QED
  BY <1>3 DEF f

(* The run of k elements of c that starts behind its first m.              *)
LEMMA SubSeqOf ==
  ASSUME NEW c \in Seq(Byte), NEW m \in Nat, NEW k \in Nat,
         m + k <= Len(c)
  PROVE  /\ SubSeq(c, m + 1, m + k) \in Seq(Byte)
         /\ Len(SubSeq(c, m + 1, m + k)) = k
         /\ \A i \in 1 .. k : SubSeq(c, m + 1, m + k)[i] = c[m + i]
<1> DEFINE r == SubSeq(c, m + 1, m + k)
<1>1. r = [i \in 1 .. k |-> c[m + i]]
  <2>1. 1 + (m + k) - (m + 1) = k
    OBVIOUS
  <2>2. r = [i \in 1 .. (1 + (m + k) - (m + 1)) |-> c[i + (m + 1) - 1]]
    OBVIOUS
  <2>3. \A i \in 1 .. k : c[i + (m + 1) - 1] = c[m + i]
    OBVIOUS
  <2>4. QED
    BY <2>1, <2>2, <2>3
<1> HIDE DEF r
<1>2. \A i \in 1 .. k : m + i \in 1 .. Len(c) /\ c[m + i] \in Byte
  OBVIOUS
<1>3. QED
  BY <1>1, <1>2 DEF r

(* A read of n bytes at cell ptr delivers the n cells from ptr on, going   *)
(* round the array.                                                        *)
LEMMA CopyOutCells ==
  ASSUME NEW d \in [Cells -> Byte], NEW ptr \in Cells, NEW n \in 0 .. Size
  PROVE  /\ CopyOut(d, ptr, n) = [k \in 1 .. n |-> d[(ptr + k - 1) % Size]]
         /\ CopyOut(d, ptr, n) \in Seq(Byte)
         /\ Len(CopyOut(d, ptr, n)) = n
<1> USE SizeAssumption DEF Cells
<1>1. ASSUME NEW k \in 1 .. n
      PROVE  /\ (ptr + k - 1) % Size = IF Wraps(ptr, n) /\ k > Size - ptr
                                       THEN k - (Size - ptr) - 1
                                       ELSE ptr + k - 1
             /\ (ptr + k - 1) % Size \in Cells
  <2> DEFINE a == ptr + k - 1
  <2>1. a \in 0 .. 2 * Size - 1
    OBVIOUS
  <2> HIDE DEF a
  <2>2. a % Size = IF a < Size THEN a ELSE a - Size
    BY <2>1, ModOnce
  <2>3. QED
    BY <2>2 DEF Wraps, a
<1>2. CopyOut(d, ptr, n) = [k \in 1 .. n |-> d[(ptr + k - 1) % Size]]
  BY <1>1 DEF CopyOut
<1>3. [k \in 1 .. n |-> d[(ptr + k - 1) % Size]] \in [1 .. n -> Byte]
  BY <1>1
<1>4. QED
  BY <1>2, <1>3

(* An offset of at most Size from Start is reduced the same way.           *)
LEMMA FromStart ==
  ASSUME Start \in Cells, NEW n \in 0 .. Size
  PROVE  /\ (Start + n) % Size \in Cells
         /\ (Start + n) % Size = IF Start + n < Size THEN Start + n
                                                     ELSE Start + n - Size
<1> USE SizeAssumption DEF Cells
<1> DEFINE a == Start + n
<1>1. a \in 0 .. 2 * Size - 1
  OBVIOUS
<1> HIDE DEF a
<1>2. a % Size = IF a < Size THEN a ELSE a - Size
  BY <1>1, ModOnce
<1>3. QED
  BY <1>1, <1>2 DEF a

(* StartAfter reduces by one subtraction, whichever way the code spells it. *)
LEMMA StartAfterIsMod ==
  ASSUME Start \in Cells, NEW n \in 0 .. Size
  PROVE  StartAfter(n) = (Start + n) % Size /\ StartAfter(n) \in Cells
  BY FromStart, SizeAssumption DEF StartAfter, Wraps, Cells

(* The cell that a write starts at, with the mod spelled out.              *)
LEMMA WritePtrIs ==
  ASSUME Start \in Cells, Count \in 0 .. Size
  PROVE  /\ WritePtr \in Cells
         /\ WritePtr = IF Start + Count < Size THEN Start + Count
                                               ELSE Start + Count - Size
  BY FromStart DEF WritePtr

(* The indices and the counter stay in range under every sequence of calls. *)
THEOREM TypeCorrect == Spec => []TypeOK
<1> USE SizeAssumption
<1>1. Init => TypeOK
  BY DEF Init, TypeOK, Cells
<1>2. TypeOK /\ [Next]_vars => TypeOK'
  <2> SUFFICES ASSUME TypeOK, [Next]_vars PROVE TypeOK'
    OBVIOUS
  <2> USE DEF TypeOK
  <2>1. ASSUME NEW b \in Inputs, x_queue_write(b) PROVE TypeOK'
    <3>1. b \in Seq(Byte) /\ Len(b) \in Nat
      BY InputsAssumption
    <3>2. CASE Fits(b)
      <4>1. Len(b) <= Size
        BY <3>1, <3>2 DEF Fits
      <4>2. CopyIn(data, WritePtr, b) \in [Cells -> Byte]
        BY <3>1, <4>1, WritePtrIs, CopyInType
      <4>3. QED
        BY <2>1, <3>1, <3>2, <4>2 DEF x_queue_write, Fits
    <3>3. CASE ~Fits(b)
      BY <2>1, <3>3 DEF x_queue_write
    <3>4. QED
      BY <3>2, <3>3
  <2>2. ASSUME NEW s \in Requests, x_queue_read(s) PROVE TypeOK'
    <3>1. CASE Count >= s
      <4>1. s \in 0 .. Size
        BY <3>1, RequestsAssumption
      <4>2. CopyOut(data, Start, s) \in Seq(Byte) /\ StartAfter(s) \in Cells
        BY <4>1, CopyOutCells, StartAfterIsMod
      <4>3. QED
        BY <2>2, <3>1, <4>1, <4>2 DEF x_queue_read
    <3>2. QED
      BY <2>2, <3>1, RequestsAssumption DEF x_queue_read
  <2>3. ASSUME NEW pos \in Requests, NEW s \in Requests, x_queue_copy(pos, s)
        PROVE  TypeOK'
    <3>1. CASE ~(Count < s \/ pos + s > Count)
      <4>1. Start + pos \in 0 .. 2 * Size - 1 /\ s \in 0 .. Size
        BY <3>1, RequestsAssumption DEF Cells
      <4>2. (Start + pos) % Size \in Cells
        BY <4>1, ModOnce DEF Cells
      <4>3. CopyOut(data, (Start + pos) % Size, s) \in Seq(Byte)
        BY <4>1, <4>2, CopyOutCells
      <4>4. QED
        BY <2>3, <3>1, <4>1, <4>3 DEF x_queue_copy
    <3>2. QED
      BY <2>3, <3>1 DEF x_queue_copy
  <2>4. CASE GetchContract /\ x_queue_getch
    <3>1. Start + 1 \in 0 .. 2 * Size - 1 /\ data[Start] \in Byte
      BY DEF Cells
    <3>2. (Start + 1) % Size \in Cells
      BY <3>1, ModOnce DEF Cells
    <3>3. <<data[Start]>> \in Seq(Byte)
      BY <3>1
    <3>4. /\ buf' = <<data[Start]>> /\ Start' = (Start + 1) % Size
          /\ Count' = Count - 1 /\ ret' = 1 /\ data' = data
      BY <2>4 DEF GetchContract, x_queue_getch
    <3>5. Count' \in 0 .. Size /\ ret' \in 0 .. Size
      BY <2>4, <3>4 DEF GetchContract
    <3>6. QED
      BY <3>2, <3>3, <3>4, <3>5
  <2>5. CASE x_queue_count
    BY <2>5 DEF x_queue_count
  <2>6. CASE x_queue_clear
    BY <2>6 DEF x_queue_clear, Cells
  <2>7. CASE UNCHANGED vars
    BY <2>7 DEF vars
  <2>8. QED
    BY <2>1, <2>2, <2>3, <2>4, <2>5, <2>6, <2>7 DEF Next
<1>3. QED
  BY <1>1, <1>2, PTL DEF Spec

(* Whatever the queue holds, the next transfer stays inside the array and  *)
(* a write leaves the unread bytes alone.                                  *)
THEOREM MemorySafe == Spec => []TransfersAreSafe
<1>1. TypeOK => TransfersAreSafe
  <2> SUFFICES ASSUME TypeOK PROVE TransfersAreSafe
    OBVIOUS
  <2> USE SizeAssumption DEF TypeOK, Cells
  <2>1. ASSUME NEW n \in 0 .. Count PROVE Touched(Start, n) \subseteq Cells
    BY DEF Touched, Wraps
  <2>3. WritePtr = IF Start + Count < Size THEN Start + Count
                                           ELSE Start + Count - Size
    BY WritePtrIs
  <2>4. ASSUME NEW n \in 0 .. Size - Count
        PROVE  /\ Touched(WritePtr, n) \subseteq Cells
               /\ Touched(WritePtr, n) \cap Touched(Start, Count) = {}
    <3>1. CASE Start + Count < Size
      BY <2>3, <3>1 DEF Touched, Wraps
    <3>2. CASE ~(Start + Count < Size)
      BY <2>3, <3>2 DEF Touched, Wraps
    <3>3. QED
      BY <3>1, <3>2
  <2>5. QED
    BY <2>1, <2>4 DEF TransfersAreSafe
<1>2. QED
  BY <1>1, TypeCorrect, PTL

(* Contents is the sequence of the Count cells from Start on.              *)
ContentsShape ==
  /\ Contents \in Seq(Byte)
  /\ Len(Contents) = Count
  /\ \A i \in 1 .. Count :
        Contents[i] = data[IF Start + i - 1 < Size
                           THEN Start + i - 1 ELSE Start + i - 1 - Size]

(* The bytes held are a sequence of Count bytes, read round the array.     *)
LEMMA ContentsSeq == TypeOK => ContentsShape
<1> SUFFICES ASSUME TypeOK PROVE ContentsShape
  OBVIOUS
<1> USE SizeAssumption DEF TypeOK, Cells
<1>1. ASSUME NEW i \in 1 .. Count
      PROVE  /\ (Start + i - 1) % Size = IF Start + i - 1 < Size
                                         THEN Start + i - 1
                                         ELSE Start + i - 1 - Size
             /\ (Start + i - 1) % Size \in Cells
  <2> DEFINE a == Start + i - 1
  <2>1. a \in 0 .. 2 * Size - 1
    OBVIOUS
  <2> HIDE DEF a
  <2>2. a % Size = IF a < Size THEN a ELSE a - Size
    BY <2>1, ModOnce
  <2>3. QED
    BY <2>1, <2>2 DEF a
<1>2. Contents \in [1 .. Count -> Byte]
  BY <1>1 DEF Contents
<1>3. QED
  BY <1>1, <1>2 DEF Contents, ContentsShape

(* A write that fits puts its bytes behind those already held.             *)
LEMMA WriteAppends ==
  ASSUME TypeOK, TypeOK', NEW b \in Inputs, x_queue_write(b), Fits(b)
  PROVE  Contents' = Contents \o b
<1> USE SizeAssumption
<1> DEFINE At(i) == IF Start + i - 1 < Size THEN Start + i - 1
                                            ELSE Start + i - 1 - Size
<1>0. Contents \in Seq(Byte) /\ Len(Contents) = Count
      /\ \A i \in 1 .. Count : Contents[i] = data[At(i)]
  BY ContentsSeq DEF ContentsShape
<1>1. b \in Seq(Byte) /\ Len(b) \in Nat
  BY InputsAssumption
<1>2. /\ Count' = Count + Len(b) /\ Start' = Start
      /\ data' = CopyIn(data, WritePtr, b)
  <2>1. Len(b) + Count <= Size
    BY DEF Fits
  <2>2. QED
    BY DEF x_queue_write
<1>3. Count \in 0 .. Size /\ Start \in 0 .. Size - 1 /\ Len(b) + Count <= Size
  BY DEF Fits, TypeOK, Cells
<1>4. /\ Contents' \in Seq(Byte) /\ Len(Contents') = Count + Len(b)
      /\ \A i \in 1 .. Count + Len(b) : Contents'[i] = data'[At(i)]
  <2>1. ContentsShape'
    BY ContentsSeq, PTL
  <2>2. QED
    BY <2>1, <1>2 DEF ContentsShape
<1>5. WritePtr \in Cells
      /\ WritePtr = IF Start + Count < Size THEN Start + Count
                                            ELSE Start + Count - Size
  BY WritePtrIs DEF TypeOK
<1>6. \A j \in Cells : data'[j] = IF WritePtr <= j /\ j < WritePtr + Len(b)
                                  THEN b[j - WritePtr + 1]
                                  ELSE IF j + Size < WritePtr + Len(b)
                                       THEN b[j + Size - WritePtr + 1]
                                       ELSE data[j]
  <2>1. data \in [Cells -> Byte] /\ Len(b) <= Size
    BY <1>1, <1>3 DEF TypeOK
  <2>2. CopyIn(data, WritePtr, b) =
          [j \in Cells |-> IF WritePtr <= j /\ j < WritePtr + Len(b)
                           THEN b[j - WritePtr + 1]
                           ELSE IF j + Size < WritePtr + Len(b)
                                THEN b[j + Size - WritePtr + 1]
                                ELSE data[j]]
    BY <1>1, <1>5, <2>1, CopyInCells, Zenon
  <2>3. QED
    BY <1>2, <2>2
<1>7. ASSUME NEW i \in 1 .. Count + Len(b)
      PROVE  Contents'[i] = (Contents \o b)[i]
  <2>0. i \in Nat /\ i >= 1 /\ i <= Size /\ At(i) \in Cells
    BY <1>1, <1>3 DEF Cells
  <2>1. CASE i <= Count
    <3>1. ~(WritePtr <= At(i) /\ At(i) < WritePtr + Len(b))
          /\ ~(At(i) + Size < WritePtr + Len(b))
      BY <1>1, <1>3, <1>5, <2>0, <2>1
    <3>2. data'[At(i)] = data[At(i)]
      BY <1>6, <2>0, <3>1
    <3>3. Contents[i] = data[At(i)]
      BY <2>0, <2>1, <1>0
    <3>4. (Contents \o b)[i] = Contents[i]
      BY <1>1, <2>0, <2>1, <1>0, <1>3
    <3>5. QED
      BY <1>4, <3>2, <3>3, <3>4
  <2>2. CASE i > Count
    <3>1. data'[At(i)] = b[i - Count]
      <4>1. CASE WritePtr <= At(i)
        <5>1. At(i) < WritePtr + Len(b) /\ At(i) - WritePtr + 1 = i - Count
          BY <1>1, <1>3, <1>5, <2>0, <2>2, <4>1
        <5>2. QED
          BY <1>6, <2>0, <4>1, <5>1
      <4>2. CASE ~(WritePtr <= At(i))
        <5>1. /\ At(i) + Size < WritePtr + Len(b)
              /\ At(i) + Size - WritePtr + 1 = i - Count
          BY <1>1, <1>3, <1>5, <2>0, <2>2, <4>2
        <5>2. QED
          BY <1>6, <2>0, <4>2, <5>1
      <4>3. QED
        BY <4>1, <4>2
    <3>2. (Contents \o b)[i] = b[i - Count]
      BY <1>1, <1>3, <2>0, <2>2, <1>0
    <3>3. QED
      BY <1>4, <3>1, <3>2
  <2>3. i <= Count \/ i > Count
    BY <2>0, <1>3
  <2>4. QED
    BY <2>1, <2>2, <2>3
<1>8. Contents \o b \in Seq(Byte) /\ Len(Contents \o b) = Count + Len(b)
  BY <1>0, <1>1, <1>3
<1>9. QED
  BY <1>4, <1>7, <1>8, SeqEqual

(* Taking s bytes from the front leaves the others, in order.              *)
LEMMA TakeDrops ==
  ASSUME TypeOK, TypeOK', NEW s \in 0 .. Count,
         data' = data, Count' = Count - s,
         Start' = IF Start + s < Size THEN Start + s ELSE Start + s - Size
  PROVE  Contents' = SubSeq(Contents, s + 1, Len(Contents))
<1> USE SizeAssumption
<1>1. Count \in 0 .. Size /\ Start \in 0 .. Size - 1
  BY DEF TypeOK, Cells
<1>2. /\ Contents \in Seq(Byte) /\ Len(Contents) = Count
      /\ \A i \in 1 .. Count :
            Contents[i] = data[IF Start + i - 1 < Size
                               THEN Start + i - 1 ELSE Start + i - 1 - Size]
  BY ContentsSeq DEF ContentsShape
<1>4. /\ Contents' \in Seq(Byte) /\ Len(Contents') = Count - s
      /\ \A i \in 1 .. Count - s :
            Contents'[i] = data[IF Start' + i - 1 < Size
                                THEN Start' + i - 1 ELSE Start' + i - 1 - Size]
  <2>1. ContentsShape'
    BY ContentsSeq, PTL
  <2>2. QED
    BY <2>1 DEF ContentsShape
<1>5. /\ SubSeq(Contents, s + 1, Count) \in Seq(Byte)
      /\ Len(SubSeq(Contents, s + 1, Count)) = Count - s
      /\ \A i \in 1 .. Count - s :
            SubSeq(Contents, s + 1, Count)[i] = Contents[s + i]
  <2> DEFINE k == Count - s
  <2>1. s \in Nat /\ k \in Nat /\ s + k = Count /\ s + k <= Len(Contents)
    BY <1>1, <1>2
  <2> HIDE DEF k
  <2>2. /\ SubSeq(Contents, s + 1, s + k) \in Seq(Byte)
        /\ Len(SubSeq(Contents, s + 1, s + k)) = k
        /\ \A i \in 1 .. k : SubSeq(Contents, s + 1, s + k)[i] = Contents[s + i]
    BY <1>2, <2>1, SubSeqOf, Zenon
  <2>3. QED
    BY <2>1, <2>2 DEF k
<1>6. ASSUME NEW i \in 1 .. Count - s
      PROVE  Contents'[i] = Contents[s + i]
  <2>1. s + i \in 1 .. Count
    BY <1>1
  <2>2. (IF Start' + i - 1 < Size THEN Start' + i - 1
                                  ELSE Start' + i - 1 - Size)
        = (IF Start + (s + i) - 1 < Size THEN Start + (s + i) - 1
                                         ELSE Start + (s + i) - 1 - Size)
    BY <1>1
  <2>3. QED
    BY <1>2, <1>4, <2>1, <2>2
<1> DEFINE rest == SubSeq(Contents, s + 1, Count)
           left == Contents'
<1>7. /\ rest \in Seq(Byte) /\ left \in Seq(Byte)
      /\ Len(left) = Len(rest) /\ \A i \in 1 .. Len(left) : left[i] = rest[i]
  BY <1>4, <1>5, <1>6
<1> HIDE DEF rest, left
<1>8. left = rest
  BY <1>7, SeqEqual
<1>9. QED
  BY <1>2, <1>8 DEF rest, left

(* What x_queue_read, x_queue_getch and x_queue_copy deliver is the run of *)
(* held bytes they are asked for.                                          *)
LEMMA CopyOutDelivers ==
  ASSUME TypeOK, NEW pos \in Nat, NEW s \in Nat, pos + s <= Count
  PROVE  CopyOut(data, (Start + pos) % Size, s)
           = SubSeq(Contents, pos + 1, pos + s)
<1> USE SizeAssumption
<1> DEFINE ptr == (Start + pos) % Size
<1>1. Count \in 0 .. Size /\ Start \in 0 .. Size - 1 /\ s \in 0 .. Size
      /\ data \in [Cells -> Byte]
  BY DEF TypeOK, Cells
<1>2. /\ Contents \in Seq(Byte) /\ Len(Contents) = Count
      /\ \A i \in 1 .. Count :
            Contents[i] = data[IF Start + i - 1 < Size
                               THEN Start + i - 1 ELSE Start + i - 1 - Size]
  BY ContentsSeq DEF ContentsShape
<1>3. /\ ptr \in Cells
      /\ ptr = IF Start + pos < Size THEN Start + pos ELSE Start + pos - Size
  BY <1>1, FromStart DEF Cells
<1> HIDE DEF ptr
<1>4. /\ CopyOut(data, ptr, s) \in Seq(Byte) /\ Len(CopyOut(data, ptr, s)) = s
      /\ \A k \in 1 .. s :
            CopyOut(data, ptr, s)[k] =
              IF Wraps(ptr, s) /\ k > Size - ptr THEN data[k - (Size - ptr) - 1]
                                                 ELSE data[ptr + k - 1]
  <2>1. CopyOut(data, ptr, s) \in Seq(Byte) /\ Len(CopyOut(data, ptr, s)) = s
    BY <1>1, <1>3, CopyOutCells, Zenon
  <2>2. \A k \in 1 .. s :
            CopyOut(data, ptr, s)[k] =
              IF Wraps(ptr, s) /\ k > Size - ptr THEN data[k - (Size - ptr) - 1]
                                                 ELSE data[ptr + k - 1]
    BY DEF CopyOut
  <2>3. QED
    BY <2>1, <2>2
<1>5. /\ SubSeq(Contents, pos + 1, pos + s) \in Seq(Byte)
      /\ Len(SubSeq(Contents, pos + 1, pos + s)) = s
      /\ \A k \in 1 .. s :
            SubSeq(Contents, pos + 1, pos + s)[k] = Contents[pos + k]
  <2>1. pos + s <= Len(Contents)
    BY <1>2
  <2>2. QED
    BY <1>2, <2>1, SubSeqOf, Zenon
<1>6. ASSUME NEW k \in 1 .. s
      PROVE  CopyOut(data, ptr, s)[k] = Contents[pos + k]
  <2>1. pos + k \in 1 .. Count
    BY <1>1
  <2>2. (IF Wraps(ptr, s) /\ k > Size - ptr THEN k - (Size - ptr) - 1
                                            ELSE ptr + k - 1)
        = (IF Start + (pos + k) - 1 < Size THEN Start + (pos + k) - 1
                                           ELSE Start + (pos + k) - 1 - Size)
    BY <1>1, <1>3 DEF Wraps
  <2>3. QED
    BY <1>2, <1>4, <2>1, <2>2
<1> DEFINE out == CopyOut(data, ptr, s)
           run == SubSeq(Contents, pos + 1, pos + s)
<1>7. /\ out \in Seq(Byte) /\ run \in Seq(Byte)
      /\ Len(out) = Len(run) /\ \A k \in 1 .. Len(out) : out[k] = run[k]
  BY <1>4, <1>5, <1>6
<1> HIDE DEF out, run
<1>8. out = run
  BY <1>7, SeqEqual
<1>9. QED
  BY <1>8 DEF ptr, out, run

(* Every function of x_queue.c does what the abstract FIFO does.           *)
LEMMA StepIsFifoStep == TypeOK /\ TypeOK' /\ [Next]_vars => [Fifo!Next]_(Fifo!fifoVars)
<1> SUFFICES ASSUME TypeOK, TypeOK', [Next]_vars
             PROVE  [Fifo!Next]_(Fifo!fifoVars)
  OBVIOUS
<1> USE SizeAssumption
<1>0. /\ Contents \in Seq(Byte) /\ Len(Contents) = Count
      /\ Count \in 0 .. Size /\ Start \in Cells
  BY ContentsSeq DEF ContentsShape, TypeOK
<1>1. ASSUME NEW b \in Inputs, x_queue_write(b) PROVE Fifo!Put(b)
  <2>1. b \in Seq(Byte) /\ Len(b) \in Nat
    BY InputsAssumption
  <2>2. Fits(b) <=> Fifo!Accepts(Contents, b)
    BY <1>0, <2>1 DEF Fits, Fifo!Accepts
  <2>3. CASE Fits(b)
    <3>1. Contents' = Contents \o b
      BY <1>1, <2>3, WriteAppends
    <3>2. ret' = Len(b) /\ buf' = buf
      BY <1>1, <2>3 DEF x_queue_write
    <3>3. QED
      BY <2>2, <2>3, <3>1, <3>2 DEF Fifo!Put, Fifo!AfterPut
  <2>4. CASE ~Fits(b)
    <3>1. ret' = 0 /\ UNCHANGED <<Count, Start, data, buf>>
      BY <1>1, <2>4 DEF x_queue_write
    <3>2. Contents' = Contents
      BY <3>1 DEF Contents
    <3>3. QED
      BY <2>2, <2>4, <3>1, <3>2 DEF Fifo!Put, Fifo!AfterPut
  <2>5. QED
    BY <2>3, <2>4
<1>2. ASSUME NEW s \in Requests, x_queue_read(s) PROVE Fifo!Take(s)
  <2>1. s \in Nat
    BY RequestsAssumption
  <2>2. CASE Count >= s
    <3>1. /\ buf' = CopyOut(data, Start, s) /\ Start' = StartAfter(s)
          /\ Count' = Count - s /\ ret' = s /\ data' = data
      BY <1>0, <1>2, <2>1, <2>2 DEF x_queue_read
    <3>2. /\ Start' = IF Start + s < Size THEN Start + s ELSE Start + s - Size
          /\ s \in 0 .. Count
      BY <1>0, <2>1, <2>2, <3>1, StartAfterIsMod, FromStart
    <3>3. Contents' = SubSeq(Contents, s + 1, Len(Contents))
      BY <3>1, <3>2, TakeDrops
    <3>4. CopyOut(data, (Start + 0) % Size, s) = SubSeq(Contents, 0 + 1, 0 + s)
      BY <1>0, <2>1, <3>2, CopyOutDelivers
    <3>5. (Start + 0) % Size = Start
      BY <1>0, FromStart DEF Cells
    <3>6. buf' = SubSeq(Contents, 1, s)
      BY <2>1, <3>1, <3>4, <3>5
    <3>7. Fifo!Holds(Contents, s)
      BY <1>0, <2>2 DEF Fifo!Holds
    <3>8. QED
      BY <3>1, <3>3, <3>6, <3>7 DEF Fifo!Take, Fifo!AfterTake, Fifo!Taken
  <2>3. CASE ~(Count >= s)
    <3>1. ret' = 0 /\ UNCHANGED <<Count, Start, data, buf>>
      BY <1>2, <2>3 DEF x_queue_read
    <3>2. Contents' = Contents
      BY <3>1 DEF Contents
    <3>3. ~Fifo!Holds(Contents, s)
      BY <1>0, <2>1, <2>3 DEF Fifo!Holds
    <3>4. QED
      BY <3>1, <3>2, <3>3 DEF Fifo!Take
  <2>4. QED
    BY <2>2, <2>3
<1>3. ASSUME NEW pos \in Requests, NEW s \in Requests, x_queue_copy(pos, s)
      PROVE  Fifo!Peek(pos, s)
  <2>1. pos \in Nat /\ s \in Nat
    BY RequestsAssumption
  <2>2. UNCHANGED <<Count, Start, data>> /\ Contents' = Contents
    BY <1>3 DEF x_queue_copy, Contents
  <2>3. CASE pos + s <= Count
    <3>1. ret' = s /\ buf' = CopyOut(data, (Start + pos) % Size, s)
      BY <1>0, <1>3, <2>1, <2>3 DEF x_queue_copy
    <3>2. buf' = SubSeq(Contents, pos + 1, pos + s)
      BY <2>1, <2>3, <3>1, CopyOutDelivers
    <3>3. QED
      BY <1>0, <2>2, <2>3, <3>1, <3>2 DEF Fifo!Peek, Fifo!Holds
  <2>4. CASE ~(pos + s <= Count)
    <3>1. ret' = 0 /\ buf' = buf
      BY <1>0, <1>3, <2>1, <2>4 DEF x_queue_copy
    <3>2. QED
      BY <1>0, <2>2, <2>4, <3>1 DEF Fifo!Peek, Fifo!Holds
  <2>5. QED
    BY <2>3, <2>4
<1>4. ASSUME GetchContract, x_queue_getch PROVE Fifo!TakeOne
  <2>1. 1 \in 0 .. Count
    BY <1>0, <1>4 DEF GetchContract
  <2>2. /\ buf' = <<data[Start]>> /\ Start' = (Start + 1) % Size
        /\ Count' = Count - 1 /\ ret' = 1 /\ data' = data
    BY <1>0, <1>4 DEF x_queue_getch, GetchContract
  <2>0. Start' = IF Start + 1 < Size THEN Start + 1 ELSE Start + 1 - Size
    BY <1>0, <2>1, <2>2, FromStart
  <2>3. Contents' = SubSeq(Contents, 1 + 1, Len(Contents))
    BY <2>0, <2>1, <2>2, TakeDrops
  <2>4. SubSeq(Contents, 1, 1) = <<data[Start]>>
    <3>1. Contents[1] = data[Start]
      BY <1>0, <2>1, ContentsSeq DEF ContentsShape, Cells
    <3>2. /\ SubSeq(Contents, 1, 1) \in Seq(Byte) /\ Len(SubSeq(Contents, 1, 1)) = 1
          /\ SubSeq(Contents, 1, 1)[1] = Contents[1]
      BY <1>0, <2>1
    <3> DEFINE one == <<data[Start]>>
               front == SubSeq(Contents, 1, 1)
    <3>3. one \in Seq(Byte) /\ Len(one) = 1 /\ one[1] = data[Start]
      BY <1>0 DEF TypeOK
    <3>4. front \in Seq(Byte) /\ Len(front) = 1 /\ front[1] = data[Start]
      BY <3>1, <3>2
    <3> HIDE DEF one, front
    <3>5. front = one
      BY <3>3, <3>4, SeqEqual
    <3>6. QED
      BY <3>5 DEF one, front
  <2>5. Fifo!Holds(Contents, 1)
    BY <1>0, <2>1 DEF Fifo!Holds
  <2>6. QED
    BY <2>2, <2>3, <2>4, <2>5 DEF Fifo!TakeOne, Fifo!AfterTake, Fifo!Taken
<1>5. ASSUME x_queue_count PROVE Fifo!Length
  BY <1>0, <1>5 DEF x_queue_count, Fifo!Length, Contents
<1>6. ASSUME x_queue_clear PROVE Fifo!Reset
  <2>1. ContentsShape'
    BY ContentsSeq, PTL
  <2>2. Contents' \in Seq(Byte) /\ Len(Contents') = 0
    BY <1>6, <2>1 DEF x_queue_clear, ContentsShape
  <2>3. QED
    BY <1>6, <2>2 DEF x_queue_clear, Fifo!Reset
<1>7. ASSUME UNCHANGED vars PROVE UNCHANGED Fifo!fifoVars
  BY <1>7 DEF vars, Fifo!fifoVars, Contents
<1>8. QED
  BY <1>1, <1>2, <1>3, <1>4, <1>5, <1>6, <1>7 DEF Next, Fifo!Next

(* The ring buffer implements the bounded FIFO of ByteFifo, for every      *)
(* capacity, every set of bytes and every sequence of calls.               *)
THEOREM ImplementsFifo == Spec => IsFifo
<1>1. Init => Fifo!Init
  BY DEF Init, Fifo!Init, Contents
<1>2. QED
  BY <1>1, StepIsFifoStep, TypeCorrect, PTL DEF Spec, IsFifo, Fifo!Spec

=============================================================================
