-------------------------- MODULE NTVServiceProofs --------------------------
(***************************************************************************)
(* The daemon as a whole keeps the specifications of its two halves, and   *)
(* what holds of each of them alone gives the way of the stream from the   *)
(* socket to the screen.                                                   *)
(***************************************************************************)
EXTENDS NTVService, SequenceTheorems, TLAPS

\* The halves again, with what was proved about them.
PP == INSTANCE StreamPumpProofs
SP == INSTANCE AudienceProofs WITH Batches <- Runs

(***************************************************************************)
(* The pump.                                                               *)
(***************************************************************************)

(* Steps that leave the pump's variables alone are stutters of the pump.   *)
LEMMA PumpStutters == UNCHANGED pumpVars => UNCHANGED P!vars
BY DEF pumpVars, P!vars, P!threadVars, P!queueVars, P!localVars, P!socketVars,
       P!histVars

(* Every step of the daemon is a step of its pump or none: a callback runs *)
(* while the event thread is in its loop and touches the pump by shutting  *)
(* the socket down or by ending the process only.                          *)
LEMMA PumpStep == [Next]_vars => [P!Next]_(P!vars)
<1> SUFFICES ASSUME [Next]_vars PROVE P!Next \/ UNCHANGED P!vars
  OBVIOUS
<1>1. CASE UNCHANGED vars
  BY <1>1, PumpStutters DEF vars
<1>2. CASE Main \/ LockMain \/ LockEvent \/ Encoder
  BY <1>2 DEF Main, LockMain, LockEvent, Encoder, P!Next
<1>3. CASE Loop
  BY <1>3 DEF Loop, FanOut, P!Next, P!EventStep
<1>4. CASE Outside
  BY <1>4, PumpStutters DEF Outside
<1>5. ASSUME NEW c \in S!Conns, Callback(c) PROVE P!Next \/ UNCHANGED P!vars
  BY <1>5, PumpStutters DEF Callback, EndsMain, P!Next
<1>6. QED
  BY <1>1, <1>2, <1>3, <1>4, <1>5 DEF Next

(* What the pump was shown to guarantee alone holds of the daemon.         *)
THEOREM DaemonIsPump == Spec => IsPump
<1>1. Init => P!Init
  BY DEF Init
<1>2. QED
  BY <1>1, PumpStep, PTL DEF Spec, IsPump, P!Spec

(***************************************************************************)
(* The bytes of a run of packets.                                          *)
(***************************************************************************)

Byte == 0 .. MaxSent
PacketOf == [1 .. Packet -> Byte]

(* Packet k, byte r + 1, both counted from 0, and back.                    *)
LEMMA Cells ==
  ASSUME NEW p \in Nat \ {0}
  PROVE  /\ \A k \in Nat, r \in 0 .. p - 1 :
              (k * p + r) \div p = k /\ (k * p + r) % p = r
         /\ \A i \in Nat : /\ i \div p \in Nat /\ i % p \in 0 .. p - 1
                           /\ i = (i \div p) * p + (i % p)
<1>1. ASSUME NEW i \in Nat
      PROVE  /\ i \div p \in Nat /\ i % p \in 0 .. p - 1
             /\ i = (i \div p) * p + (i % p)
  OBVIOUS
<1>2. ASSUME NEW k \in Nat, NEW r \in 0 .. p - 1
      PROVE  (k * p + r) \div p = k /\ (k * p + r) % p = r
  OBVIOUS
<1>3. QED
  BY <1>1, <1>2

(* The cell of a byte is in a packet before n exactly if it is before the  *)
(* end of n packets.                                                       *)
LEMMA Before ==
  ASSUME NEW p \in Nat \ {0}, NEW n \in Nat, NEW i \in Nat
  PROVE  i < n * p <=> i \div p < n
OBVIOUS

(* Whole packets in front shift the packet number and leave the place in   *)
(* the packet.                                                             *)
LEMMA Shift ==
  ASSUME NEW p \in Nat \ {0}, NEW n \in Nat, NEW i \in Nat
  PROVE  (n * p + i) \div p = n + (i \div p) /\ (n * p + i) % p = i % p
<1> DEFINE k == i \div p
           r == i % p
<1>1. k \in Nat /\ r \in 0 .. p - 1 /\ i = k * p + r
  BY Cells
<1> HIDE DEF k, r
<1>2. n * p + k * p = (n + k) * p
  BY <1>1
<1>3. n * p + i = (n + k) * p + r
  <2>1. n * p \in Nat /\ k * p \in Nat /\ (n + k) * p \in Nat
    BY <1>1
  <2>2. QED
    BY <1>1, <1>2, <2>1
<1>4. n + k \in Nat
  BY <1>1
<1>5. ((n + k) * p + r) \div p = n + k /\ ((n + k) * p + r) % p = r
  BY <1>1, <1>4, Cells
<1>6. QED
  BY <1>3, <1>5 DEF k, r

(* The bytes of a run of packets are bytes, Packet of them for each        *)
(* packet, and byte i is found in its packet at its place.                 *)
LEMMA BytesAre ==
  ASSUME NEW s \in Seq(PacketOf)
  PROVE  /\ Len(s) \in Nat /\ Len(s) * Packet \in Nat
         /\ Bytes(s) \in Seq(Byte) /\ Len(Bytes(s)) = Len(s) * Packet
         /\ \A i \in 1 .. Len(s) * Packet :
              /\ (i - 1) \div Packet + 1 \in 1 .. Len(s)
              /\ ((i - 1) % Packet) + 1 \in 1 .. Packet
              /\ Bytes(s)[i] = s[(i - 1) \div Packet + 1][((i - 1) % Packet) + 1]
<1>0. Packet \in Nat \ {0} /\ Len(s) \in Nat
  BY PumpAssumption
<1>1. Len(s) * Packet \in Nat
  BY <1>0
<1>2. ASSUME NEW i \in 1 .. Len(s) * Packet
      PROVE  /\ (i - 1) \div Packet + 1 \in 1 .. Len(s)
             /\ ((i - 1) % Packet) + 1 \in 1 .. Packet
             /\ s[(i - 1) \div Packet + 1][((i - 1) % Packet) + 1] \in Byte
  <2> DEFINE j == i - 1
             k == j \div Packet
             r == j % Packet
  <2>1. j \in Nat /\ j < Len(s) * Packet
    BY <1>1
  <2>2. k \in Nat /\ r \in 0 .. Packet - 1
    BY <1>0, <2>1, Cells
  <2>3. k < Len(s)
    BY <1>0, <2>1, Before
  <2> HIDE DEF k, r
  <2>4. k + 1 \in 1 .. Len(s) /\ r + 1 \in 1 .. Packet
    BY <1>0, <2>2, <2>3
  <2>5. s[k + 1] \in [1 .. Packet -> Byte]
    BY <2>4, ElementOfSeq DEF PacketOf
  <2>6. s[k + 1][r + 1] \in Byte
    BY <2>4, <2>5
  <2>7. QED
    BY <2>4, <2>6 DEF k, r
<1>3. Bytes(s) = [i \in 1 .. Len(s) * Packet |->
                    s[(i - 1) \div Packet + 1][((i - 1) % Packet) + 1]]
  BY DEF Bytes
<1>4. Bytes(s) \in [1 .. Len(s) * Packet -> Byte]
  BY <1>2, <1>3, Zenon
<1>5. Bytes(s) \in Seq(Byte) /\ Len(Bytes(s)) = Len(s) * Packet
  BY <1>1, <1>4
<1>6. QED
  BY <1>0, <1>1, <1>2, <1>3, <1>5

(* Bytes of one run after another.                                         *)
LEMMA BytesJoin ==
  ASSUME NEW s \in Seq(PacketOf), NEW t \in Seq(PacketOf)
  PROVE  Bytes(s \o t) = Bytes(s) \o Bytes(t)
<1> DEFINE a == Len(s) * Packet
           b == Len(t) * Packet
           B == Bytes(s \o t)
           C == Bytes(s) \o Bytes(t)
<1>0. Packet \in Nat \ {0} /\ Len(s) \in Nat /\ Len(t) \in Nat
  BY PumpAssumption
<1>1. /\ s \o t \in Seq(PacketOf) /\ Len(s \o t) = Len(s) + Len(t)
      /\ \A i \in 1 .. Len(s) + Len(t) : (s \o t)[i] =
                     IF i <= Len(s) THEN s[i] ELSE t[i - Len(s)]
  BY ConcatProperties
<1>2. a \in Nat /\ b \in Nat /\ (Len(s) + Len(t)) * Packet = a + b
  BY <1>0
<1>3. /\ B \in Seq(Byte) /\ Len(B) = a + b
      /\ \A i \in 1 .. a + b : B[i] = (s \o t)[(i - 1) \div Packet + 1][((i - 1) % Packet) + 1]
  <2>1. (Len(s \o t)) * Packet = a + b
    BY <1>1, <1>2
  <2>2. QED
    BY <1>1, <2>1, BytesAre, Zenon
<1>4. /\ Bytes(s) \in Seq(Byte) /\ Len(Bytes(s)) = a
      /\ Bytes(t) \in Seq(Byte) /\ Len(Bytes(t)) = b
  BY BytesAre
<1>5. /\ C \in Seq(Byte) /\ Len(C) = a + b
      /\ \A i \in 1 .. a + b : C[i] = IF i <= a THEN Bytes(s)[i] ELSE Bytes(t)[i - a]
  <2> HIDE DEF a, b
  <2>1. /\ C \in Seq(Byte) /\ Len(C) = Len(Bytes(s)) + Len(Bytes(t))
        /\ \A i \in 1 .. Len(Bytes(s)) + Len(Bytes(t)) :
             C[i] = IF i <= Len(Bytes(s)) THEN Bytes(s)[i] ELSE Bytes(t)[i - Len(Bytes(s))]
    BY <1>4, ConcatProperties
  <2> HIDE DEF C
  <2>2. QED
    BY <1>4, <2>1, Zenon
<1>6. ASSUME NEW i \in 1 .. a + b, i <= a PROVE B[i] = C[i]
  <2> DEFINE k == (i - 1) \div Packet + 1
             r == ((i - 1) % Packet) + 1
  <2>1. i \in 1 .. a
    BY <1>2, <1>6
  <2>2. k \in 1 .. Len(s) /\ Bytes(s)[i] = s[k][r]
    BY <2>1, BytesAre
  <2>3. B[i] = (s \o t)[k][r]
    BY <1>3
  <2> HIDE DEF k, r, B, C, a
  <2>4. (s \o t)[k] = s[k]
    BY <1>0, <1>1, <2>2
  <2>5. C[i] = Bytes(s)[i]
    BY <1>5, <1>6
  <2>6. QED
    BY <2>2, <2>3, <2>4, <2>5
<1>7. ASSUME NEW i \in 1 .. a + b, ~(i <= a) PROVE B[i] = C[i]
  <2> DEFINE j == i - a
             k == (j - 1) \div Packet + 1
             r == ((j - 1) % Packet) + 1
  <2>1. j \in 1 .. b /\ j - 1 \in Nat /\ i - 1 = a + (j - 1)
    BY <1>2, <1>7
  <2>2. k \in 1 .. Len(t) /\ Bytes(t)[j] = t[k][r]
    BY <2>1, BytesAre
  <2>3. (i - 1) \div Packet = Len(s) + ((j - 1) \div Packet) /\ (i - 1) % Packet = (j - 1) % Packet
    <3>1. (a + (j - 1)) \div Packet = Len(s) + ((j - 1) \div Packet)
          /\ (a + (j - 1)) % Packet = (j - 1) % Packet
      BY <1>0, <2>1, Shift
    <3>2. QED
      BY <2>1, <3>1
  <2>4. B[i] = (s \o t)[(Len(s) + ((j - 1) \div Packet)) + 1][r]
    BY <1>3, <2>3
  <2>5. B[i] = (s \o t)[Len(s) + k][r]
    <3>1. (j - 1) \div Packet \in Nat
      BY <1>0, <2>1, Cells
    <3>2. (Len(s) + ((j - 1) \div Packet)) + 1 = Len(s) + k
      BY <1>0, <3>1
    <3>3. QED
      BY <2>4, <3>2
  <2>6. C[i] = Bytes(t)[j]
    BY <1>5, <1>7
  <2> HIDE DEF k, r, B, C, a, b, j
  <2>7. (s \o t)[Len(s) + k] = t[k]
    <3>1. Len(s) + k \in 1 .. Len(s) + Len(t) /\ ~(Len(s) + k <= Len(s)) /\ (Len(s) + k) - Len(s) = k
      BY <1>0, <2>2
    <3>2. QED
      BY <1>1, <3>1
  <2>8. QED
    BY <2>2, <2>5, <2>6, <2>7
<1> HIDE DEF a, b, B, C
<1>8. \A i \in 1 .. Len(B) : B[i] = C[i]
  BY <1>3, <1>6, <1>7
<1>9. B = C
  BY <1>3, <1>5, <1>8, SeqEqual
<1>10. QED
  BY <1>9 DEF B, C

(* What timeout_cb cuts into packets are packets.                          *)
LEMMA PacketsAre ==
  ASSUME NEW b \in Seq(Byte)
  PROVE  /\ Packets(b) \in Seq(PacketOf) /\ Len(Packets(b)) = Len(b) \div Packet
         /\ Len(b) \div Packet \in Nat
         /\ \A k \in 1 .. Len(b) \div Packet, r \in 1 .. Packet :
              Packets(b)[k][r] = b[(k - 1) * Packet + r]
<1> DEFINE n == Len(b) \div Packet
<1>0. Packet \in Nat \ {0} /\ Len(b) \in Nat
  BY PumpAssumption
<1>1. n \in Nat /\ n * Packet <= Len(b) /\ n * Packet \in Nat
  BY <1>0
<1> HIDE DEF n
<1>2. ASSUME NEW k \in 1 .. n
      PROVE  /\ SubSeq(b, (k - 1) * Packet + 1, k * Packet) \in PacketOf
             /\ \A r \in 1 .. Packet :
                  SubSeq(b, (k - 1) * Packet + 1, k * Packet)[r] = b[(k - 1) * Packet + r]
  <2> DEFINE m == (k - 1) * Packet
  <2>1. m \in Nat /\ k * Packet = m + Packet
    BY <1>0, <1>1
  <2>2. k * Packet <= n * Packet
    BY <1>0, <1>1
  <2> HIDE DEF m
  <2>3. m + Packet <= Len(b)
    BY <1>0, <1>1, <2>1, <2>2
  <2>4. /\ m + 1 \in Int /\ m + Packet \in Int
        /\ \A i \in m + 1 .. m + Packet : i \in 1 .. Len(b)
    BY <1>0, <2>1, <2>3
  <2>5. \A i \in m + 1 .. m + Packet : b[i] \in Byte
    BY <2>4, ElementOfSeq
  <2> DEFINE w == SubSeq(b, m + 1, m + Packet)
  <2>6. /\ w \in Seq(Byte)
        /\ Len(w) = IF m + 1 <= m + Packet THEN (m + Packet) - (m + 1) + 1 ELSE 0
        /\ \A i \in 1 .. (m + Packet) - (m + 1) + 1 : w[i] = b[m + 1 + i - 1]
    BY <2>4, <2>5, SubSeqProperties
  <2> HIDE DEF w
  <2>7. /\ w \in Seq(Byte) /\ Len(w) = Packet
        /\ \A i \in 1 .. Packet : w[i] = b[m + i]
    BY <1>0, <2>1, <2>6
  <2>8. w \in PacketOf
    BY <1>0, <2>7, LenProperties DEF PacketOf
  <2>9. SubSeq(b, (k - 1) * Packet + 1, k * Packet) = w
    BY <2>1 DEF w, m
  <2>10. QED
    BY <2>7, <2>8, <2>9 DEF m
<1>3. Packets(b) = [k \in 1 .. n |-> SubSeq(b, (k - 1) * Packet + 1, k * Packet)]
  BY DEF Packets, n
<1>4. Packets(b) \in [1 .. n -> PacketOf]
  BY <1>2, <1>3, Zenon
<1>5. Packets(b) \in Seq(PacketOf) /\ Len(Packets(b)) = n
  BY <1>1, <1>4
<1>6. \A k \in 1 .. n, r \in 1 .. Packet : Packets(b)[k][r] = b[(k - 1) * Packet + r]
  BY <1>2, <1>3
<1>7. QED
  BY <1>1, <1>5, <1>6 DEF n

(* Cutting whole packets and writing them one after the other gives the    *)
(* bytes back.                                                             *)
LEMMA BytesOfPackets ==
  ASSUME NEW b \in Seq(Byte), Len(b) % Packet = 0
  PROVE  Bytes(Packets(b)) = b
<1> DEFINE n == Len(b) \div Packet
           B == Bytes(Packets(b))
<1>0. Packet \in Nat \ {0} /\ Len(b) \in Nat
  BY PumpAssumption
<1>1. n \in Nat /\ Len(b) = n * Packet
  <2>1. n \in Nat /\ Len(b) = n * Packet + (Len(b) % Packet)
    BY <1>0, Cells
  <2> HIDE DEF n
  <2>2. n * Packet \in Nat
    BY <1>0, <2>1
  <2>3. QED
    BY <2>1, <2>2
<1>2. /\ Packets(b) \in Seq(PacketOf) /\ Len(Packets(b)) = n
      /\ \A k \in 1 .. n, r \in 1 .. Packet :
              Packets(b)[k][r] = b[(k - 1) * Packet + r]
  BY PacketsAre
<1> HIDE DEF n
<1>3. /\ B \in Seq(Byte) /\ Len(B) = Len(b)
      /\ \A i \in 1 .. Len(b) :
              /\ (i - 1) \div Packet + 1 \in 1 .. n
              /\ ((i - 1) % Packet) + 1 \in 1 .. Packet
              /\ B[i] = Packets(b)[(i - 1) \div Packet + 1][((i - 1) % Packet) + 1]
  BY <1>1, <1>2, BytesAre
<1>4. ASSUME NEW i \in 1 .. Len(b) PROVE B[i] = b[i]
  <2> DEFINE k == (i - 1) \div Packet
             r == (i - 1) % Packet
  <2>1. i - 1 \in Nat
    BY <1>0
  <2>2. k \in Nat /\ r \in 0 .. Packet - 1 /\ i - 1 = k * Packet + r
    BY <1>0, <2>1, Cells
  <2>3. k + 1 \in 1 .. n /\ r + 1 \in 1 .. Packet /\ B[i] = Packets(b)[k + 1][r + 1]
    BY <1>3
  <2> HIDE DEF k, r, B
  <2>4. B[i] = b[((k + 1) - 1) * Packet + (r + 1)]
    BY <1>2, <2>3
  <2>5. ((k + 1) - 1) * Packet + (r + 1) = i
    <3>1. (k + 1) - 1 = k /\ k * Packet \in Nat
      BY <1>0, <2>2
    <3>2. QED
      BY <1>0, <2>2, <3>1
  <2>6. QED
    BY <2>4, <2>5
<1> HIDE DEF B
<1>5. B = b
  BY <1>3, <1>4, SeqEqual
<1>6. QED
  BY <1>5 DEF B

(***************************************************************************)
(* What the halves guarantee alone.                                        *)
(***************************************************************************)

(* The pump starts, and keeps its variables, the same in both instances.   *)
LEMMA SamePump == /\ P!Init <=> PP!Init
                  /\ P!vars = PP!vars /\ P!vars' = PP!vars'
BY DEF P!Init, PP!Init, P!vars, PP!vars, P!threadVars, P!queueVars,
       P!localVars, P!socketVars, P!histVars, PP!threadVars, PP!queueVars,
       PP!localVars, PP!socketVars, PP!histVars

(* The pump takes the same steps in both instances.                        *)
LEMMA SamePumpNext == P!Next <=> PP!Next
BY DEF P!Next, PP!Next, P!Deliver, PP!Deliver, P!MainStep, PP!MainStep,
       P!LockMain, PP!LockMain, P!EventStep, PP!EventStep, P!LockEvent,
       PP!LockEvent, P!cmd_shutdown, PP!cmd_shutdown,
       P!SendsThroughDeletedRC, PP!SendsThroughDeletedRC, P!threadVars,
       P!queueVars, P!localVars, P!socketVars, P!histVars, PP!threadVars,
       PP!queueVars, PP!localVars, PP!socketVars, PP!histVars,
       P!x_thread_start, P!socket, P!bind, P!recvfrom, P!WriteQueue,
       P!UnlockMain, P!DeleteRC, P!x_queue_free, P!return,
       PP!x_thread_start, PP!socket, PP!bind, PP!recvfrom, PP!WriteQueue,
       PP!UnlockMain, PP!DeleteRC, PP!x_queue_free, PP!return,
       P!event_base_new, P!evconnlistener_new_bind, P!TimeoutStep, P!FanOut,
       PP!event_base_new, PP!evconnlistener_new_bind, PP!TimeoutStep,
       PP!FanOut, P!TimerFires, P!x_queue_count, P!x_queue_read,
       P!UnlockEvent, PP!TimerFires, PP!x_queue_count, PP!x_queue_read,
       PP!UnlockEvent, P!Ended, PP!Ended, P!Die, PP!Die, P!At, PP!At,
       P!EventAt, PP!EventAt, P!x_lock_lock, PP!x_lock_lock,
       P!x_lock_unlock, PP!x_lock_unlock, P!Received, PP!Received,
       P!EndOfStream, PP!EndOfStream, P!Stored, PP!Stored, P!Accepts,
       PP!Accepts, P!packetSize, PP!packetSize, P!Taken, PP!Taken,
       P!AfterTake, PP!AfterTake, P!Junk, PP!Junk

(* The sessions start, and keep their variables, the same in both          *)
(* instances.                                                              *)
LEMMA SameSessions == /\ S!Init <=> SP!Init
                      /\ S!vars = SP!vars /\ S!vars' = SP!vars'
BY DEF S!Init, SP!Init, S!vars, SP!vars, S!tableVars, S!networkVars,
       S!configVars, S!effectVars, S!streamVars, SP!tableVars,
       SP!networkVars, SP!configVars, SP!effectVars, SP!streamVars, S!Slots,
       SP!Slots, S!Conns, SP!Conns, S!EmptySlot, SP!EmptySlot

(* The sessions take the same steps in both instances.                     *)
LEMMA SameSessionsNext == S!Next <=> SP!Next
BY DEF S!Next, SP!Next, S!tableVars, S!networkVars, S!configVars,
       S!effectVars, S!streamVars, SP!tableVars, SP!networkVars,
       SP!configVars, SP!effectVars, SP!streamVars, S!Slots, SP!Slots,
       S!Conns, SP!Conns, S!Connect, SP!Connect, S!Send, SP!Send, S!End,
       SP!End, S!InUse, SP!InUse, S!LoggedIn, SP!LoggedIn, S!Accepted,
       SP!Accepted, S!FirstFree, SP!FirstFree, S!Fill, SP!Fill,
       S!UserConnect, SP!UserConnect, S!UserDisconnect, SP!UserDisconnect,
       S!Refuse, SP!Refuse, S!listener_cb, SP!listener_cb, S!Ended,
       SP!Ended, S!conn_eventcb, SP!conn_eventcb, S!ReadsHead, SP!ReadsHead,
       S!KeysRead, SP!KeysRead, S!Accepts, SP!Accepts, S!Grant, SP!Grant,
       S!conn_readcb_login, SP!conn_readcb_login, S!MayAsk, SP!MayAsk,
       S!conn_readcb_key, SP!conn_readcb_key, S!conn_readcb_cmd,
       SP!conn_readcb_cmd, S!conn_readcb_other, SP!conn_readcb_other,
       S!conn_readcb, SP!conn_readcb, S!HeaderFor, SP!HeaderFor, S!KeyFor,
       SP!KeyFor, S!conn_localhostcb, SP!conn_localhostcb, S!Watching,
       SP!Watching, S!FanOut, SP!FanOut, S!Callback, SP!Callback,
       S!Cardinality, SP!Cardinality

(* The pump alone keeps its inductive invariant.                           *)
LEMMA PumpInvariant == PP!Spec => []PP!IInv
BY PP!Inductive, PumpAssumption

(* The pump alone hands on runs of bytes, a packet or more at a time.      *)
LEMMA PumpPackets == PP!Spec => [](PP!Numbered /\ PP!Filled)
BY PP!HandsOnPackets, PumpAssumption

(* What timeout_cb may find in the queue is a run.                         *)
LEMMA RunsAreRuns == \A b \in Runs : b \in Seq(SP!Range(b))
BY DEF Runs, SP!Range

(* The pump alone keeps the order and the grid of the stream.              *)
LEMMA PumpOrder == PP!Spec => [](PP!InOrder /\ PP!Aligned)
<1>1. PP!Spec => []PP!InOrder
  BY PP!DatagramsStayInOrder, PumpAssumption
<1>2. PP!Spec => []PP!Aligned
  BY PP!StreamStaysAligned, PumpAssumption
<1>3. QED
  BY <1>1, <1>2, PTL

(* The sessions alone write every user all that is fanned out after its    *)
(* login.                                                                  *)
LEMMA SessionsStream == SP!Spec => []SP!StreamInv
BY SP!StreamInductive, TableAssumption, MessagesAssumption, RunsAreRuns DEF SP!Conns

(***************************************************************************)
(* The sessions.                                                           *)
(***************************************************************************)

(* What has been fanned out are packets; and before the queue is freed     *)
(* they are, byte by byte, what the pump has handed on.                    *)
Joined == /\ fanned \in Seq(PacketOf)
          /\ ~freed => streamed = Bytes(fanned)

(* Nothing has been handed on at first.                                    *)
LEMMA InitJoined == Init => Joined
<1> SUFFICES ASSUME Init PROVE Joined
  OBVIOUS
<1>1. fanned = << >> /\ streamed = << >>
  BY DEF Init, S!Init, P!Init
<1>2. << >> \in Seq(PacketOf) /\ Len(<< >>) = 0 /\ << >> \in Seq(Byte)
  BY EmptySeq
<1>3. Bytes(<< >>) \in Seq(Byte) /\ Len(Bytes(<< >>)) = 0 * Packet
  BY <1>2, BytesAre
<1>4. 0 * Packet = 0
  BY PumpAssumption
<1>5. Bytes(<< >>) = << >>
  BY <1>2, <1>3, <1>4, EmptySeq
<1>6. QED
  BY <1>1, <1>2, <1>5 DEF Joined

(* A step that is not a fan-out leaves what was handed on alone.           *)
LEMMA OnlyFanOutHandsOn ==
  ASSUME [Next]_vars, ~FanOut, PP!IInv
  PROVE  UNCHANGED <<fanned, streamed>> /\ (freed => freed')
<1>1. CASE UNCHANGED vars
  BY <1>1 DEF vars, pumpVars, sessionVars
<1>2. CASE Main \/ LockMain
  BY <1>2 DEF Main, LockMain, sessionVars, P!MainStep, P!x_thread_start, P!socket, P!bind,
     P!recvfrom, P!WriteQueue, P!UnlockMain, P!DeleteRC, P!x_queue_free, P!return,
     P!LockMain, P!queueVars, P!histVars
<1>3. CASE LockEvent \/ Encoder
  <2>1. CASE LockEvent
    BY <2>1 DEF LockEvent, sessionVars, P!LockEvent, P!histVars
  <2>2. CASE Encoder
    <3>1. PICK n \in Datagrams : P!Deliver(n)
      BY <2>2 DEF Encoder
    <3>2. UNCHANGED <<streamed, freed>>
      BY <3>1 DEF P!Deliver, P!queueVars, P!histVars
    <3>3. QED
      BY <2>2, <3>2 DEF Encoder, sessionVars
  <2>3. QED
    BY <1>3, <2>1, <2>2
<1>4. CASE Loop
  <2>1. UNCHANGED sessionVars
        /\ (P!event_base_new \/ P!evconnlistener_new_bind \/ P!TimeoutStep)
    BY <1>4 DEF Loop
  <2>2. CASE P!event_base_new \/ P!evconnlistener_new_bind
    BY <2>1, <2>2 DEF sessionVars, P!event_base_new, P!evconnlistener_new_bind,
       P!queueVars, P!histVars
  <2>3. CASE P!TimeoutStep
    BY <2>1, <2>3 DEF sessionVars, P!TimeoutStep, P!TimerFires, P!x_queue_count,
       P!x_queue_read, P!UnlockEvent, P!queueVars, P!histVars
  <2>4. QED
    BY <2>1, <2>2, <2>3
<1>5. CASE Outside
  BY <1>5 DEF Outside, pumpVars, S!Connect, S!Send, S!End, S!streamVars
<1>6. ASSUME NEW c \in S!Conns, Callback(c)
      PROVE  UNCHANGED <<fanned, streamed>> /\ (freed => freed')
  <2>1. UNCHANGED <<streamed, freed>>
    BY <1>6 DEF Callback, pumpVars, EndsMain, P!cmd_shutdown, P!SendsThroughDeletedRC,
       P!queueVars, P!histVars
  <2>2. UNCHANGED fanned
    BY <1>6 DEF Callback, S!listener_cb, S!conn_eventcb, S!conn_readcb, S!conn_readcb_login,
       S!conn_readcb_key, S!conn_readcb_cmd, S!conn_readcb_other, S!conn_localhostcb,
       S!streamVars
  <2>3. QED
    BY <2>1, <2>2
<1>7. QED
  BY <1>1, <1>2, <1>3, <1>4, <1>5, <1>6 DEF Next

(* A fan-out hands the same bytes on to the pump and to the sessions.      *)
LEMMA JoinedStep == PP!IInv /\ PP!Numbered /\ Joined /\ [Next]_vars => Joined'
<1> SUFFICES ASSUME PP!IInv, PP!Numbered, Joined, [Next]_vars PROVE Joined'
  OBVIOUS
<1>1. CASE ~FanOut
  BY <1>1, OnlyFanOutHandsOn DEF Joined, Bytes
<1>2. CASE FanOut
  <2>1. fanned \in Seq(PacketOf) /\ tmpbuf \in Seq(Byte)
    BY DEF Joined, PP!Numbered, PP!Run, Byte
  <2>2. /\ fanned' = fanned \o Packets(tmpbuf) /\ freed' = freed
        /\ streamed' = IF freed THEN streamed ELSE streamed \o tmpbuf
    BY <1>2 DEF FanOut, P!FanOut, S!FanOut, P!queueVars
  <2>3. Packets(tmpbuf) \in Seq(PacketOf)
    BY <2>1, PacketsAre
  <2>4. fanned' \in Seq(PacketOf)
    BY <2>1, <2>2, <2>3, ConcatProperties
  <2>5. ASSUME ~freed PROVE streamed' = Bytes(fanned')
    <3>1. Len(tmpbuf) % Packet = 0
      BY <2>5 DEF PP!IInv, PP!StreamConserved
    <3>2. Bytes(Packets(tmpbuf)) = tmpbuf
      BY <2>1, <3>1, BytesOfPackets
    <3>3. Bytes(fanned \o Packets(tmpbuf)) = Bytes(fanned) \o Bytes(Packets(tmpbuf))
      BY <2>1, <2>3, BytesJoin
    <3>4. QED
      BY <2>2, <2>5, <3>2, <3>3 DEF Joined
  <2>6. QED
    BY <2>2, <2>4, <2>5 DEF Joined
<1>3. QED
  BY <1>1, <1>2

(* A fan-out hands on one of the runs that Sessions takes from its queue.  *)
LEMMA FanOutTakesARun ==
  ASSUME PP!IInv, PP!Numbered, PP!Filled, Joined, FanOut
  PROVE  /\ Packets(tmpbuf) \in Runs
         /\ Len(fanned) + Len(Packets(tmpbuf)) <= MaxPackets
<1> DEFINE n == Len(tmpbuf) \div Packet
<1>0. Packet \in Nat \ {0} /\ MaxPackets \in Nat
  BY PumpAssumption, TableAssumption
<1>1. tmpbuf \in Seq(Byte) /\ Len(tmpbuf) \in Nat /\ Len(fanned) \in Nat
  BY DEF Joined, PP!Numbered, PP!Run, Byte
<1>2. Len(tmpbuf) >= Packet
  BY DEF PP!Filled, FanOut, P!FanOut, P!EventAt
<1>3. Packets(tmpbuf) \in Seq(PacketOf) /\ Len(Packets(tmpbuf)) = n /\ n \in Nat
  BY <1>1, PacketsAre
<1>4. Len(fanned) + n <= MaxPackets
  BY DEF FanOut
<1>5. n >= 1
  BY <1>0, <1>1, <1>2
<1> HIDE DEF n
<1>6. n \in 1 .. MaxPackets
  BY <1>0, <1>1, <1>3, <1>4, <1>5
<1>7. Packets(tmpbuf) \in [1 .. n -> PacketOf]
  BY <1>3, LenProperties
<1>8. Packets(tmpbuf) \in Runs
  BY <1>6, <1>7 DEF Runs, PacketOf, Byte
<1>9. QED
  BY <1>3, <1>4, <1>8

(* Every step of the daemon is a step of its sessions or none.             *)
LEMMA SessionsStep ==
  PP!IInv /\ PP!Numbered /\ PP!Filled /\ Joined /\ [Next]_vars => [S!Next]_(S!vars)
<1> SUFFICES ASSUME PP!IInv, PP!Numbered, PP!Filled, Joined, [Next]_vars
             PROVE  S!Next \/ UNCHANGED S!vars
  OBVIOUS
<1>1. ASSUME UNCHANGED sessionVars PROVE UNCHANGED S!vars
  BY <1>1 DEF sessionVars, S!vars, S!tableVars, S!networkVars, S!configVars, S!effectVars,
     S!streamVars
<1>2. CASE UNCHANGED vars
  BY <1>1, <1>2 DEF vars
<1>3. CASE Main \/ LockMain \/ LockEvent \/ Encoder
  BY <1>1, <1>3 DEF Main, LockMain, LockEvent, Encoder
<1>4. CASE FanOut
  <2>1. S!FanOut(Packets(tmpbuf))
    BY <1>4 DEF FanOut
  <2>2. QED
    BY <1>4, <2>1, FanOutTakesARun DEF S!Next
<1>5. CASE Loop /\ ~FanOut
  BY <1>1, <1>5 DEF Loop
<1>6. CASE Outside
  BY <1>6 DEF Outside, S!Next
<1>7. ASSUME NEW c \in S!Conns, Callback(c) PROVE S!Next
  <2>1. S!listener_cb(c) \/ S!Callback(c)
    BY <1>7 DEF Callback, S!Callback, S!conn_readcb
  <2>2. QED
    BY <2>1 DEF S!Next
<1>8. QED
  BY <1>2, <1>3, <1>4, <1>5, <1>6, <1>7 DEF Next

(* The daemon implements the pump as its proofs know it, and so the pump's *)
(* invariant holds of the daemon, and what joins the halves.               *)
LEMMA PumpAgain == Spec => PP!Spec
<1>1. Init => PP!Init
  BY SamePump DEF Init
<1>2. [Next]_vars => [PP!Next]_(PP!vars)
  BY PumpStep, SamePump, SamePumpNext
<1>3. QED
  BY <1>1, <1>2, PTL DEF Spec, PP!Spec

(* What the pump hands on, in the daemon.                                  *)
LEMMA PumpOfDaemon == Spec => [](PP!IInv /\ PP!Numbered /\ PP!Filled)
BY PumpAgain, PumpInvariant, PumpPackets, PTL

(* In the daemon the packets fanned out are the bytes handed on.           *)
LEMMA JoinedOfDaemon == Spec => []Joined
BY PumpOfDaemon, InitJoined, JoinedStep, PTL DEF Spec

(* What was shown of the sessions alone holds of the daemon: the packets   *)
(* come out of the queue, keys go through the deleted remote control and   *)
(* the process may end at any time, and yet nothing else happens to slots, *)
(* logins and connections.                                                 *)
THEOREM DaemonIsSessions == Spec => IsSessions
<1>1. Init => S!Init
  BY DEF Init
<1>2. QED
  BY <1>1, PumpOfDaemon, JoinedOfDaemon, SessionsStep, PTL DEF Spec, IsSessions, S!Spec

(* So every user of the daemon is written all that is fanned out after its *)
(* login.                                                                  *)
LEMMA SessionsOfDaemon == Spec => []SP!StreamInv
<1>1. Init => SP!Init
  BY SameSessions DEF Init
<1>2. PP!IInv /\ PP!Numbered /\ PP!Filled /\ Joined /\ [Next]_vars
        => [SP!Next]_(SP!vars)
  BY SessionsStep, SameSessions, SameSessionsNext
<1>3. Spec => SP!Spec
  BY <1>1, <1>2, PumpOfDaemon, JoinedOfDaemon, PTL DEF Spec, SP!Spec
<1>4. QED
  BY <1>3, SessionsStream, PTL

(***************************************************************************)
(* From end to end.                                                        *)
(***************************************************************************)

(* What follows a beginning of a sequence.                                 *)
LEMMA RestOf ==
  ASSUME NEW T, NEW s \in Seq(T), NEW t \in Seq(T)
  PROVE  SubSeq(s \o t, Len(s) + 1, Len(s \o t)) = t
<1> DEFINE u == s \o t
           a == Len(s)
           b == Len(t)
           v == SubSeq(u, a + 1, a + b)
<1>1. a \in Nat /\ b \in Nat
  BY LenProperties
<1>2. /\ u \in Seq(T) /\ Len(u) = a + b
      /\ \A i \in 1 .. a + b : u[i] = IF i <= a THEN s[i] ELSE t[i - a]
  BY ConcatProperties
<1> HIDE DEF a, b, u
<1>3. \A i \in a + 1 .. a + b : u[i] \in T
  <2>1. \A i \in a + 1 .. a + b : i \in 1 .. Len(u)
    BY <1>1, <1>2
  <2>2. QED
    BY <1>2, <2>1, ElementOfSeq
<1>4. /\ v \in Seq(T) /\ Len(v) = IF a + 1 <= a + b THEN (a + b) - (a + 1) + 1 ELSE 0
      /\ \A i \in 1 .. (a + b) - (a + 1) + 1 : v[i] = u[a + 1 + i - 1]
  BY <1>1, <1>3, SubSeqProperties
<1> HIDE DEF v
<1>5. Len(v) = b
  BY <1>1, <1>4
<1>6. ASSUME NEW i \in 1 .. b PROVE v[i] = t[i]
  <2>1. v[i] = u[a + i]
    BY <1>1, <1>4
  <2>2. a + i \in 1 .. a + b /\ ~(a + i <= a) /\ (a + i) - a = i
    BY <1>1
  <2>3. u[a + i] = t[i]
    BY <1>2, <2>2
  <2>4. QED
    BY <2>1, <2>3
<1>7. v = t
  BY <1>4, <1>5, <1>6, SeqEqual DEF b
<1>8. QED
  BY <1>2, <1>7 DEF u, v, a

(* What follows the first element.                                         *)
LEMMA HeadThenRest ==
  ASSUME NEW T, NEW t \in Seq(T), NEW x
  PROVE  Tail(<<x>> \o t) = t
OBVIOUS

(* The end of what was fanned out, as bytes, is the end of what was        *)
(* streamed.                                                               *)
LEMMA SinceThen ==
  ASSUME NEW s \in Seq(PacketOf), NEW m \in 1 .. Len(s) + 1
  PROVE  \E a \in Seq(Byte) : /\ Len(a) = (m - 1) * Packet
                              /\ Bytes(s) = a \o Bytes(SubSeq(s, m, Len(s)))
<1> DEFINE h == SubSeq(s, 1, m - 1)
           e == SubSeq(s, m, Len(s))
<1>0. Len(s) \in Nat /\ m \in Nat \ {0} /\ m - 1 \in 0 .. Len(s)
  OBVIOUS
<1>1. h \o e = s
  <2>1. 1 \in 1 .. Len(s) + 1 /\ m - 1 \in 1 - 1 .. Len(s) /\ Len(s) \in m - 1 .. Len(s)
        /\ (m - 1) + 1 = m
    BY <1>0
  <2>2. SubSeq(s, 1, m - 1) \o SubSeq(s, (m - 1) + 1, Len(s)) = SubSeq(s, 1, Len(s))
    BY <2>1, ConcatAdjacentSubSeq
  <2>3. QED
    BY <2>1, <2>2, SubSeqFull
<1>2. h \in Seq(PacketOf) /\ Len(h) = m - 1 /\ e \in Seq(PacketOf)
  <2>1. \A i \in 1 .. Len(s) : s[i] \in PacketOf
    BY ElementOfSeq
  <2>2. \A i \in 1 .. m - 1 : s[i] \in PacketOf
    BY <1>0, <2>1
  <2>3. \A i \in m .. Len(s) : s[i] \in PacketOf
    BY <1>0, <2>1
  <2>4. h \in Seq(PacketOf) /\ Len(h) = IF 1 <= m - 1 THEN (m - 1) - 1 + 1 ELSE 0
    BY <1>0, <2>2, SubSeqProperties
  <2>5. e \in Seq(PacketOf)
    BY <1>0, <2>3, SubSeqProperties
  <2> HIDE DEF h, e
  <2>6. QED
    BY <1>0, <2>4, <2>5
<1> HIDE DEF h, e
<1>3. Bytes(h) \in Seq(Byte) /\ Len(Bytes(h)) = (m - 1) * Packet
  BY <1>2, BytesAre
<1>4. Bytes(s) = Bytes(h) \o Bytes(e)
  BY <1>1, <1>2, BytesJoin
<1>5. QED
  BY <1>3, <1>4 DEF e

(* It makes no difference how a concatenation is bracketed.                *)
LEMMA Regroup == \A x, y, z \in Seq(Byte) : (x \o y) \o z = x \o (y \o z)
<1> SUFFICES ASSUME NEW x \in Seq(Byte), NEW y \in Seq(Byte), NEW z \in Seq(Byte)
             PROVE  (x \o y) \o z = x \o (y \o z)
  OBVIOUS
<1>1. QED
  BY ConcatAssociative

(* From the socket to the screen: whatever the sizes and whoever comes and *)
(* goes, a connected viewer has been sent, or will be sent from tmpbuf and *)
(* queue, all that main accepted but the packets before its login.         *)
THEOREM SocketToScreen == Spec => []EndToEnd
<1>1. PP!IInv /\ PP!Numbered /\ Joined /\ SP!StreamInv => EndToEnd
  <2> SUFFICES ASSUME PP!IInv, PP!Numbered, Joined, SP!StreamInv, ~freed,
                      NEW c \in Viewers, bev[c] = "user", since[c] # 0
               PROVE  Bytes(Tail(out[c])) \o tmpbuf \o queue
                        = SubSeq(accepted, (since[c] - 1) * Packet + 1, Len(accepted))
    BY DEF EndToEnd
  <2>1. /\ accepted = streamed \o tmpbuf \o queue /\ streamed = Bytes(fanned)
        /\ fanned \in Seq(PacketOf) /\ tmpbuf \in Seq(Byte) /\ queue \in Seq(Byte)
    BY DEF PP!IInv, PP!StreamConserved, Joined, PP!Numbered, PP!Run, Byte
  <2>2. PICK q \in Qualities :
          /\ since[c] \in 1 .. Len(fanned) + 1
          /\ out[c] = <<q>> \o SubSeq(fanned, since[c], Len(fanned))
    BY DEF SP!StreamInv, SP!Streamed, SP!Conns
  <2> DEFINE e == SubSeq(fanned, since[c], Len(fanned))
  <2>3. e \in Seq(PacketOf)
    <3>1. /\ since[c] \in Int /\ Len(fanned) \in Int
          /\ \A i \in since[c] .. Len(fanned) : i \in 1 .. Len(fanned)
      BY <2>1, <2>2
    <3>2. \A i \in since[c] .. Len(fanned) : fanned[i] \in PacketOf
      BY <2>1, <3>1, ElementOfSeq
    <3>3. QED
      BY <3>1, <3>2, SubSeqProperties
  <2>4. PICK a \in Seq(Byte) : Len(a) = (since[c] - 1) * Packet /\ streamed = a \o Bytes(e)
    BY <2>1, <2>2, SinceThen
  <2> HIDE DEF e
  <2>5. Tail(out[c]) = e
    <3>1. out[c] = <<q>> \o e
      BY <2>2 DEF e
    <3>2. Tail(<<q>> \o e) = e
      BY <2>3, HeadThenRest
    <3>3. QED
      BY <3>1, <3>2
  <2>6. Bytes(e) \in Seq(Byte)
    BY <2>3, BytesAre
  <2> DEFINE b == Bytes(e)
             r == b \o tmpbuf \o queue
  <2>7. r \in Seq(Byte) /\ b \o tmpbuf \in Seq(Byte)
    BY <2>1, <2>6, ConcatProperties
  <2>8. accepted = a \o r
    <3>1. b \in Seq(Byte) /\ accepted = ((a \o b) \o tmpbuf) \o queue
      BY <2>1, <2>4, <2>6
    <3> HIDE DEF b
    <3>2. (a \o b) \o tmpbuf = a \o (b \o tmpbuf)
      BY <2>1, <2>4, <3>1, Regroup
    <3>3. (a \o (b \o tmpbuf)) \o queue = a \o ((b \o tmpbuf) \o queue)
      BY <2>1, <2>4, <2>7, Regroup
    <3>4. QED
      BY <3>1, <3>2, <3>3
  <2> HIDE DEF r
  <2>9. SubSeq(a \o r, Len(a) + 1, Len(a \o r)) = r
    BY <2>7, RestOf
  <2>10. QED
    BY <2>4, <2>5, <2>8, <2>9 DEF r
<1>2. QED
  BY <1>1, SessionsOfDaemon, PumpOfDaemon, JoinedOfDaemon, PTL

(* What every packet on a screen is: a stretch of the accepted stream.     *)
CellOf(c, p) == (since[c] + p[1] - 3) * Packet + p[2]

(* An element of a sequence behind a first one.                            *)
LEMMA BehindHead ==
  ASSUME NEW T, NEW t \in Seq(T), NEW x
  PROVE  /\ Len(<<x>> \o t) = Len(t) + 1
         /\ \A i \in 2 .. Len(t) + 1 : (<<x>> \o t)[i] = t[i - 1]
OBVIOUS

(* A packet in the accepted stream is a packet fanned out.                 *)
LEMMA FannedCell ==
  ASSUME PP!IInv, PP!Numbered, Joined, ~freed,
         NEW j \in 1 .. Len(fanned), NEW r \in 1 .. Packet
  PROVE  /\ (j - 1) * Packet + r \in DOMAIN accepted
         /\ fanned[j][r] = accepted[(j - 1) * Packet + r]
        /\ accepted \in Seq(Byte)
<1> DEFINE i == (j - 1) * Packet + r
<1>0. /\ Packet \in Nat \ {0} /\ Len(fanned) \in Nat /\ fanned \in Seq(PacketOf)
      /\ j - 1 \in Nat /\ r - 1 \in 0 .. Packet - 1
  BY PumpAssumption DEF Joined
<1>1. i \in 1 .. Len(fanned) * Packet
  <2>1. (j - 1) * Packet \in Nat /\ (j - 1) * Packet + Packet = j * Packet
    BY <1>0
  <2>2. j * Packet <= Len(fanned) * Packet
    BY <1>0
  <2>3. j * Packet \in Nat /\ Len(fanned) * Packet \in Nat
    BY <1>0
  <2>4. QED
    BY <1>0, <2>1, <2>2, <2>3
<1>2. (i - 1) \div Packet = j - 1 /\ (i - 1) % Packet = r - 1
  <2>1. /\ ((j - 1) * Packet + (r - 1)) \div Packet = j - 1
        /\ ((j - 1) * Packet + (r - 1)) % Packet = r - 1
    BY <1>0, Cells
  <2>2. i - 1 = (j - 1) * Packet + (r - 1)
    <3>1. (j - 1) * Packet \in Nat
      BY <1>0
    <3>2. QED
      BY <3>1
  <2>3. QED
    BY <2>1, <2>2
<1>3. Bytes(fanned)[i] = fanned[(i - 1) \div Packet + 1][((i - 1) % Packet) + 1]
  BY <1>0, <1>1, BytesAre
<1> HIDE DEF i
<1>4. Bytes(fanned)[i] = fanned[j][r]
  BY <1>2, <1>3
<1>5. /\ accepted = (streamed \o tmpbuf) \o queue /\ streamed = Bytes(fanned)
      /\ tmpbuf \in Seq(Byte) /\ queue \in Seq(Byte)
  BY DEF PP!IInv, PP!StreamConserved, Joined, PP!Numbered, PP!Run, Byte
<1>6. streamed \in Seq(Byte) /\ Len(streamed) = Len(fanned) * Packet
  BY <1>0, <1>5, BytesAre
<1>7. /\ streamed \o tmpbuf \in Seq(Byte) /\ i \in 1 .. Len(streamed \o tmpbuf)
      /\ (streamed \o tmpbuf)[i] = streamed[i]
  BY <1>1, <1>5, <1>6, ConcatProperties
<1>8. /\ accepted \in Seq(Byte) /\ i \in 1 .. Len(accepted)
      /\ accepted[i] = streamed[i]
  BY <1>5, <1>7, ConcatProperties
<1>9. QED
  BY <1>4, <1>5, <1>8 DEF i

(* What a viewer finds at a place of a packet is the byte of the accepted  *)
(* stream that many packets after its login.                               *)
LEMMA ScreenCell ==
  ASSUME PP!IInv, PP!Numbered, Joined, SP!StreamInv, ~freed,
         NEW c \in Viewers, NEW p \in Places(c)
  PROVE  /\ since[c] + p[1] - 3 \in Nat
         /\ CellOf(c, p) \in DOMAIN accepted
         /\ At(c, p) = accepted[CellOf(c, p)]
         /\ accepted \in Seq(Byte)
<1> DEFINE m == since[c]
           k == p[1]
           r == p[2]
<1>0. k \in 2 .. Len(out[c]) /\ r \in 1 .. Packet
  BY DEF Places
<1>1. SP!Streamed(c) /\ fanned \in Seq(PacketOf)
  BY DEF SP!StreamInv, SP!Conns, Joined
<1> HIDE DEF k, r
<1>2. m # 0
  <2>1. m = 0 => Len(out[c]) = 0
    BY <1>1 DEF SP!Streamed
  <2>2. QED
    BY <1>0, <2>1
<1>3. PICK q \in Qualities, n \in (m - 1) .. Len(fanned) :
        out[c] = <<q>> \o SubSeq(fanned, m, n)
  BY <1>1, <1>2 DEF SP!Streamed
<1>4. m \in 1 .. Len(fanned) + 1 /\ Len(fanned) \in Nat
  BY <1>1, <1>2 DEF SP!Streamed
<1> HIDE DEF m
<1> DEFINE e == SubSeq(fanned, m, n)
<1>5. /\ e \in Seq(PacketOf)
      /\ Len(e) = IF m <= n THEN n - m + 1 ELSE 0
      /\ \A i \in 1 .. n - m + 1 : e[i] = fanned[m + i - 1]
  <2>1. \A i \in m .. n : i \in 1 .. Len(fanned)
    BY <1>4
  <2>2. \A i \in m .. n : fanned[i] \in PacketOf
    BY <1>1, <2>1, ElementOfSeq
  <2>3. QED
    BY <1>4, <2>2, SubSeqProperties
<1> HIDE DEF e
<1>6. Len(out[c]) = Len(e) + 1 /\ \A i \in 2 .. Len(e) + 1 : out[c][i] = e[i - 1]
  <2>1. out[c] = <<q>> \o e
    BY <1>3 DEF e
  <2>2. QED
    BY <1>5, <2>1, BehindHead
<1>7. /\ Len(e) = n - m + 1 /\ k - 1 \in 1 .. n - m + 1
      /\ m + k - 2 \in 1 .. Len(fanned)
  BY <1>0, <1>4, <1>5, <1>6
<1>8. out[c][k] = fanned[m + k - 2]
  <2>1. out[c][k] = e[k - 1]
    BY <1>0, <1>6
  <2>2. e[k - 1] = fanned[m + (k - 1) - 1]
    BY <1>5, <1>7
  <2>3. m + (k - 1) - 1 = m + k - 2
    BY <1>0, <1>4
  <2>4. QED
    BY <2>1, <2>2, <2>3
<1>9. (m + k - 2) - 1 = m + k - 3 /\ m + k - 3 \in Nat
  BY <1>0, <1>4, <1>7
<1>10. /\ (m + k - 3) * Packet + r \in DOMAIN accepted
       /\ fanned[m + k - 2][r] = accepted[(m + k - 3) * Packet + r]
       /\ accepted \in Seq(Byte)
  BY <1>0, <1>7, <1>9, FannedCell
<1>11. QED
  BY <1>8, <1>9, <1>10 DEF CellOf, At, m, k, r

(* A later place is a later byte of the stream.                            *)
LEMMA LaterCell ==
  ASSUME NEW a \in Nat, NEW b \in Nat, NEW i \in 1 .. Packet, NEW j \in 1 .. Packet,
         a < b \/ (a = b /\ i < j)
  PROVE  a * Packet + i < b * Packet + j
<1>0. Packet \in Nat \ {0} /\ a * Packet \in Nat /\ b * Packet \in Nat
  BY PumpAssumption
<1>1. CASE a < b
  <2>1. (a + 1) * Packet <= b * Packet
    BY <1>0, <1>1
  <2>2. (a + 1) * Packet = a * Packet + Packet
    BY <1>0
  <2>3. QED
    BY <1>0, <2>1, <2>2
<1>2. QED
  BY <1>0, <1>1

(* The order on the screen is that of the encoder.                         *)
THEOREM OrderOnScreen == Spec => []ScreenInOrder
<1>1. PP!IInv /\ PP!Numbered /\ PP!InOrder /\ Joined /\ SP!StreamInv => ScreenInOrder
  <2> SUFFICES ASSUME PP!IInv, PP!Numbered, PP!InOrder, Joined, SP!StreamInv, ~freed,
                      NEW c \in Viewers, NEW p \in Places(c), NEW q \in Places(c),
                      Earlier(p, q)
               PROVE  At(c, p) < At(c, q)
    BY DEF ScreenInOrder
  <2> DEFINE a == since[c] + p[1] - 3
             b == since[c] + q[1] - 3
  <2>1. /\ a \in Nat /\ CellOf(c, p) \in DOMAIN accepted
        /\ At(c, p) = accepted[CellOf(c, p)]
    BY ScreenCell
  <2>2. /\ b \in Nat /\ CellOf(c, q) \in DOMAIN accepted
        /\ At(c, q) = accepted[CellOf(c, q)]
    BY ScreenCell
  <2>3. /\ p[1] \in Nat /\ q[1] \in Nat
        /\ p[2] \in 1 .. Packet /\ q[2] \in 1 .. Packet
    BY DEF Places
  <2>4. since[c] \in Int
    BY DEF SP!StreamInv, SP!Streamed, SP!Conns
  <2>5. a < b \/ (a = b /\ p[2] < q[2])
    BY <2>3, <2>4 DEF Earlier
  <2>6. CellOf(c, p) < CellOf(c, q)
    <3> HIDE DEF a, b
    <3>1. a * Packet + p[2] < b * Packet + q[2]
      BY <2>1, <2>2, <2>3, <2>5, LaterCell
    <3>2. QED
      BY <3>1 DEF CellOf, a, b
  <2>7. QED
    BY <2>1, <2>2, <2>6 DEF PP!InOrder
<1>2. QED
  BY <1>1, PumpAgain, PumpOrder, PumpOfDaemon, JoinedOfDaemon, SessionsOfDaemon, PTL

(* Bytes that are on the grid in the stream are so in their packet.        *)
LEMMA GridOfPacket ==
  ASSUME NEW a \in Nat, NEW r \in Nat, NEW x \in Nat, Packet % Unit = 0,
         (x - (a * Packet + r)) % Unit = 0
  PROVE  (x - r) % Unit = 0
<1> DEFINE u == Unit
           p == Packet
           v == p \div u
           w == (x - (a * p + r)) \div u
<1>0. u \in Nat \ {0} /\ p \in Nat /\ p % u = 0 /\ (x - (a * p + r)) % u = 0
  BY PumpAssumption
<1> HIDE DEF u, p
<1>1. v \in Nat /\ p = v * u
  BY <1>0
<1>2. a * p \in Nat /\ w \in Int /\ x - (a * p + r) = w * u
  BY <1>0
<1> HIDE DEF v, w
<1>3. a * p = (a * v) * u /\ a * v \in Nat
  BY <1>0, <1>1
<1>4. x - r = w * u + (a * v) * u
  <2>1. w * u \in Int /\ (a * v) * u \in Int
    BY <1>0, <1>2, <1>3
  <2>2. QED
    BY <1>2, <1>3, <2>1
<1>5. w * u + (a * v) * u = (w + a * v) * u
  BY <1>0, <1>2, <1>3
<1>6. w + a * v \in Int
  BY <1>2, <1>3
<1> DEFINE z == w + a * v
<1>7. z \in Int /\ x - r = z * u
  BY <1>4, <1>5, <1>6
<1> HIDE DEF z
<1>8. (z * u) % u = 0
  BY <1>0, <1>7
<1>9. QED
  BY <1>7, <1>8 DEF u

(* Whoever logs in whenever is sent whole transport stream packets.        *)
THEOREM WholeOnScreen == Spec => []ScreenAligned
<1>1. PP!IInv /\ PP!Numbered /\ PP!Aligned /\ Joined /\ SP!StreamInv => ScreenAligned
  <2> SUFFICES ASSUME PP!IInv, PP!Numbered, PP!Aligned, Joined, SP!StreamInv, ~freed,
                      ~cut, Packet % Unit = 0, \A n \in Datagrams : n % Unit = 0,
                      NEW c \in Viewers, NEW p \in Places(c)
               PROVE  (At(c, p) - p[2]) % Unit = 0
    BY DEF ScreenAligned
  <2> DEFINE a == since[c] + p[1] - 3
             i == CellOf(c, p)
  <2>1. a \in Nat /\ i \in DOMAIN accepted /\ At(c, p) = accepted[i]
        /\ accepted \in Seq(Byte)
    BY ScreenCell
  <2>2. i = a * Packet + p[2] /\ p[2] \in Nat /\ Packet \in Nat /\ Unit \in Nat \ {0}
    BY PumpAssumption DEF CellOf, Places
  <2>3. (accepted[i] - i) % Unit = 0
    BY <2>1 DEF PP!Aligned
  <2>4. accepted[i] \in Nat
    <3>1. accepted[i] \in Byte
      BY <2>1, ElementOfSeq
    <3>2. QED
      BY <3>1 DEF Byte
  <2> HIDE DEF a, i
  <2>5. (accepted[i] - (a * Packet + p[2])) % Unit = 0
    BY <2>2, <2>3
  <2>6. (accepted[i] - p[2]) % Unit = 0
    BY <2>1, <2>2, <2>4, <2>5, GridOfPacket
  <2>7. QED
    BY <2>1, <2>6
<1>2. QED
  BY <1>1, PumpAgain, PumpOrder, PumpOfDaemon, JoinedOfDaemon, SessionsOfDaemon, PTL

=============================================================================
