-------------------------- MODULE StreamPumpProofs --------------------------
(***************************************************************************)
(* Proofs about the two threads of StreamPump.                             *)
(***************************************************************************)
EXTENDS StreamPump, SequenceTheorems, TLAPS

(***************************************************************************)
(* Arithmetic of whole packets.                                            *)
(***************************************************************************)

(* Division leaves a rest that is less than the divisor.                   *)
LEMMA Division ==
  ASSUME NEW n \in Nat, NEW p \in Nat \ {0}
  PROVE  /\ n \div p \in Nat /\ n % p \in 0 .. p - 1
         /\ n = (n \div p) * p + (n % p)
OBVIOUS

(* A multiple leaves no rest.                                              *)
LEMMA Multiple ==
  ASSUME NEW k \in Nat, NEW p \in Nat \ {0}
  PROVE  (k * p) % p = 0 /\ k * p \in Nat
OBVIOUS

(* Multiples add up to a multiple.                                         *)
LEMMA MultiplesAdd ==
  ASSUME NEW a \in Nat, NEW b \in Nat, NEW p \in Nat \ {0}, a % p = 0, b % p = 0
  PROVE  (a + b) % p = 0
<1>1. a = (a \div p) * p /\ b = (b \div p) * p
  BY Division
<1> DEFINE k == a \div p
           m == b \div p
<1>2. k \in Nat /\ m \in Nat
  BY Division
<1> HIDE DEF k, m
<1>3. k * p + m * p = (k + m) * p
  BY <1>2
<1>4. (k + m) * p = a + b /\ k + m \in Nat
  BY <1>1, <1>2, <1>3 DEF k, m
<1>5. ((k + m) * p) % p = 0
  BY <1>4, Multiple
<1>6. QED
  BY <1>4, <1>5

(* packetSize is the largest whole number of packets in qc bytes.          *)
LEMMA PacketSizeIs ==
  ASSUME qc \in Nat
  PROVE  /\ packetSize \in 0 .. qc
         /\ packetSize % Packet = 0
         /\ qc - packetSize < Packet
<1>0. Packet \in Nat \ {0}
  BY PacketAssumption, SizeAssumption
<1> DEFINE k == qc \div Packet
           r == qc % Packet
<1>1. k \in Nat /\ r \in 0 .. Packet - 1 /\ qc = k * Packet + r
  BY <1>0, Division
<1>2. packetSize = k * Packet
  BY DEF packetSize
<1> HIDE DEF k, r
<1>3. (k * Packet) % Packet = 0 /\ k * Packet \in Nat
  BY <1>0, <1>1, Multiple
<1> DEFINE m == k * Packet
<1>4. m \in Nat /\ m % Packet = 0 /\ qc = m + r /\ packetSize = m
  BY <1>1, <1>2, <1>3
<1> HIDE DEF m
<1>5. QED
  BY <1>0, <1>1, <1>4

(***************************************************************************)
(* The invariant.                                                          *)
(***************************************************************************)

(* Whoever is inside the queue before the teardown holds the lock.         *)
Turns == /\ MainInside => lock = "main"
         /\ EventInside => lock = "event"

(* Both threads end together; the queue is freed on the way out only, and  *)
(* the event thread does not run before it is started.                     *)
Endings == /\ main = "dead" <=> event = "dead"
           /\ main = "start" => event = "none"
           /\ freed => main \in {"return", "dead"}

(* timeout_cb reads when it has counted a packet, and what it counted is   *)
(* still there.                                                            *)
Looked == event = "read" => qc >= Packet /\ (~freed => qc = Len(queue))

(* timeout_cb carries bytes only between its read and its fan-out.         *)
Carries == \/ event \notin {"unlock", "fanout", "dead"}
           \/ event = "unlock" /\ qc < Packet
           => tmpbuf = << >>

(* What timeout_cb has left behind is less than a packet.                  *)
Rests == ~freed /\ event \notin {"read", "dead"} => Len(queue) < fresh + Packet

IInv == TypeOK /\ Turns /\ Endings /\ Looked /\ Carries /\ Rests /\ StreamConserved

(* Before anything runs the invariant holds.                               *)
LEMMA InitPump == Init => IInv
<1> SUFFICES ASSUME Init PROVE IInv
  OBVIOUS
<1>0. Packet \in Nat \ {0} /\ Size \in Nat /\ 0 % Packet = 0
  <2>1. Packet \in Nat \ {0} /\ Size \in Nat
    BY PacketAssumption, SizeAssumption
  <2>2. (0 * Packet) % Packet = 0
    BY <2>1, Multiple
  <2>3. QED
    BY <2>1, <2>2
<1>1. TypeOK
  <2>1. << >> \in Seq(Nat) /\ << >> \in Seq(Seq(Nat)) /\ Len(<< >>) = 0
    BY EmptySeq
  <2>2. BufMax \in Nat /\ Len(<< >>) <= BufMax /\ Len(<< >>) <= Size
    BY <1>0, <2>1, BufMaxAssumption
  <2>3. /\ rx \in Seq(Seq(Nat)) /\ buf \in Seq(Nat) /\ Len(buf) <= BufMax
        /\ queue \in Seq(Nat) /\ Len(queue) <= Size
    BY <2>1, <2>2 DEF Init
  <2>4. /\ tmpbuf \in Seq(Nat) /\ accepted \in Seq(Nat) /\ streamed \in Seq(Nat)
        /\ qc \in 0 .. Size
    BY <1>0, <2>1 DEF Init
  <2>5. QED
    BY <2>3, <2>4 DEF Init, TypeOK
<1>2. Turns /\ Endings /\ Looked /\ Carries /\ Rests
  BY <1>0 DEF Init, Turns, Endings, Looked, Carries, Rests, MainInside, EventInside
<1>3. StreamConserved
  BY <1>0 DEF Init, StreamConserved
<1>4. QED
  BY <1>1, <1>2, <1>3 DEF IInv

(* The bytes that fit, as a sequence of bytes.                             *)
LEMMA StoredFits ==
  ASSUME TypeOK
  PROVE  /\ Stored(buf) \in Seq(Nat)
         /\ queue \o Stored(buf) \in Seq(Nat)
         /\ Len(queue \o Stored(buf)) = Len(queue) + Len(Stored(buf))
         /\ Len(queue) + Len(Stored(buf)) <= Size
BY SizeAssumption DEF TypeOK, Stored, Accepts

(* What a read takes and what it leaves make up what was there.            *)
LEMMA TakeSplits ==
  ASSUME NEW q \in Seq(Nat), NEW n \in 0 .. Len(q)
  PROVE  /\ Taken(q, n) \in Seq(Nat) /\ Len(Taken(q, n)) = n
         /\ AfterTake(q, n) \in Seq(Nat) /\ Len(AfterTake(q, n)) = Len(q) - n
         /\ Taken(q, n) \o AfterTake(q, n) = q
<1>0. Len(q) \in Nat /\ \A i \in 1 .. Len(q) : q[i] \in Nat
  BY ElementOfSeq
<1>1. Taken(q, n) \in Seq(Nat) /\ Len(Taken(q, n)) = n
  BY <1>0, SubSeqProperties DEF Taken
<1>2. AfterTake(q, n) \in Seq(Nat) /\ Len(AfterTake(q, n)) = Len(q) - n
  BY <1>0, SubSeqProperties DEF AfterTake
<1>3. SubSeq(q, 1, n) \o SubSeq(q, n + 1, Len(q)) = SubSeq(q, 1, Len(q))
  <2>1. 1 \in 1 .. Len(q) + 1 /\ n \in 1 - 1 .. Len(q) /\ Len(q) \in n .. Len(q)
    BY <1>0
  <2>2. QED
    BY <2>1, ConcatAdjacentSubSeq
<1>4. QED
  BY <1>1, <1>2, <1>3, SubSeqFull DEF Taken, AfterTake

(***************************************************************************)
(* The steps.                                                              *)
(***************************************************************************)

(* Every step keeps the lock discipline and the order of the endings.      *)
LEMMA TurnsStep == IInv /\ [Next]_vars => Turns' /\ Endings'
<1> SUFFICES ASSUME IInv, [Next]_vars PROVE Turns' /\ Endings'
  OBVIOUS
<1> USE DEF IInv, TypeOK, Turns, Endings, MainInside, EventInside,
        threadVars, queueVars, At, EventAt, Die, x_lock_lock, x_lock_unlock
<1>1. CASE UNCHANGED vars
  BY <1>1 DEF vars
<1>2. CASE \E n \in Datagrams : Deliver(n)
  BY <1>2 DEF Deliver
<1>3. CASE MainStep
  BY <1>3 DEF MainStep, x_thread_start, socket, bind, recvfrom, WriteQueue,
              UnlockMain, DeleteRC, x_queue_free, return
<1>4. CASE LockMain
  BY <1>4 DEF LockMain
<1>5. CASE EventStep
  BY <1>5 DEF EventStep, TimeoutStep, event_base_new, evconnlistener_new_bind,
              TimerFires, x_queue_count, x_queue_read, UnlockEvent, FanOut
<1>6. CASE LockEvent
  BY <1>6 DEF LockEvent
<1>7. CASE cmd_shutdown
  BY <1>7 DEF cmd_shutdown
<1>8. CASE SendsThroughDeletedRC
  BY <1>8 DEF SendsThroughDeletedRC
<1>9. QED
  BY <1>1, <1>2, <1>3, <1>4, <1>5, <1>6, <1>7, <1>8 DEF Next

(* Every step keeps what timeout_cb may rely on: the queue does not change *)
(* behind its back, and it hands everything on before it sleeps.           *)
LEMMA LooksStep == IInv /\ [Next]_vars => Looked' /\ Carries'
<1> SUFFICES ASSUME IInv, [Next]_vars PROVE Looked' /\ Carries'
  OBVIOUS
<1> USE DEF IInv, TypeOK, Turns, Endings, Looked, Carries, MainInside, EventInside,
        threadVars, queueVars, localVars, At, EventAt, Die
<1>0. Packet \in Nat /\ Size \in Nat /\ Packet > 0
  BY PacketAssumption, SizeAssumption
<1>1. CASE UNCHANGED vars
  BY <1>1 DEF vars
<1>2. CASE \E n \in Datagrams : Deliver(n)
  BY <1>2 DEF Deliver
<1>3. CASE WriteQueue
  <2>1. event # "read"
    BY <1>3 DEF WriteQueue
  <2>2. QED
    BY <1>3, <2>1 DEF WriteQueue
<1>4. CASE \/ x_thread_start \/ socket \/ bind \/ recvfrom
           \/ UnlockMain \/ DeleteRC \/ x_queue_free \/ return
  <2>1. CASE x_thread_start
    BY <2>1 DEF x_thread_start
  <2>2. CASE socket \/ bind
    BY <2>2 DEF socket, bind
  <2>3. CASE recvfrom
    BY <2>3 DEF recvfrom
  <2>4. CASE UnlockMain
    BY <2>4 DEF UnlockMain
  <2>5. CASE DeleteRC \/ x_queue_free
    BY <2>5 DEF DeleteRC, x_queue_free
  <2>6. CASE return
    BY <2>6 DEF return
  <2>7. QED
    BY <1>4, <2>1, <2>2, <2>3, <2>4, <2>5, <2>6
<1>5. CASE LockMain
  BY <1>5 DEF LockMain
<1>6. CASE x_queue_count
  BY <1>0, <1>6 DEF x_queue_count
<1>7. CASE x_queue_read
  BY <1>0, <1>7 DEF x_queue_read
<1>8. CASE event_base_new \/ evconnlistener_new_bind \/ TimerFires \/ UnlockEvent
           \/ FanOut
  BY <1>8 DEF event_base_new, evconnlistener_new_bind, TimerFires, UnlockEvent, FanOut
<1>9. CASE LockEvent
  BY <1>9 DEF LockEvent
<1>10. CASE cmd_shutdown
  BY <1>10 DEF cmd_shutdown
<1>11. CASE SendsThroughDeletedRC
  BY <1>11 DEF SendsThroughDeletedRC
<1>12. QED
  BY <1>1, <1>2, <1>3, <1>4, <1>5, <1>6, <1>7, <1>8, <1>9, <1>10, <1>11
     DEF Next, MainStep, EventStep, TimeoutStep

(* Taking from the head and adding at the end leaves a sequence of the     *)
(* same things.                                                            *)
LEMMA EndsOfQueue ==
  ASSUME NEW T, NEW s \in Seq(T)
  PROVE  /\ \A e \in T : Append(s, e) \in Seq(T)
         /\ s # << >> => Head(s) \in T /\ Tail(s) \in Seq(T)
OBVIOUS

(* A datagram that is received is cut to what the buffer holds.            *)
LEMMA ReceivedFits ==
  ASSUME NEW d \in Seq(Nat)
  PROVE  Received(d) \in Seq(Nat) /\ Len(Received(d)) <= BufMax
<1> DEFINE n == IF Len(d) < BufMax THEN Len(d) ELSE BufMax
<1>0. n \in 0 .. Len(d) /\ n <= BufMax /\ \A i \in 1 .. n : d[i] \in Nat
  BY BufMaxAssumption, SizeAssumption, ElementOfSeq
<1>1. Received(d) = SubSeq(d, 1, n)
  BY DEF Received
<1> HIDE DEF n
<1>2. SubSeq(d, 1, n) \in Seq(Nat) /\ Len(SubSeq(d, 1, n)) = IF 1 <= n THEN n - 1 + 1 ELSE 0
  BY <1>0, SubSeqProperties
<1>3. QED
  BY <1>0, <1>1, <1>2

(* Every step keeps the types.                                             *)
LEMMA TypeStep == IInv /\ [Next]_vars => TypeOK'
<1> SUFFICES ASSUME IInv, [Next]_vars PROVE TypeOK'
  OBVIOUS
<1>0. TypeOK /\ Size \in Nat /\ BufMax \in Nat
  BY SizeAssumption, BufMaxAssumption DEF IInv
<1>1. CASE UNCHANGED vars
  BY <1>0, <1>1 DEF TypeOK, vars, threadVars, queueVars, localVars, socketVars, histVars
<1>2. ASSUME NEW n \in Datagrams, Deliver(n) PROVE TypeOK'
  <2>1. n \in Nat /\ sent' = sent + n /\ sent' \in Nat
    BY <1>0, <1>2, DatagramsAssumption DEF Deliver, TypeOK
  <2>2. [i \in 1 .. n |-> sent + i] \in Seq(Nat)
    BY <1>0, <2>1 DEF TypeOK
  <2>3. rx' \in Seq(Seq(Nat))
    <3> DEFINE d == [i \in 1 .. n |-> sent + i]
    <3>1. d \in Seq(Nat) /\ rx \in Seq(Seq(Nat)) /\ rx' \in {rx, Append(rx, d)}
      BY <1>0, <1>2, <2>2 DEF Deliver, TypeOK
    <3> HIDE DEF d
    <3>2. QED
      BY <3>1, EndsOfQueue
  <2>4. QED
    BY <1>0, <1>2, <2>1, <2>3
       DEF Deliver, TypeOK, threadVars, queueVars, localVars, histVars
<1>3. CASE recvfrom
  <2>1. CASE EndOfStream /\ main' = "delete" /\ UNCHANGED <<buf, cut>>
             /\ rx' = IF rx = << >> THEN rx ELSE Tail(rx)
    <3>1. rx' \in Seq(Seq(Nat))
      BY <1>0, <2>1 DEF TypeOK
    <3>2. QED
      BY <1>0, <1>3, <2>1, <3>1 DEF recvfrom, TypeOK, queueVars
  <2>2. CASE /\ rx # << >> /\ main' = "lock"
             /\ buf' = Received(Head(rx)) /\ rx' = Tail(rx)
             /\ cut' = (cut \/ Len(Head(rx)) > BufMax)
    <3>1. Head(rx) \in Seq(Nat) /\ rx' \in Seq(Seq(Nat))
      BY <1>0, <2>2, EndsOfQueue DEF TypeOK
    <3>2. buf' \in Seq(Nat) /\ Len(buf') <= BufMax
      BY <2>2, <3>1, ReceivedFits
    <3>3. cut' \in BOOLEAN
      BY <2>2
    <3>4. QED
      BY <1>0, <1>3, <2>2, <3>1, <3>2, <3>3 DEF recvfrom, TypeOK, queueVars
  <2>3. QED
    BY <1>3, <2>1, <2>2 DEF recvfrom
<1>4. CASE WriteQueue
  <2>1. /\ queue' \in Seq(Nat) /\ Len(queue') <= Size
        /\ accepted' \in Seq(Nat) /\ fresh' \in Nat
    BY <1>0, <1>4, StoredFits DEF WriteQueue, TypeOK
  <2>2. QED
    BY <1>0, <1>4, <2>1 DEF WriteQueue, TypeOK, At, localVars, socketVars
<1>5. CASE UnlockMain
  <2>1. << >> \in Seq(Nat) /\ Len(<< >>) = 0 /\ Len(<< >>) <= BufMax
    BY <1>0, EmptySeq
  <2>2. buf' \in Seq(Nat) /\ Len(buf') <= BufMax
    BY <1>5, <2>1 DEF UnlockMain
  <2>3. QED
    BY <1>0, <1>5, <2>2
       DEF UnlockMain, TypeOK, At, x_lock_unlock, socketVars, histVars
<1>6. CASE x_thread_start \/ socket \/ bind \/ DeleteRC \/ x_queue_free \/ return
  BY <1>0, <1>6 DEF x_thread_start, socket, bind, DeleteRC, x_queue_free, return,
     TypeOK, At, Die, queueVars, localVars, socketVars, histVars
<1>7. CASE LockMain \/ LockEvent
  BY <1>0, <1>7 DEF LockMain, LockEvent, TypeOK, At, EventAt, x_lock_lock,
     localVars, socketVars, histVars
<1>8. CASE event_base_new \/ evconnlistener_new_bind \/ TimerFires \/ UnlockEvent
  BY <1>0, <1>8 DEF event_base_new, evconnlistener_new_bind, TimerFires, UnlockEvent,
     TypeOK, EventAt, x_lock_unlock, queueVars, localVars, socketVars, histVars
<1>9. CASE x_queue_count
  <2>1. qc' \in 0 .. Size /\ fresh' \in Nat
    BY <1>0, <1>9 DEF x_queue_count, TypeOK
  <2>2. QED
    BY <1>0, <1>9, <2>1 DEF x_queue_count, TypeOK, Die, queueVars, socketVars
<1>10. CASE x_queue_read
  <2>1. qc \in Nat /\ packetSize \in 0 .. qc
    BY <1>0, PacketSizeIs DEF TypeOK
  <2>2. CASE /\ ~freed /\ tmpbuf' = Taken(queue, packetSize)
             /\ queue' = AfterTake(queue, packetSize)
    <3>1. packetSize \in 0 .. Len(queue)
      BY <1>10, <2>1, <2>2 DEF IInv, Looked, x_queue_read
    <3>2. tmpbuf' \in Seq(Nat) /\ queue' \in Seq(Nat) /\ Len(queue') <= Len(queue)
      BY <1>0, <2>2, <3>1, TakeSplits DEF TypeOK
    <3>3. Len(queue') <= Size
      BY <1>0, <3>2 DEF TypeOK
    <3>4. QED
      BY <1>0, <1>10, <3>2, <3>3 DEF x_queue_read, TypeOK, Die, socketVars, histVars
  <2>3. CASE UNCHANGED queue /\ tmpbuf' \in {tmpbuf, [i \in 1 .. packetSize |-> Junk]}
    <3>1. tmpbuf' \in Seq(Nat)
      BY <1>0, <2>1, <2>3 DEF TypeOK, Junk
    <3>2. QED
      BY <1>0, <1>10, <2>3, <3>1 DEF x_queue_read, TypeOK, Die, socketVars, histVars
  <2>4. QED
    BY <1>10, <2>2, <2>3 DEF x_queue_read
<1>11. CASE FanOut
  <2>1. streamed' \in Seq(Nat) /\ tmpbuf' \in Seq(Nat)
    BY <1>0, <1>11, ConcatProperties, EmptySeq DEF FanOut, TypeOK
  <2>2. QED
    BY <1>0, <1>11, <2>1 DEF FanOut, TypeOK, EventAt, queueVars, socketVars
<1>12. CASE cmd_shutdown \/ SendsThroughDeletedRC
  BY <1>0, <1>12 DEF cmd_shutdown, SendsThroughDeletedRC, TypeOK, Die,
     threadVars, queueVars, localVars, socketVars, histVars
<1>13. QED
  BY <1>1, <1>2, <1>3, <1>4, <1>5, <1>6, <1>7, <1>8, <1>9, <1>10, <1>11, <1>12
     DEF Next, MainStep, EventStep, TimeoutStep

(* Runs of bytes may be grouped at will.                                   *)
LEMMA BytesAssociate ==
  /\ \A s, t, u \in Seq(Nat) : (s \o t) \o u = s \o (t \o u)
  /\ \A s, t \in Seq(Nat) : s \o t \in Seq(Nat)
<1>1. ASSUME NEW s \in Seq(Nat), NEW t \in Seq(Nat)
      PROVE  s \o t \in Seq(Nat)
  BY ConcatProperties
<1>2. ASSUME NEW s \in Seq(Nat), NEW t \in Seq(Nat), NEW u \in Seq(Nat)
      PROVE  (s \o t) \o u = s \o (t \o u)
  OBVIOUS
<1>3. QED
  BY <1>1, <1>2

(* Every step keeps the bytes between the write and the users.             *)
LEMMA ConservedStep == IInv /\ [Next]_vars => StreamConserved'
<1> SUFFICES ASSUME IInv, [Next]_vars, ~freed' PROVE StreamConserved'
  BY DEF StreamConserved
<1>0. /\ TypeOK /\ Packet \in Nat \ {0}
      /\ queue \in Seq(Nat) /\ tmpbuf \in Seq(Nat) /\ streamed \in Seq(Nat)
      /\ accepted \in Seq(Nat)
  BY PacketAssumption, SizeAssumption DEF IInv, TypeOK
<1>1. ~freed
  BY DEF Next, vars, MainStep, EventStep, TimeoutStep, Deliver, x_thread_start,
     socket, bind, recvfrom, LockMain, WriteQueue, UnlockMain, DeleteRC,
     x_queue_free, return, event_base_new, evconnlistener_new_bind, TimerFires,
     LockEvent, x_queue_count, x_queue_read, UnlockEvent, FanOut, cmd_shutdown,
     SendsThroughDeletedRC, queueVars
<1>2. /\ accepted = streamed \o tmpbuf \o queue
      /\ Len(streamed) % Packet = 0 /\ Len(tmpbuf) % Packet = 0
  BY <1>1 DEF IInv, StreamConserved
<1>3. CASE UNCHANGED <<accepted, streamed, tmpbuf, queue>>
  BY <1>2, <1>3 DEF StreamConserved
<1>4. CASE WriteQueue
  <2> DEFINE b == Stored(buf)
  <2>1. b \in Seq(Nat)
    BY <1>0, StoredFits
  <2>2. /\ queue' = queue \o b /\ accepted' = accepted \o b
        /\ UNCHANGED <<streamed, tmpbuf>>
    BY <1>4 DEF WriteQueue, localVars
  <2> HIDE DEF b
  <2>3. ((streamed \o tmpbuf) \o queue) \o b = (streamed \o tmpbuf) \o (queue \o b)
    <3> DEFINE p == streamed \o tmpbuf
    <3>1. p \in Seq(Nat)
      BY <1>0, BytesAssociate
    <3> HIDE DEF p
    <3>2. (p \o queue) \o b = p \o (queue \o b)
      <4>1. queue \in Seq(Nat) /\ b \in Seq(Nat)
        BY <1>0, <2>1
      <4>2. QED
        BY <3>1, <4>1, BytesAssociate
    <3>3. QED
      BY <3>2 DEF p
  <2>4. accepted' = streamed' \o tmpbuf' \o queue'
    BY <1>2, <2>2, <2>3
  <2>5. QED
    BY <1>2, <2>2, <2>4 DEF StreamConserved
<1>5. CASE x_queue_read
  <2>1. event = "read" /\ tmpbuf = << >> /\ qc = Len(queue)
    BY <1>1, <1>5 DEF x_queue_read, IInv, Carries, Looked
  <2>2. /\ tmpbuf' = Taken(queue, packetSize) /\ queue' = AfterTake(queue, packetSize)
        /\ UNCHANGED <<accepted, streamed>>
    BY <1>1, <1>5 DEF x_queue_read, histVars
  <2>3. packetSize \in 0 .. Len(queue) /\ packetSize % Packet = 0
    BY <1>0, <2>1, PacketSizeIs
  <2>4. /\ tmpbuf' \in Seq(Nat) /\ queue' \in Seq(Nat)
        /\ Len(tmpbuf') = packetSize /\ tmpbuf' \o queue' = queue
    BY <1>0, <2>2, <2>3, TakeSplits
  <2>5. accepted = streamed \o queue
    BY <1>0, <1>2, <2>1, ConcatEmptySeq
  <2>6. (streamed \o tmpbuf') \o queue' = streamed \o (tmpbuf' \o queue')
    <3> DEFINE s == streamed
               t == Taken(queue, packetSize)
               u == AfterTake(queue, packetSize)
    <3>1. s \in Seq(Nat) /\ t \in Seq(Nat) /\ u \in Seq(Nat)
      BY <1>0, <2>2, <2>4
    <3> HIDE DEF s, t, u
    <3>2. (s \o t) \o u = s \o (t \o u)
      BY <3>1
    <3>3. QED
      BY <2>2, <3>2 DEF s, t, u
  <2>7. accepted' = streamed' \o tmpbuf' \o queue'
    BY <2>2, <2>4, <2>5, <2>6
  <2>8. QED
    BY <1>2, <2>2, <2>3, <2>4, <2>7 DEF StreamConserved
<1>6. CASE FanOut
  <2>1. /\ streamed' = streamed \o tmpbuf /\ tmpbuf' = << >>
        /\ UNCHANGED <<accepted, queue>>
    BY <1>1, <1>6 DEF FanOut, queueVars
  <2>2. accepted' = streamed' \o tmpbuf' \o queue'
    BY <1>0, <1>2, <2>1, ConcatProperties, ConcatEmptySeq
  <2>3. Len(streamed') % Packet = 0
    <3> DEFINE a == Len(streamed)
               b == Len(tmpbuf)
    <3>1. a \in Nat /\ b \in Nat /\ a % Packet = 0 /\ b % Packet = 0
      BY <1>0, <1>2
    <3>2. Len(streamed') = a + b
      BY <1>0, <2>1, ConcatProperties
    <3> HIDE DEF a, b
    <3>3. (a + b) % Packet = 0
      BY <1>0, <3>1, MultiplesAdd
    <3>4. QED
      BY <3>2, <3>3
  <2>4. Len(tmpbuf') % Packet = 0
    <3>1. 0 % Packet = 0
      BY <1>0
    <3>2. QED
      BY <2>1, <3>1, EmptySeq
  <2>5. QED
    BY <2>2, <2>3, <2>4 DEF StreamConserved
<1>7. \/ UNCHANGED <<accepted, streamed, tmpbuf, queue>>
      \/ WriteQueue \/ x_queue_read \/ FanOut
  BY DEF Next, vars, MainStep, EventStep, TimeoutStep, Deliver, x_thread_start,
     socket, bind, recvfrom, LockMain, UnlockMain, DeleteRC,
     x_queue_free, return, event_base_new, evconnlistener_new_bind, TimerFires,
     LockEvent, x_queue_count, UnlockEvent, cmd_shutdown,
     SendsThroughDeletedRC, queueVars, localVars, histVars
<1>8. QED
  BY <1>3, <1>4, <1>5, <1>6, <1>7

(* Every step keeps the rest that is left behind below a packet.           *)
LEMMA RestsStep == IInv /\ [Next]_vars => Rests'
<1> SUFFICES ASSUME IInv, [Next]_vars, ~freed', event' \notin {"read", "dead"}
             PROVE  Len(queue') < fresh' + Packet
  BY DEF Rests
<1>0. /\ TypeOK /\ Packet \in Nat \ {0} /\ Size \in Nat /\ fresh \in Nat
      /\ queue \in Seq(Nat) /\ Len(queue) \in Nat /\ qc \in Nat
  BY PacketAssumption, SizeAssumption DEF IInv, TypeOK
<1>1. ~freed
  BY DEF Next, vars, MainStep, EventStep, TimeoutStep, Deliver, x_thread_start,
     socket, bind, recvfrom, LockMain, WriteQueue, UnlockMain, DeleteRC,
     x_queue_free, return, event_base_new, evconnlistener_new_bind, TimerFires,
     LockEvent, x_queue_count, x_queue_read, UnlockEvent, FanOut, cmd_shutdown,
     SendsThroughDeletedRC, queueVars
<1>2. event \notin {"read", "dead"} => Len(queue) < fresh + Packet
  BY <1>1 DEF IInv, Rests
<1>3. CASE UNCHANGED <<queue, fresh>> /\ event \notin {"read", "dead"}
  BY <1>2, <1>3
<1>4. CASE WriteQueue
  <2>1. event \notin {"read", "dead"}
    BY <1>4 DEF WriteQueue, At, IInv, Turns, Endings, MainInside, EventInside
  <2>2. Len(Stored(buf)) \in Nat /\ Len(queue') = Len(queue) + Len(Stored(buf))
    BY <1>0, <1>4, StoredFits DEF WriteQueue
  <2>3. fresh' = fresh + Len(Stored(buf))
    BY <1>4 DEF WriteQueue
  <2>4. QED
    BY <1>0, <1>2, <2>1, <2>2, <2>3
<1>5. CASE x_queue_count
  <2>1. qc' = Len(queue) /\ fresh' = 0 /\ qc' < Packet /\ UNCHANGED queue
    BY <1>1, <1>5 DEF x_queue_count, queueVars
  <2>2. QED
    BY <1>0, <2>1
<1>6. CASE x_queue_read
  <2>1. /\ qc = Len(queue) /\ queue' = AfterTake(queue, packetSize)
        /\ UNCHANGED fresh
    BY <1>1, <1>6 DEF x_queue_read, IInv, Looked, histVars
  <2>2. packetSize \in 0 .. Len(queue) /\ Len(queue) - packetSize < Packet
    BY <1>0, <2>1, PacketSizeIs
  <2>3. Len(queue') = Len(queue) - packetSize
    BY <1>0, <2>1, <2>2, TakeSplits
  <2>4. QED
    BY <1>0, <2>1, <2>2, <2>3
<1>7. \/ UNCHANGED <<queue, fresh>> /\ event \notin {"read", "dead"}
      \/ WriteQueue \/ x_queue_count \/ x_queue_read
  <2> USE DEF IInv, Endings, Die, At, EventAt, threadVars, queueVars, histVars
  <2>1. CASE UNCHANGED vars \/ \E n \in Datagrams : Deliver(n)
    BY <2>1 DEF vars, Deliver
  <2>2. CASE MainStep \/ LockMain
    BY <2>2 DEF MainStep, x_thread_start, socket, bind, recvfrom, LockMain,
       UnlockMain, DeleteRC, x_queue_free, return
  <2>3. CASE EventStep \/ LockEvent
    BY <2>3 DEF EventStep, TimeoutStep, event_base_new, evconnlistener_new_bind,
       TimerFires, LockEvent, UnlockEvent, FanOut
  <2>4. CASE cmd_shutdown \/ SendsThroughDeletedRC
    BY <2>4 DEF cmd_shutdown, SendsThroughDeletedRC
  <2>5. QED
    BY <2>1, <2>2, <2>3, <2>4 DEF Next
<1>8. QED
  BY <1>3, <1>4, <1>5, <1>6, <1>7

(***************************************************************************)
(* The theorems.                                                           *)
(***************************************************************************)

(* The invariant of the two threads holds in every state.                  *)
THEOREM Inductive == Spec => []IInv
<1>1. IInv /\ [Next]_vars => IInv'
  BY TypeStep, TurnsStep, LooksStep, RestsStep, ConservedStep DEF IInv
<1>2. QED
  BY InitPump, <1>1, PTL DEF Spec

(* Every variable keeps its type, whatever the sizes of queue and packets. *)
THEOREM TypeCorrect == Spec => []TypeOK
<1>1. IInv => TypeOK
  BY DEF IInv
<1>2. QED
  BY Inductive, <1>1, PTL

(* The two threads are never inside the queue together.                    *)
THEOREM ThreadsTakeTurns == Spec => []QueueExclusive
<1>1. IInv => QueueExclusive
  BY DEF IInv, Turns, QueueExclusive
<1>2. QED
  BY Inductive, <1>1, PTL

(* Between the write to the queue and the users no byte is lost, repeated  *)
(* or moved, and only whole packets are handed on.                         *)
THEOREM NothingLostInside == Spec => []StreamConserved
<1>1. IInv => StreamConserved
  BY DEF IInv
<1>2. QED
  BY Inductive, <1>1, PTL

(* A datagram is refused under load only, never for what earlier rounds of *)
(* timeout_cb have left behind.                                            *)
THEOREM RefusedUnderLoad == Spec => []OverflowOnlyUnderLoad
<1>1. IInv => OverflowOnlyUnderLoad
  <2> SUFFICES ASSUME IInv, main = "write", ~Accepts(queue, buf)
               PROVE  fresh + Len(buf) > Size - (Packet - 1)
    BY DEF OverflowOnlyUnderLoad
  <2>1. /\ Packet \in Nat /\ Size \in Nat /\ fresh \in Nat
        /\ Len(queue) \in Nat /\ Len(buf) \in Nat
    BY PacketAssumption, SizeAssumption DEF IInv, TypeOK
  <2>2. ~freed /\ event \notin {"read", "dead"}
    BY DEF IInv, Turns, Endings, MainInside, EventInside
  <2>3. Len(queue) < fresh + Packet
    BY <2>2 DEF IInv, Rests
  <2>4. QED
    BY <2>1, <2>3 DEF Accepts
<1>2. QED
  BY Inductive, <1>1, PTL

(***************************************************************************)
(* The order of the stream: what has been accepted comes before what main  *)
(* carries, that before what waits in the socket, and all of it before     *)
(* what the encoder has yet to send.                                       *)
(***************************************************************************)

Increasing(s) == \A i, j \in DOMAIN s : i < j => s[i] < s[j]
Below(s, t) == \A i \in DOMAIN s, j \in DOMAIN t : s[i] < t[j]
UpTo(s, n) == \A i \in DOMAIN s : s[i] <= n

(* The datagram that main has received and not yet offered to the queue.   *)
Pending == IF main \in {"lock", "write"} THEN buf ELSE << >>

Queued == Increasing(accepted) /\ UpTo(accepted, sent)
Carried == Increasing(Pending) /\ UpTo(Pending, sent) /\ Below(accepted, Pending)
Waiting == \A k \in DOMAIN rx : /\ Increasing(rx[k]) /\ UpTo(rx[k], sent)
                                /\ Below(accepted, rx[k]) /\ Below(Pending, rx[k])
InLine == \A k, l \in DOMAIN rx : k < l => Below(rx[k], rx[l])

Order == Queued /\ Carried /\ Waiting /\ InLine

(* An empty sequence is in order with everything.                          *)
LEMMA EmptyInOrder ==
  /\ Increasing(<< >>) /\ \A n : UpTo(<< >>, n)
  /\ \A s : Below(s, << >>) /\ Below(<< >>, s)
BY DEF Increasing, UpTo, Below

(* Nothing is out of order before anything is sent.                        *)
LEMMA InitOrder == Init => Order
BY EmptyInOrder DEF Init, Order, Queued, Carried, Waiting, InLine, Pending

(* What a cut leaves of a datagram is a beginning of it.                   *)
LEMMA CutsTheEnd ==
  ASSUME NEW d \in Seq(Nat)
  PROVE  \A i \in DOMAIN Received(d) : i \in DOMAIN d /\ Received(d)[i] = d[i]
<1> DEFINE n == IF Len(d) < BufMax THEN Len(d) ELSE BufMax
<1>0. n \in 0 .. Len(d)
  BY BufMaxAssumption, SizeAssumption
<1>1. Received(d) = SubSeq(d, 1, n)
  BY DEF Received
<1> HIDE DEF n
<1>2. QED
  BY <1>0, <1>1

(* The encoder sends what comes after all that was sent.                   *)
LEMMA DeliverKeepsOrder ==
  ASSUME TypeOK, Order, NEW n \in Datagrams, Deliver(n)
  PROVE  Order'
<1> DEFINE d == [i \in 1 .. n |-> sent + i]
<1>0. /\ n \in Nat /\ sent \in Nat /\ sent' = sent + n
      /\ UNCHANGED <<accepted, main, buf>> /\ (rx' = rx \/ rx' = Append(rx, d))
      /\ rx \in Seq(Seq(Nat)) /\ accepted \in Seq(Nat) /\ buf \in Seq(Nat)
  BY DatagramsAssumption DEF Deliver, TypeOK, threadVars, localVars, histVars
<1>1. /\ DOMAIN d = 1 .. n /\ \A i \in 1 .. n : d[i] = sent + i
      /\ d \in Seq(Nat)
  BY <1>0
<1> HIDE DEF d
<1>2. Pending' = Pending /\ Pending \in Seq(Nat)
  BY <1>0 DEF Pending
<1>3. Queued' /\ Carried'
  BY <1>0, <1>2 DEF Order, Queued, Carried, Increasing, UpTo, Below
<1>4. \A s \in Seq(Nat) : UpTo(s, sent) => UpTo(s, sent') /\ Below(s, d)
  BY <1>0, <1>1 DEF UpTo, Below
<1>5. Increasing(d) /\ UpTo(d, sent')
  BY <1>0, <1>1 DEF Increasing, UpTo
<1>6. \A k \in DOMAIN rx : rx[k] \in Seq(Nat)
  BY <1>0
<1>7. \A k \in DOMAIN rx' : (k \in DOMAIN rx /\ rx'[k] = rx[k])
                            \/ (rx'[k] = d /\ \A l \in DOMAIN rx' : l <= k)
  <2>1. CASE rx' = rx
    BY <2>1
  <2>2. CASE rx' = Append(rx, d)
    <3>1. /\ DOMAIN rx = 1 .. Len(rx) /\ DOMAIN rx' = 1 .. Len(rx) + 1
          /\ Len(rx) \in Nat /\ rx'[Len(rx) + 1] = d
          /\ \A k \in 1 .. Len(rx) : rx'[k] = rx[k]
      BY <1>0, <1>1, <2>2, AppendProperties
    <3>2. QED
      BY <3>1
  <2>3. QED
    BY <1>0, <2>1, <2>2
<1>8. Waiting'
  <2> SUFFICES ASSUME NEW k \in DOMAIN rx'
               PROVE  /\ Increasing(rx'[k]) /\ UpTo(rx'[k], sent')
                      /\ Below(accepted', rx'[k]) /\ Below(Pending', rx'[k])
    BY DEF Waiting
  <2>1. CASE k \in DOMAIN rx /\ rx'[k] = rx[k]
    BY <1>0, <1>2, <1>4, <1>6, <2>1 DEF Order, Waiting
  <2>2. CASE rx'[k] = d
    BY <1>0, <1>2, <1>4, <1>5, <2>2 DEF Order, Queued, Carried
  <2>3. QED
    BY <1>7, <2>1, <2>2
<1>9. InLine'
  <2> SUFFICES ASSUME NEW k \in DOMAIN rx', NEW l \in DOMAIN rx', k < l
               PROVE  Below(rx'[k], rx'[l])
    BY DEF InLine
  <2>0. rx' \in Seq(Seq(Nat))
    BY <1>0, <1>1, EndsOfQueue
  <2>1. k \in Nat /\ l \in Nat /\ ~(l <= k)
    BY <2>0
  <2>2. k \in DOMAIN rx /\ rx'[k] = rx[k]
    BY <1>7, <2>1
  <2>3. CASE l \in DOMAIN rx /\ rx'[l] = rx[l]
    BY <2>2, <2>3 DEF Order, InLine
  <2>4. CASE rx'[l] = d
    BY <1>4, <1>6, <2>2, <2>4 DEF Order, Waiting
  <2>5. QED
    BY <1>7, <2>3, <2>4
<1>10. QED
  BY <1>3, <1>8, <1>9 DEF Order

(* What is left when the head is taken keeps its order.                    *)
LEMMA TailOf ==
  ASSUME NEW T, NEW s \in Seq(T), s # << >>
  PROVE  /\ 1 \in DOMAIN s /\ Head(s) = s[1]
         /\ \A k \in DOMAIN Tail(s) : k + 1 \in DOMAIN s /\ Tail(s)[k] = s[k + 1]
                                     /\ k \in Nat \ {0}
OBVIOUS

(* main receives the datagram that comes before all that wait behind it.   *)
LEMMA ReceiveKeepsOrder ==
  ASSUME TypeOK, Order, recvfrom
  PROVE  Order'
<1>0. /\ UNCHANGED <<accepted, sent>> /\ rx \in Seq(Seq(Nat)) /\ Pending = << >>
      /\ main = "recv"
  BY DEF recvfrom, TypeOK, Pending
<1>1. Queued'
  BY <1>0 DEF Order, Queued
<1>2. CASE main' = "delete" /\ UNCHANGED rx
  <2>1. Pending' = << >>
    BY <1>2 DEF Pending
  <2>2. QED
    BY <1>0, <1>1, <1>2, <2>1, EmptyInOrder DEF Order, Carried, Waiting, InLine
<1>3. ASSUME rx # << >>, rx' = Tail(rx)
      PROVE  /\ InLine'
             /\ \A k \in DOMAIN rx' : /\ Increasing(rx'[k]) /\ UpTo(rx'[k], sent')
                                      /\ Below(accepted', rx'[k]) /\ Below(rx[1], rx'[k])
  <2>1. /\ 1 \in DOMAIN rx
        /\ \A k \in DOMAIN rx' : k + 1 \in DOMAIN rx /\ rx'[k] = rx[k + 1]
                                /\ k \in Nat \ {0}
    BY <1>0, <1>3, TailOf
  <2>2. InLine'
    BY <2>1 DEF Order, InLine
  <2>3. ASSUME NEW k \in DOMAIN rx'
        PROVE  /\ Increasing(rx'[k]) /\ UpTo(rx'[k], sent')
               /\ Below(accepted', rx'[k]) /\ Below(rx[1], rx'[k])
    <3>1. 1 < k + 1
      BY <2>1
    <3>2. QED
      BY <1>0, <2>1, <3>1 DEF Order, Waiting, InLine
  <2>4. QED
    BY <2>2, <2>3
<1>4. CASE main' = "delete" /\ rx # << >> /\ rx' = Tail(rx)
  <2>1. Pending' = << >>
    BY <1>4 DEF Pending
  <2>2. QED
    BY <1>1, <1>3, <1>4, <2>1, EmptyInOrder DEF Order, Carried, Waiting
<1>5. CASE /\ rx # << >> /\ main' = "lock"
           /\ buf' = Received(Head(rx)) /\ rx' = Tail(rx)
  <2> DEFINE r == Received(rx[1])
  <2>1. /\ 1 \in DOMAIN rx /\ Head(rx) = rx[1] /\ rx[1] \in Seq(Nat)
    BY <1>0, <1>5, TailOf, EndsOfQueue
  <2>2. Pending' = r
    BY <1>5, <2>1 DEF Pending
  <2>3. \A i \in DOMAIN r : i \in DOMAIN rx[1] /\ r[i] = rx[1][i]
    BY <2>1, CutsTheEnd
  <2>4. /\ Increasing(rx[1]) /\ UpTo(rx[1], sent) /\ Below(accepted, rx[1])
    BY <2>1 DEF Order, Waiting
  <2> HIDE DEF r
  <2>5. Carried'
    BY <1>0, <2>2, <2>3, <2>4 DEF Carried, Increasing, UpTo, Below
  <2>6. \A k \in DOMAIN rx' : Below(rx[1], rx'[k]) => Below(Pending', rx'[k])
    BY <2>2, <2>3 DEF Below
  <2>7. QED
    BY <1>1, <1>3, <1>5, <2>5, <2>6 DEF Order, Waiting
<1>6. QED
  BY <1>2, <1>4, <1>5 DEF recvfrom

(* The queue accepts the datagram behind all that it accepted before, or   *)
(* nothing of it.                                                          *)
LEMMA WriteKeepsOrder ==
  ASSUME TypeOK, Order, WriteQueue
  PROVE  Order'
<1>0. /\ UNCHANGED <<rx, sent>> /\ Pending = buf /\ Pending' = << >>
      /\ accepted \in Seq(Nat) /\ buf \in Seq(Nat)
      /\ accepted' = accepted \/ accepted' = accepted \o buf
  <2>1. /\ UNCHANGED <<rx, sent>> /\ main = "write" /\ main' = "unlock"
        /\ accepted' = accepted \o Stored(buf)
        /\ accepted \in Seq(Nat) /\ buf \in Seq(Nat)
    BY DEF WriteQueue, At, socketVars, TypeOK
  <2>2. Stored(buf) = buf \/ Stored(buf) = << >>
    BY DEF Stored
  <2>3. accepted' = accepted \/ accepted' = accepted \o buf
    BY <2>1, <2>2, ConcatEmptySeq
  <2>4. QED
    BY <2>1, <2>3 DEF Pending
<1>1. Carried' /\ InLine'
  BY <1>0, EmptyInOrder DEF Order, Carried, InLine
<1>2. CASE accepted' = accepted
  BY <1>0, <1>1, <1>2, EmptyInOrder DEF Order, Queued, Waiting
<1>3. CASE accepted' = accepted \o buf
  <2>1. /\ Len(accepted) \in Nat /\ Len(buf) \in Nat
        /\ DOMAIN accepted = 1 .. Len(accepted) /\ DOMAIN buf = 1 .. Len(buf)
        /\ DOMAIN accepted' = 1 .. Len(accepted) + Len(buf)
        /\ \A i \in DOMAIN accepted' : accepted'[i] = IF i <= Len(accepted) THEN accepted[i]
                                                    ELSE buf[i - Len(accepted)]
    BY <1>0, <1>3, ConcatProperties, LenProperties
  <2>2. \A i \in DOMAIN accepted' :
           \/ i \in DOMAIN accepted /\ accepted'[i] = accepted[i]
           \/ /\ i > Len(accepted) /\ i - Len(accepted) \in DOMAIN buf
              /\ accepted'[i] = buf[i - Len(accepted)]
    BY <2>1
  <2>3. /\ Increasing(accepted) /\ UpTo(accepted, sent) /\ Increasing(buf)
        /\ UpTo(buf, sent) /\ Below(accepted, buf)
    BY <1>0 DEF Order, Queued, Carried
  <2>4. UpTo(accepted', sent')
    BY <1>0, <2>2, <2>3 DEF UpTo
  <2>5. Increasing(accepted')
    <3> SUFFICES ASSUME NEW i \in DOMAIN accepted', NEW j \in DOMAIN accepted', i < j
                 PROVE  accepted'[i] < accepted'[j]
      BY DEF Increasing
    <3>0. i \in Nat /\ j \in Nat
      BY <2>1
    <3>1. CASE j \in DOMAIN accepted /\ accepted'[j] = accepted[j]
      <4>1. i \in DOMAIN accepted /\ accepted'[i] = accepted[i]
        BY <2>1, <3>0, <3>1
      <4>2. QED
        BY <2>3, <3>1, <4>1 DEF Increasing
    <3>2. CASE /\ j > Len(accepted) /\ j - Len(accepted) \in DOMAIN buf
               /\ accepted'[j] = buf[j - Len(accepted)]
      <4>1. CASE i \in DOMAIN accepted /\ accepted'[i] = accepted[i]
        BY <2>3, <3>2, <4>1 DEF Below
      <4>2. CASE /\ i > Len(accepted) /\ i - Len(accepted) \in DOMAIN buf
                 /\ accepted'[i] = buf[i - Len(accepted)]
        <5>1. i - Len(accepted) < j - Len(accepted)
          BY <2>1, <3>0
        <5>2. QED
          BY <2>3, <3>2, <4>2, <5>1 DEF Increasing
      <4>3. QED
        BY <2>2, <4>1, <4>2
    <3>3. QED
      BY <2>2, <3>1, <3>2
  <2>6. ASSUME NEW k \in DOMAIN rx PROVE Below(accepted', rx[k])
    <3>1. Below(accepted, rx[k]) /\ Below(buf, rx[k])
      BY <1>0 DEF Order, Waiting
    <3>2. QED
      BY <2>2, <3>1 DEF Below
  <2>7. Waiting'
    BY <1>0, <2>6, EmptyInOrder DEF Order, Waiting
  <2>8. QED
    BY <1>1, <2>4, <2>5, <2>7 DEF Order, Queued
<1>4. QED
  BY <1>0, <1>2, <1>3

(* Every step keeps the order.                                             *)
LEMMA OrderStep == IInv /\ Order /\ [Next]_vars => Order'
<1> SUFFICES ASSUME IInv, Order, [Next]_vars PROVE Order'
  OBVIOUS
<1>0. TypeOK /\ Endings
  BY DEF IInv
<1>1. CASE \E n \in Datagrams : Deliver(n)
  BY <1>0, <1>1, DeliverKeepsOrder
<1>2. CASE recvfrom
  BY <1>0, <1>2, ReceiveKeepsOrder
<1>3. CASE WriteQueue
  BY <1>0, <1>3, WriteKeepsOrder
<1>4. CASE UNCHANGED <<accepted, rx, sent>> /\ Pending' \in {Pending, << >>}
  BY <1>4, EmptyInOrder DEF Order, Queued, Carried, Waiting, InLine
<1>5. \/ \E n \in Datagrams : Deliver(n)
      \/ recvfrom \/ WriteQueue
      \/ UNCHANGED <<accepted, rx, sent>> /\ Pending' \in {Pending, << >>}
  <2> USE DEF Die, At, EventAt, threadVars, localVars, socketVars, histVars, Pending
  <2>1. CASE UNCHANGED vars
    BY <2>1 DEF vars
  <2>2. CASE \/ x_thread_start \/ socket \/ bind \/ UnlockMain
             \/ DeleteRC \/ x_queue_free \/ return \/ LockMain
    BY <2>2 DEF x_thread_start, socket, bind, LockMain,
       UnlockMain, DeleteRC, x_queue_free, return
  <2>3. CASE EventStep \/ LockEvent
    BY <2>3 DEF EventStep, TimeoutStep, event_base_new, evconnlistener_new_bind,
       TimerFires, LockEvent, UnlockEvent, FanOut, x_queue_count, x_queue_read
  <2>4. CASE cmd_shutdown \/ SendsThroughDeletedRC
    BY <2>4 DEF cmd_shutdown, SendsThroughDeletedRC
  <2>5. QED
    BY <2>1, <2>2, <2>3, <2>4 DEF Next, MainStep
<1>6. QED
  BY <1>1, <1>2, <1>3, <1>4, <1>5

(* Whatever is lost on the way, what gets into the queue is in the order   *)
(* in which the encoder sent it.                                           *)
THEOREM DatagramsStayInOrder == Spec => []InOrder
<1>1. Order => InOrder
  BY DEF Order, Queued, Increasing, InOrder
<1>2. QED
  BY Inductive, InitOrder, OrderStep, <1>1, PTL DEF Spec

(***************************************************************************)
(* The grid of the transport stream: byte i of a run of whole packets is   *)
(* as far from the start of its packet as i is from the run's.             *)
(***************************************************************************)

OnGrid(s) == /\ Len(s) % Unit = 0
             /\ \A i \in DOMAIN s : (s[i] - i) % Unit = 0

WholeUnits == ~cut /\ \A n \in Datagrams : n % Unit = 0

Grid == WholeUnits => /\ sent % Unit = 0
                      /\ OnGrid(accepted)
                      /\ OnGrid(Pending)
                      /\ \A k \in DOMAIN rx : OnGrid(rx[k])

(* A multiple leaves no rest, whatever its sign.                           *)
LEMMA IntMultiple ==
  ASSUME NEW k \in Int, NEW p \in Nat \ {0}
  PROVE  (k * p) % p = 0
OBVIOUS

(* A number that leaves no rest is a multiple.                             *)
LEMMA IntDivision ==
  ASSUME NEW n \in Int, NEW p \in Nat \ {0}, n % p = 0
  PROVE  n \div p \in Int /\ n = (n \div p) * p
OBVIOUS

(* The difference of multiples is a multiple.                              *)
LEMMA MultiplesSubtract ==
  ASSUME NEW a \in Int, NEW b \in Int, NEW p \in Nat \ {0}, a % p = 0, b % p = 0
  PROVE  (a - b) % p = 0
<1> DEFINE k == a \div p
           m == b \div p
<1>1. k \in Int /\ m \in Int /\ a = k * p /\ b = m * p
  BY IntDivision
<1> HIDE DEF k, m
<1>2. k * p - m * p = (k - m) * p
  BY <1>1
<1>3. (k - m) * p = a - b /\ k - m \in Int
  BY <1>1, <1>2
<1>4. ((k - m) * p) % p = 0
  BY <1>3, IntMultiple
<1>5. QED
  BY <1>3, <1>4

(* The distance from the start of a run is the sum of two.                 *)
LEMMA Distances ==
  ASSUME NEW v \in Nat, NEW j \in Nat, NEW b \in Nat
  PROVE  v - j \in Int /\ v - (j + b) = (v - j) - b
OBVIOUS

(* An empty sequence is on the grid.                                       *)
LEMMA EmptyOnGrid == OnGrid(<< >>)
<1>1. 0 % Unit = 0
  BY UnitAssumption
<1>2. QED
  BY <1>1 DEF OnGrid

(* Before anything is sent everything is on the grid.                      *)
LEMMA InitGrid == Init => Grid
<1>1. 0 % Unit = 0
  BY UnitAssumption
<1>2. QED
  BY <1>1, EmptyOnGrid DEF Init, Grid, Pending

(* Two runs on the grid make one.                                          *)
LEMMA JoinOnGrid ==
  ASSUME NEW s \in Seq(Nat), NEW t \in Seq(Nat), OnGrid(s), OnGrid(t)
  PROVE  OnGrid(s \o t)
<1>0. /\ Unit \in Nat \ {0} /\ Len(s) \in Nat /\ Len(t) \in Nat
      /\ Len(s) % Unit = 0 /\ Len(t) % Unit = 0
      /\ DOMAIN s = 1 .. Len(s) /\ DOMAIN t = 1 .. Len(t)
      /\ Len(s \o t) = Len(s) + Len(t) /\ DOMAIN (s \o t) = 1 .. Len(s) + Len(t)
      /\ \A i \in DOMAIN (s \o t) : (s \o t)[i] = IF i <= Len(s) THEN s[i]
                                                 ELSE t[i - Len(s)]
  BY UnitAssumption, ConcatProperties, LenProperties DEF OnGrid
<1>1. Len(s \o t) % Unit = 0
  <2>1. (Len(s) + Len(t)) % Unit = 0
    BY <1>0, MultiplesAdd
  <2>2. QED
    BY <1>0, <2>1
<1>2. ASSUME NEW i \in DOMAIN (s \o t)
      PROVE  ((s \o t)[i] - i) % Unit = 0
  <2>1. CASE i <= Len(s)
    <3>1. i \in DOMAIN s /\ (s \o t)[i] = s[i]
      BY <1>0, <2>1
    <3>2. QED
      BY <3>1 DEF OnGrid
  <2>2. CASE i > Len(s)
    <3> DEFINE j == i - Len(s)
    <3>1. i \in 1 .. Len(s) + Len(t)
      BY <1>0
    <3>2. j \in 1 .. Len(t) /\ i = j + Len(s) /\ j \in Nat /\ i \in Nat
      BY <1>0, <2>2, <3>1
    <3>3. (s \o t)[i] = t[j] /\ j \in DOMAIN t
      BY <1>0, <2>2, <3>1, <3>2
    <3> HIDE DEF j
    <3>4. (t[j] - j) % Unit = 0 /\ t[j] \in Nat
      BY <3>3 DEF OnGrid
    <3> DEFINE v == t[j]
               a == v - j
               b == Len(s)
    <3>5. v \in Nat /\ b \in Nat /\ i = j + b /\ (s \o t)[i] = v
      BY <1>0, <3>2, <3>3, <3>4
    <3>6. a % Unit = 0 /\ b % Unit = 0
      BY <1>0, <3>4
    <3> HIDE DEF v, b
    <3>7. v - j \in Int /\ v - (j + b) = (v - j) - b
      BY <3>2, <3>5, Distances, Zenon
    <3>8. a \in Int /\ b \in Int /\ v - i = a - b
      BY <3>7, <3>5
    <3> HIDE DEF a
    <3>9. (a - b) % Unit = 0
      BY <1>0, <3>6, <3>8, MultiplesSubtract
    <3>10. QED
      BY <3>5, <3>8, <3>9
  <2>3. QED
    BY <1>0, <2>1, <2>2
<1>3. QED
  BY <1>1, <1>2 DEF OnGrid

(* The encoder goes on with whole transport stream packets.                *)
LEMMA DeliverKeepsGrid ==
  ASSUME TypeOK, Grid, NEW n \in Datagrams, Deliver(n)
  PROVE  Grid'
<1> SUFFICES ASSUME WholeUnits'
             PROVE  /\ sent' % Unit = 0 /\ OnGrid(accepted') /\ OnGrid(Pending')
                    /\ \A k \in DOMAIN rx' : OnGrid(rx'[k])
  BY DEF Grid
<1> DEFINE d == [i \in 1 .. n |-> sent + i]
<1>0. /\ n \in Nat /\ sent \in Nat /\ sent' = sent + n /\ Unit \in Nat \ {0}
      /\ UNCHANGED <<accepted, cut, Pending>> /\ (rx' = rx \/ rx' = Append(rx, d))
      /\ rx \in Seq(Seq(Nat))
  BY DatagramsAssumption, UnitAssumption
     DEF Deliver, TypeOK, threadVars, localVars, histVars, Pending
<1>1. /\ n % Unit = 0 /\ sent % Unit = 0 /\ OnGrid(accepted) /\ OnGrid(Pending)
      /\ \A k \in DOMAIN rx : OnGrid(rx[k])
  BY <1>0 DEF Grid, WholeUnits
<1>2. sent' % Unit = 0
  <2>1. (sent + n) % Unit = 0
    BY <1>0, <1>1, MultiplesAdd
  <2>2. QED
    BY <1>0, <2>1
<1>3. OnGrid(d) /\ d \in Seq(Nat)
  <2>1. d \in Seq(Nat) /\ Len(d) = n /\ DOMAIN d = 1 .. n
    BY <1>0
  <2>2. \A i \in 1 .. n : d[i] - i = sent
    BY <1>0
  <2> HIDE DEF d
  <2>3. QED
    BY <1>1, <2>1, <2>2 DEF OnGrid
<1> HIDE DEF d
<1>4. ASSUME NEW k \in DOMAIN rx' PROVE OnGrid(rx'[k])
  <2>1. CASE rx' = rx
    BY <1>1, <2>1
  <2>2. CASE rx' = Append(rx, d)
    <3>1. /\ DOMAIN rx = 1 .. Len(rx) /\ DOMAIN rx' = 1 .. Len(rx) + 1
          /\ Len(rx) \in Nat /\ rx'[Len(rx) + 1] = d
          /\ \A i \in 1 .. Len(rx) : rx'[i] = rx[i]
      BY <1>0, <1>3, <2>2, AppendProperties
    <3>2. QED
      BY <1>1, <1>3, <3>1
  <2>3. QED
    BY <1>0, <2>1, <2>2
<1>5. QED
  BY <1>0, <1>1, <1>2, <1>4

(* A datagram that is not cut stays what it is.                            *)
LEMMA ReceiveKeepsGrid ==
  ASSUME TypeOK, Grid, recvfrom
  PROVE  Grid'
<1> SUFFICES ASSUME WholeUnits'
             PROVE  /\ sent' % Unit = 0 /\ OnGrid(accepted') /\ OnGrid(Pending')
                    /\ \A k \in DOMAIN rx' : OnGrid(rx'[k])
  BY DEF Grid
<1>0. UNCHANGED <<accepted, sent>> /\ rx \in Seq(Seq(Nat))
  BY DEF recvfrom, TypeOK
<1>1. WholeUnits
  <2>1. ~cut' => ~cut
    <3>1. UNCHANGED cut \/ cut' = (cut \/ Len(Head(rx)) > BufMax)
      BY Zenon DEF recvfrom
    <3>2. QED
      BY <3>1, Zenon
  <2>2. QED
    BY <2>1, Zenon DEF WholeUnits
<1>2. /\ sent % Unit = 0 /\ OnGrid(accepted) /\ \A k \in DOMAIN rx : OnGrid(rx[k])
  BY <1>1 DEF Grid
<1>3. \A k \in DOMAIN rx' : OnGrid(rx'[k])
  <2>1. CASE rx' = rx
    BY <1>2, <2>1
  <2>2. CASE rx # << >> /\ rx' = Tail(rx)
    <3>1. \A k \in DOMAIN rx' : k + 1 \in DOMAIN rx /\ rx'[k] = rx[k + 1]
      BY <1>0, <2>2, TailOf
    <3>2. QED
      BY <1>2, <3>1
  <2>3. QED
    BY <2>1, <2>2 DEF recvfrom
<1>4. OnGrid(Pending')
  <2>1. CASE main' = "delete"
    BY <2>1, EmptyOnGrid DEF Pending
  <2>2. CASE /\ rx # << >> /\ main' = "lock" /\ buf' = Received(Head(rx))
             /\ cut' = (cut \/ Len(Head(rx)) > BufMax)
    <3>1. Head(rx) = rx[1] /\ OnGrid(rx[1]) /\ rx[1] \in Seq(Nat)
      BY <1>0, <1>2, <2>2, TailOf, EndsOfQueue
    <3>2. Len(rx[1]) <= BufMax
      <4>1. Len(rx[1]) \in Nat /\ BufMax \in Nat
        BY <3>1, BufMaxAssumption, SizeAssumption
      <4>2. ~(Len(Head(rx)) > BufMax)
        BY <2>2, Zenon DEF WholeUnits
      <4>3. QED
        BY <3>1, <4>1, <4>2
    <3>3. Received(rx[1]) = SubSeq(rx[1], 1, Len(rx[1]))
      BY <3>1, <3>2, BufMaxAssumption, SizeAssumption DEF Received
    <3>4. Received(rx[1]) = rx[1]
      BY <3>1, <3>3, SubSeqFull
    <3>5. Pending' = rx[1]
      BY <2>2, <3>1, <3>4 DEF Pending
    <3>6. QED
      BY <3>1, <3>5
  <2>3. QED
    BY <2>1, <2>2 DEF recvfrom
<1>5. QED
  BY <1>0, <1>2, <1>3, <1>4

(* The queue accepts whole datagrams.                                      *)
LEMMA WriteKeepsGrid ==
  ASSUME TypeOK, Grid, WriteQueue
  PROVE  Grid'
<1> SUFFICES ASSUME WholeUnits'
             PROVE  /\ sent' % Unit = 0 /\ OnGrid(accepted') /\ OnGrid(Pending')
                    /\ \A k \in DOMAIN rx' : OnGrid(rx'[k])
  BY DEF Grid
<1>0. /\ UNCHANGED <<rx, sent, cut>> /\ Pending = buf /\ Pending' = << >>
      /\ accepted \in Seq(Nat) /\ buf \in Seq(Nat)
      /\ accepted' = accepted \o Stored(buf)
  BY DEF WriteQueue, At, socketVars, TypeOK, Pending
<1>1. /\ sent % Unit = 0 /\ OnGrid(accepted) /\ OnGrid(buf)
      /\ \A k \in DOMAIN rx : OnGrid(rx[k])
  BY <1>0 DEF Grid, WholeUnits
<1>2. OnGrid(Stored(buf)) /\ Stored(buf) \in Seq(Nat)
  BY <1>0, <1>1, EmptyOnGrid, EmptySeq DEF Stored
<1>3. OnGrid(accepted')
  BY <1>0, <1>1, <1>2, JoinOnGrid
<1>4. QED
  BY <1>0, <1>1, <1>3, EmptyOnGrid

(* Every step keeps the grid.                                              *)
LEMMA GridStep == IInv /\ Grid /\ [Next]_vars => Grid'
<1> SUFFICES ASSUME IInv, Grid, [Next]_vars PROVE Grid'
  OBVIOUS
<1>0. TypeOK
  BY DEF IInv
<1>1. CASE \E n \in Datagrams : Deliver(n)
  BY <1>0, <1>1, DeliverKeepsGrid
<1>2. CASE recvfrom
  BY <1>0, <1>2, ReceiveKeepsGrid
<1>3. CASE WriteQueue
  BY <1>0, <1>3, WriteKeepsGrid
<1>4. CASE UNCHANGED <<accepted, rx, sent, cut>> /\ Pending' \in {Pending, << >>}
  BY <1>4, EmptyOnGrid DEF Grid, WholeUnits
<1>5. \/ \E n \in Datagrams : Deliver(n)
      \/ recvfrom \/ WriteQueue
      \/ UNCHANGED <<accepted, rx, sent, cut>> /\ Pending' \in {Pending, << >>}
  <2> USE DEF Die, At, EventAt, threadVars, localVars, socketVars, histVars, Pending
  <2>1. CASE UNCHANGED vars
    BY <2>1 DEF vars
  <2>2. CASE \/ x_thread_start \/ socket \/ bind \/ UnlockMain
             \/ DeleteRC \/ x_queue_free \/ return \/ LockMain
    BY <2>2 DEF x_thread_start, socket, bind, LockMain,
       UnlockMain, DeleteRC, x_queue_free, return
  <2>3. CASE EventStep \/ LockEvent
    BY <2>3 DEF EventStep, TimeoutStep, event_base_new, evconnlistener_new_bind,
       TimerFires, LockEvent, UnlockEvent, FanOut, x_queue_count, x_queue_read
  <2>4. CASE cmd_shutdown \/ SendsThroughDeletedRC
    BY <2>4 DEF cmd_shutdown, SendsThroughDeletedRC
  <2>5. QED
    BY <2>1, <2>2, <2>3, <2>4 DEF Next, MainStep
<1>6. QED
  BY <1>1, <1>2, <1>3, <1>4, <1>5

(* Whatever is dropped on the way, the accepted stream consists of whole   *)
(* transport stream packets when the encoder sends whole ones and no       *)
(* datagram is cut.                                                        *)
THEOREM StreamStaysAligned == Spec => []Aligned
<1>1. Grid => Aligned
  BY DEF Grid, WholeUnits, OnGrid, Aligned
<1>2. QED
  BY Inductive, InitGrid, GridStep, <1>1, PTL DEF Spec

(***************************************************************************)
(* What timeout_cb hands on: whole packets, at least one, of bytes that    *)
(* were sent (or of memory that was freed).                                *)
(***************************************************************************)

Run == Seq(0 .. MaxSent)

Numbered == /\ sent \in 0 .. MaxSent
            /\ rx \in Seq(Run) /\ buf \in Run /\ queue \in Run /\ tmpbuf \in Run

(* timeout_cb goes on to the users with a packet at least, even if it read *)
(* a queue that had been freed.                                            *)
Filled == event = "fanout" \/ (event = "unlock" /\ qc >= Packet) => Len(tmpbuf) >= Packet

(* Before anything is sent there is nothing to number.                     *)
LEMMA InitNumbered == Init => Numbered /\ Filled
BY BoundsAssumption DEF Init, Numbered, Filled, Run

(* A part of a sequence of T has elements of T.                            *)
LEMMA PartOf ==
  ASSUME NEW T, NEW s \in Seq(T), NEW m \in Nat \ {0}, NEW n \in 0 .. Len(s)
  PROVE  SubSeq(s, m, n) \in Seq(T)
<1>1. m \in Int /\ n \in Int /\ \A i \in m .. n : i \in 1 .. Len(s)
  OBVIOUS
<1>2. \A i \in m .. n : s[i] \in T
  BY <1>1
<1>3. QED
  BY <1>1, <1>2, SubSeqProperties

(* Receiving, cutting, storing and taking make no bytes up.                *)
LEMMA NumberedStep == IInv /\ Numbered /\ [Next]_vars => Numbered'
<1> SUFFICES ASSUME IInv, Numbered, [Next]_vars PROVE Numbered'
  OBVIOUS
<1>0. /\ sent \in 0 .. MaxSent /\ MaxSent \in Nat
      /\ rx \in Seq(Run) /\ buf \in Run /\ queue \in Run /\ tmpbuf \in Run
  BY BoundsAssumption DEF Numbered
<1>1. CASE UNCHANGED <<sent, rx, buf, queue, tmpbuf>>
  BY <1>0, <1>1 DEF Numbered
<1>2. ASSUME NEW n \in Datagrams, Deliver(n) PROVE Numbered'
  <2> DEFINE d == [i \in 1 .. n |-> sent + i]
  <2>1. /\ n \in Nat /\ sent' \in 0 .. MaxSent /\ sent' = sent + n
        /\ (rx' = rx \/ rx' = Append(rx, d)) /\ UNCHANGED <<buf, queue, tmpbuf>>
    BY <1>0, <1>2, DatagramsAssumption DEF Deliver, queueVars, localVars
  <2>2. d \in Run
    BY <1>0, <2>1 DEF Run
  <2> HIDE DEF d
  <2>3. rx' \in Seq(Run)
    BY <1>0, <2>1, <2>2, EndsOfQueue
  <2>4. QED
    BY <1>0, <2>1, <2>3 DEF Numbered
<1>3. CASE recvfrom
  <2>1. rx' = rx \/ (rx # << >> /\ rx' = Tail(rx))
    BY <1>3 DEF recvfrom
  <2>2. rx' \in Seq(Run)
    BY <1>0, <2>1, EndsOfQueue
  <2>3. buf' = buf \/ (rx # << >> /\ buf' = Received(Head(rx)))
    BY <1>3 DEF recvfrom
  <2>4. ASSUME NEW d \in Run PROVE Received(d) \in Run
    <3> DEFINE n == IF Len(d) < BufMax THEN Len(d) ELSE BufMax
    <3>1. n \in 0 .. Len(d) /\ Received(d) = SubSeq(d, 1, n)
      BY <2>4, BufMaxAssumption, SizeAssumption DEF Received, Run
    <3> HIDE DEF n
    <3>2. d \in Seq(0 .. MaxSent) /\ 1 \in Nat \ {0}
      BY <2>4 DEF Run
    <3>3. SubSeq(d, 1, n) \in Seq(0 .. MaxSent)
      BY <3>1, <3>2, PartOf
    <3>4. QED
      BY <3>1, <3>3 DEF Run
  <2>5. buf' \in Run
    BY <1>0, <2>3, <2>4, EndsOfQueue
  <2>6. UNCHANGED <<sent, queue, tmpbuf>>
    BY <1>3 DEF recvfrom, queueVars
  <2>7. QED
    BY <1>0, <2>2, <2>5, <2>6 DEF Numbered
<1>4. CASE WriteQueue
  <2>1. UNCHANGED <<sent, rx, buf, tmpbuf>> /\ queue' = queue \o Stored(buf)
    BY <1>4 DEF WriteQueue, localVars, socketVars
  <2>2. Stored(buf) \in Run
    <3>1. << >> \in Run
      BY DEF Run
    <3>2. Stored(buf) = buf \/ Stored(buf) = << >>
      BY DEF Stored
    <3>3. QED
      BY <1>0, <3>1, <3>2
  <2>3. queue' \in Run
    BY <1>0, <2>1, <2>2, ConcatProperties DEF Run
  <2>4. QED
    BY <1>0, <2>1, <2>3 DEF Numbered
<1>5. CASE UnlockMain
  <2>1. << >> \in Run
    BY DEF Run
  <2>2. QED
    BY <1>0, <1>5, <2>1 DEF UnlockMain, socketVars, Numbered
<1>6. CASE x_queue_read
  <2>0. qc \in Nat /\ packetSize \in 0 .. qc
    BY PacketSizeIs DEF IInv, TypeOK
  <2>1. UNCHANGED <<sent, rx, buf>>
    BY <1>6 DEF x_queue_read, socketVars
  <2>2. CASE /\ ~freed /\ tmpbuf' = Taken(queue, packetSize)
             /\ queue' = AfterTake(queue, packetSize)
    <3>1. packetSize \in 0 .. Len(queue) /\ Len(queue) \in Nat
      BY <1>0, <1>6, <2>0, <2>2 DEF IInv, Looked, x_queue_read, Run
    <3>2. tmpbuf' \in Run
      BY <1>0, <2>2, <3>1, PartOf DEF Taken, Run
    <3>3. queue' \in Run
      <4>1. packetSize + 1 \in Nat \ {0} /\ Len(queue) \in 0 .. Len(queue)
        BY <3>1
      <4>2. QED
        BY <1>0, <2>2, <4>1, PartOf DEF AfterTake, Run
    <3>4. QED
      BY <1>0, <2>1, <3>2, <3>3 DEF Numbered
  <2>3. CASE UNCHANGED queue /\ tmpbuf' \in {tmpbuf, [i \in 1 .. packetSize |-> Junk]}
    <3>1. [i \in 1 .. packetSize |-> Junk] \in Run
      BY <1>0, <2>0 DEF Junk, Run
    <3>2. tmpbuf' \in Run
      BY <1>0, <2>3, <3>1
    <3>3. QED
      BY <1>0, <2>1, <2>3, <3>2 DEF Numbered
  <2>4. QED
    BY <1>6, <2>2, <2>3 DEF x_queue_read
<1>7. CASE FanOut
  <2>1. << >> \in Run
    BY DEF Run
  <2>2. QED
    BY <1>0, <1>7, <2>1 DEF FanOut, queueVars, socketVars, Numbered
<1>8. CASE x_thread_start \/ socket \/ bind \/ DeleteRC \/ x_queue_free \/ return
  <2>1. UNCHANGED <<sent, rx, buf, queue, tmpbuf>>
    BY <1>8 DEF x_thread_start, socket, bind, DeleteRC, x_queue_free, return,
       queueVars, localVars, socketVars
  <2>2. QED
    BY <1>1, <2>1
<1>9. CASE LockMain \/ LockEvent \/ cmd_shutdown \/ SendsThroughDeletedRC
  <2>1. UNCHANGED <<sent, rx, buf, queue, tmpbuf>>
    BY <1>9 DEF LockMain, LockEvent, cmd_shutdown, SendsThroughDeletedRC,
       queueVars, localVars, socketVars
  <2>2. QED
    BY <1>1, <2>1
<1>10. CASE \/ event_base_new \/ evconnlistener_new_bind \/ TimerFires
            \/ x_queue_count \/ UnlockEvent
  <2>1. UNCHANGED <<sent, rx, buf, queue, tmpbuf>>
    BY <1>10 DEF event_base_new, evconnlistener_new_bind, TimerFires, x_queue_count,
       UnlockEvent, queueVars, localVars, socketVars
  <2>2. QED
    BY <1>1, <2>1
<1>11. CASE UNCHANGED vars
  BY <1>1, <1>11 DEF vars, queueVars, localVars, socketVars
<1>12. QED
  BY <1>2, <1>3, <1>4, <1>5, <1>6, <1>7, <1>8, <1>9, <1>10, <1>11
     DEF Next, MainStep, EventStep, TimeoutStep

(* A read that follows a count of a packet takes a packet at least.        *)
LEMMA FilledStep == IInv /\ Filled /\ [Next]_vars => Filled'
<1> SUFFICES ASSUME IInv, Filled, [Next]_vars PROVE Filled'
  OBVIOUS
<1>0. Packet \in Nat \ {0} /\ qc \in Nat /\ tmpbuf \in Seq(Nat)
  BY PacketAssumption, SizeAssumption DEF IInv, TypeOK
<1>1. CASE UNCHANGED <<event, qc, tmpbuf>>
  BY <1>1 DEF Filled
<1>2. CASE event' \notin {"unlock", "fanout"}
  BY <1>2 DEF Filled
<1>3. CASE x_queue_count
  BY <1>0, <1>3 DEF x_queue_count, Filled, Die
<1>4. CASE x_queue_read
  <2>1. qc >= Packet /\ (~freed => qc = Len(queue)) /\ queue \in Seq(Nat)
    BY <1>4 DEF x_queue_read, IInv, Looked, TypeOK
  <2>2. packetSize \in 0 .. qc /\ packetSize % Packet = 0 /\ qc - packetSize < Packet
    BY <1>0, PacketSizeIs
  <2>3. packetSize >= Packet
    <3>1. packetSize \in Nat /\ packetSize > 0
      BY <1>0, <2>1, <2>2
    <3>2. CASE packetSize < Packet
      <4>1. packetSize % Packet = packetSize
        BY <1>0, <3>1, <3>2
      <4>2. QED
        BY <2>2, <3>1, <4>1
    <3>3. QED
      BY <1>0, <3>1, <3>2
  <2>4. CASE ~freed /\ tmpbuf' = Taken(queue, packetSize)
    <3>1. packetSize \in 0 .. Len(queue)
      BY <1>0, <2>1, <2>2, <2>4
    <3>2. Len(tmpbuf') = packetSize
      BY <2>1, <2>4, <3>1, TakeSplits
    <3>3. QED
      BY <2>3, <3>2 DEF Filled
  <2>5. CASE tmpbuf' = [i \in 1 .. packetSize |-> Junk]
    <3>1. Len(tmpbuf') = packetSize
      BY <1>0, <2>2, <2>5
    <3>2. QED
      BY <2>3, <3>1 DEF Filled
  <2>6. CASE event' = "dead"
    BY <2>6 DEF Filled
  <2>7. QED
    BY <1>4, <2>4, <2>5, <2>6 DEF x_queue_read, Die
<1>5. CASE UnlockEvent
  BY <1>0, <1>5 DEF UnlockEvent, Filled, localVars
<1>6. CASE \/ \E n \in Datagrams : Deliver(n)
           \/ x_thread_start \/ socket \/ bind \/ recvfrom \/ WriteQueue \/ UnlockMain
           \/ DeleteRC \/ x_queue_free \/ return
  <2>1. UNCHANGED <<event, qc, tmpbuf>> \/ event' \in {"base", "dead"}
    BY <1>6 DEF Deliver, x_thread_start, socket, bind, recvfrom, WriteQueue, UnlockMain,
       DeleteRC, x_queue_free, return, Die, threadVars, localVars
  <2>2. QED
    BY <1>1, <1>2, <2>1
<1>7. CASE LockMain \/ cmd_shutdown \/ SendsThroughDeletedRC \/ LockEvent
  <2>1. UNCHANGED <<event, qc, tmpbuf>> \/ event' \in {"count", "dead"}
    BY <1>7 DEF LockMain, cmd_shutdown, SendsThroughDeletedRC, LockEvent, EventAt, Die,
       threadVars, localVars
  <2>2. QED
    BY <1>1, <1>2, <2>1
<1>8. CASE event_base_new \/ evconnlistener_new_bind \/ TimerFires \/ FanOut
  <2>1. event' \notin {"unlock", "fanout"}
    BY <1>8 DEF event_base_new, evconnlistener_new_bind, TimerFires, FanOut, EventAt
  <2>2. QED
    BY <1>2, <2>1
<1>9. CASE UNCHANGED vars
  BY <1>1, <1>9 DEF vars, threadVars, localVars
<1>10. QED
  BY <1>3, <1>4, <1>5, <1>6, <1>7, <1>8, <1>9 DEF Next, MainStep, EventStep, TimeoutStep

(* All bytes that reach timeout_cb are bytes that were sent, and it goes   *)
(* to the users with a packet at least.                                    *)
THEOREM HandsOnPackets == Spec => [](Numbered /\ Filled)
<1>1. Spec => []IInv
  BY Inductive
<1>2. QED
  BY <1>1, InitNumbered, NumberedStep, FilledStep, PTL DEF Spec

=============================================================================
