----------------------------- MODULE StreamPump -----------------------------
(***************************************************************************)
(* The way of the stream through the daemon of NTVService.cpp.  The main   *)
(* thread receives datagrams and writes them to the queue; the event       *)
(* thread takes whole packets out every 5 ms and hands them to the users.  *)
(* One action is what a thread does between two points where the other can *)
(* interfere: a system call, a lock, an access to the shared queue.        *)
(*                                                                         *)
(* The bytes are numbered in the order the encoder sends them, from 1 on.  *)
(* The queue is the sequence that XQueue is shown to implement.            *)
(***************************************************************************)
EXTENDS FifoOps, Integers, FiniteSets, SequencesExt

CONSTANTS Packet,       \* 1316: what one bufferevent_write hands on
          Unit,         \* 188: the length of a transport stream packet
          BufMax,       \* sizeof(buf) in main: longer datagrams are cut
          RxMax,        \* datagrams the socket's receive buffer holds
          Datagrams,    \* lengths of the datagrams the encoder sends
          MaxSent       \* bound: bytes sent

ASSUME PacketAssumption == Packet \in 1 .. Size
ASSUME UnitAssumption == Unit \in Nat \ {0}
ASSUME BufMaxAssumption == BufMax \in 1 .. Size
ASSUME DatagramsAssumption == Datagrams \subseteq Nat
ASSUME BoundsAssumption == RxMax \in Nat /\ MaxSent \in Nat

Junk == 0               \* a byte of memory that has been freed

VARIABLES main,         \* where the main thread is
          event,        \* where the event thread is
          lock,         \* g_queue_lock: "free", or the thread that holds it
          queue,        \* the bytes in g_data_queue
          freed,        \* x_queue_free has been called
          buf,          \* main: the datagram received
          qc,           \* timeout_cb: what x_queue_count returned
          tmpbuf,       \* timeout_cb: the bytes taken and not handed on yet
          sock,         \* g_stream_socket: "none", "open" or "bound"
          shut,         \* the socket has been shut down
          rx,           \* datagrams in the socket's receive buffer
          sent,         \* number of bytes sent so far
          accepted,     \* history: the bytes written to the queue, in order
          streamed,     \* history: the bytes handed to the users, in order,
                        \*   before the queue is freed
          fresh,        \* history: bytes written since timeout_cb last looked
          cut           \* history: a datagram has been cut

threadVars == <<main, event>>
queueVars  == <<lock, queue, freed>>
localVars  == <<buf, qc, tmpbuf>>
socketVars == <<sock, shut, rx, sent>>
histVars   == <<accepted, streamed, fresh, cut>>
vars == <<threadVars, queueVars, localVars, socketVars, histVars>>

Init == /\ main = "start"  /\ event = "none"
        /\ lock = "free"   /\ queue = << >>     /\ freed = FALSE
        /\ buf = << >>     /\ qc = 0            /\ tmpbuf = << >>
        /\ sock = "none"   /\ shut = FALSE      /\ rx = << >>   /\ sent = 0
        /\ accepted = << >> /\ streamed = << >> /\ fresh = 0    /\ cut = FALSE

\* Returning from main, exit() and a crash end both threads.
Ended == main = "dead"
Die == main' = "dead" /\ event' = "dead"

(***************************************************************************)
(* The encoder: a datagram reaches a bound socket or is lost.              *)
(***************************************************************************)

Deliver(n) ==
  /\ sent + n <= MaxSent
  /\ ~Ended
  /\ sent' = sent + n
  /\ rx' = IF sock = "bound" /\ Len(rx) < RxMax
           THEN Append(rx, [i \in 1 .. n |-> sent + i])
           ELSE rx
  /\ UNCHANGED <<threadVars, queueVars, localVars, sock, shut, histVars>>

(***************************************************************************)
(* main().                                                                 *)
(***************************************************************************)

At(here, there) == main = here /\ main' = there

x_thread_start == /\ At("start", "socket")
                  /\ event' = "base"
                  /\ UNCHANGED <<queueVars, localVars, socketVars, histVars>>

socket == /\ main = "socket"
          /\ \/ main' = "bind" /\ sock' = "open" /\ UNCHANGED event
             \/ Die /\ UNCHANGED sock
          /\ UNCHANGED <<queueVars, localVars, shut, rx, sent, histVars>>

bind == /\ main = "bind"
        /\ \/ main' = "recv" /\ sock' = "bound" /\ UNCHANGED event
           \/ Die /\ UNCHANGED sock
        /\ UNCHANGED <<queueVars, localVars, shut, rx, sent, histVars>>

\* What recvfrom puts in buf of a datagram d.
Uncut(d) == d
BufferWhole(d) == [i \in 1 .. BufMax |-> IF i <= Len(d) THEN d[i] ELSE Junk]
Received(d) == SubSeq(d, 1, IF Len(d) < BufMax THEN Len(d) ELSE BufMax)

\* recvfrom returns 0 for an empty datagram, and when the socket has been
\* shut down and nothing is left in its receive buffer.
EndsOnlyWhenEmpty == rx # << >> /\ Head(rx) = << >>
EndOfStream == IF rx = << >> THEN shut ELSE Head(rx) = << >>

recvfrom ==
  /\ main = "recv"
  /\ \/ /\ EndOfStream
        /\ main' = "delete"
        /\ rx' = IF rx = << >> THEN rx ELSE Tail(rx)
        /\ UNCHANGED <<buf, cut>>
     \/ /\ rx # << >> /\ ~EndOfStream
        /\ main' = "lock"
        /\ buf' = Received(Head(rx))
        /\ cut' = (cut \/ Len(Head(rx)) > BufMax)
        /\ rx' = Tail(rx)
  /\ UNCHANGED <<event, queueVars, qc, tmpbuf, sock, shut, sent, accepted,
                 streamed, fresh>>

TakesAnyway(thread) == lock' = thread
x_lock_lock(thread) == lock = "free" /\ lock' = thread
x_lock_unlock == lock' = "free"

LockMain == /\ At("lock", "write")
            /\ x_lock_lock("main")
            /\ UNCHANGED <<event, queue, freed, localVars, socketVars, histVars>>

\* x_queue_write: all of the datagram, or nothing ("Buffer overflow").
StoresAPart(b) == SubSeq(b, 1, IF Len(b) < Size - Len(queue) THEN Len(b)
                                                             ELSE Size - Len(queue))
Stored(b) == IF Accepts(queue, b) THEN b ELSE << >>

WriteQueue == /\ At("write", "unlock")
              /\ queue' = queue \o Stored(buf)
              /\ accepted' = accepted \o Stored(buf)
              /\ fresh' = fresh + Len(Stored(buf))
              /\ UNCHANGED <<event, lock, freed, localVars, socketVars, streamed, cut>>

UnlockMain == /\ At("unlock", "recv")
              /\ x_lock_unlock
              /\ buf' = << >>
              /\ UNCHANGED <<event, queue, freed, qc, tmpbuf, socketVars, histVars>>

\* The teardown takes no lock and does not wait for the event thread.
DeleteRC == /\ At("delete", "free")
            /\ UNCHANGED <<event, queueVars, localVars, socketVars, histVars>>

x_queue_free == /\ At("free", "return")
                /\ freed' = TRUE
                /\ UNCHANGED <<event, lock, queue, localVars, socketVars, histVars>>

return == /\ main = "return"
          /\ Die
          /\ UNCHANGED <<queueVars, localVars, socketVars, histVars>>

(***************************************************************************)
(* UserConnectThread and timeout_cb.                                       *)
(***************************************************************************)

EventAt(here, there) == event = here /\ event' = there

\* event_base_new and evconnlistener_new_bind may fail: the thread is gone.
event_base_new == /\ event = "base"
                  /\ event' \in {"listen", "gone"}
                  /\ UNCHANGED <<main, queueVars, localVars, socketVars, histVars>>

evconnlistener_new_bind ==
  /\ event = "listen"
  /\ event' \in {"loop", "gone"}
  /\ UNCHANGED <<main, queueVars, localVars, socketVars, histVars>>

FiresOnce == /\ EventAt("loop", "lock")
             /\ streamed = << >>
             /\ UNCHANGED <<main, queueVars, localVars, socketVars, histVars>>
TimerFires == /\ EventAt("loop", "lock")
              /\ UNCHANGED <<main, queueVars, localVars, socketVars, histVars>>

LockEvent == /\ EventAt("lock", "count")
             /\ x_lock_lock("event")
             /\ UNCHANGED <<main, queue, freed, localVars, socketVars, histVars>>

\* A freed queue reads as it was, as anything, or not at all.  Less than a
\* packet is left where it is.
x_queue_count ==
  /\ event = "count"
  /\ \/ /\ qc' \in IF freed THEN 0 .. Size ELSE {Len(queue)}
        /\ event' = IF qc' < Packet THEN "unlock" ELSE "read"
        /\ fresh' = 0
        /\ UNCHANGED main
     \/ freed /\ Die /\ UNCHANGED <<qc, fresh>>
  /\ UNCHANGED <<queueVars, buf, tmpbuf, socketVars, accepted, streamed, cut>>

\* (qc/1316)*1316
AllHeld == qc
OnePacket == IF qc >= Packet THEN Packet ELSE 0
packetSize == (qc \div Packet) * Packet

x_queue_read ==
  /\ event = "read"
  /\ \/ /\ ~freed
        /\ event' = "unlock"
        /\ tmpbuf' = Taken(queue, packetSize)
        /\ queue' = AfterTake(queue, packetSize)
        /\ UNCHANGED main
     \/ /\ freed
        /\ \/ /\ event' = "unlock"
              /\ tmpbuf' = [i \in 1 .. packetSize |-> Junk]
              /\ UNCHANGED main
           \/ Die /\ UNCHANGED tmpbuf
        /\ UNCHANGED queue
  /\ UNCHANGED <<lock, freed, buf, qc, socketVars, histVars>>

UnlockEvent == /\ event = "unlock"
               /\ event' = IF qc < Packet THEN "loop" ELSE "fanout"
               /\ x_lock_unlock
               /\ UNCHANGED <<main, queue, freed, localVars, socketVars, histVars>>

FanOut == /\ EventAt("fanout", "loop")
          /\ streamed' = IF freed THEN streamed ELSE streamed \o tmpbuf
          /\ tmpbuf' = << >>
          /\ UNCHANGED <<main, queueVars, buf, qc, socketVars, accepted, fresh, cut>>

\* conn_localhostcb: shutdown(g_stream_socket, 2).  Before socket() has
\* returned, g_stream_socket is 0, which is /dev/null, and nothing happens.
cmd_shutdown == /\ event = "loop"
                /\ shut' = (shut \/ sock # "none")
                /\ UNCHANGED <<threadVars, queueVars, localVars, sock, rx, sent, histVars>>

\* conn_readcb forwards a key through g_pRC, which main may have deleted.
SendsThroughDeletedRC == /\ event = "loop" /\ main \in {"free", "return"}
                         /\ Die
                         /\ UNCHANGED <<queueVars, localVars, socketVars, histVars>>

(***************************************************************************)
(* The specification.                                                      *)
(***************************************************************************)

MainStep == \/ x_thread_start \/ socket \/ bind \/ recvfrom \/ WriteQueue
            \/ UnlockMain \/ DeleteRC \/ x_queue_free \/ return

TimeoutStep == TimerFires \/ x_queue_count \/ x_queue_read \/ UnlockEvent

EventStep == event_base_new \/ evconnlistener_new_bind \/ TimeoutStep \/ FanOut

Next == \/ \E n \in Datagrams : Deliver(n)
        \/ MainStep \/ LockMain
        \/ EventStep \/ LockEvent
        \/ cmd_shutdown
        \/ SendsThroughDeletedRC

Spec == Init /\ [][Next]_vars

\* Both threads run.  Neither keeps the lock while it sleeps, so that a
\* thread that waits for it finds it free again and again.
FairSpec == /\ Spec
            /\ WF_vars(MainStep) /\ SF_vars(LockMain)
            /\ WF_vars(EventStep) /\ SF_vars(LockEvent)

(***************************************************************************)
(* Properties.                                                             *)
(***************************************************************************)

(* Every variable keeps its type; in particular neither the queue nor      *)
(* main's buffer ever holds more than it has room for.                     *)
TypeOK ==
  /\ main \in {"start", "socket", "bind", "recv", "lock", "write", "unlock",
               "delete", "free", "return", "dead"}
  /\ event \in {"none", "base", "listen", "gone", "loop", "lock", "count",
                "read", "unlock", "fanout", "dead"}
  /\ lock \in {"free", "main", "event"}
  /\ queue \in Seq(Nat) /\ Len(queue) <= Size
  /\ freed \in BOOLEAN
  /\ buf \in Seq(Nat) /\ Len(buf) <= BufMax
  /\ qc \in 0 .. Size
  /\ tmpbuf \in Seq(Nat)
  /\ sock \in {"none", "open", "bound"}
  /\ shut \in BOOLEAN
  /\ rx \in Seq(Seq(Nat))
  /\ sent \in Nat
  /\ accepted \in Seq(Nat)
  /\ streamed \in Seq(Nat)
  /\ fresh \in Nat
  /\ cut \in BOOLEAN

MainInside == main \in {"write", "unlock"}
EventInside == event \in {"count", "read", "unlock"}

(* A thread that writes, counts or reads the queue finds the other outside *)
(* of it.  (The teardown does not enter: x_queue_free takes no lock.)      *)
QueueExclusive == ~(MainInside /\ EventInside)

(* As long as the queue exists no byte is lost, repeated or reordered      *)
(* between the write of the main thread and the users: what was accepted   *)
(* is what was streamed, what timeout_cb carries and what the queue holds; *)
(* and what is streamed are whole packets.                                 *)
StreamConserved ==
  ~freed => /\ accepted = streamed \o tmpbuf \o queue
            /\ Len(streamed) % Packet = 0
            /\ Len(tmpbuf) % Packet = 0

(* Datagrams may be lost before the queue, but what gets in is in order.   *)
InOrder == \A i, j \in DOMAIN accepted : i < j => accepted[i] < accepted[j]

(* When the encoder sends whole transport stream packets, whatever is      *)
(* dropped on the way the accepted stream consists of whole ones, as long  *)
(* as no datagram was longer than buf: drops take whole datagrams.         *)
Aligned ==
  (~cut /\ \A n \in Datagrams : n % Unit = 0) =>
    /\ Len(accepted) % Unit = 0
    /\ \A i \in DOMAIN accepted : (accepted[i] - i) % Unit = 0

(* A datagram is refused only if it and the bytes written since timeout_cb *)
(* last looked exceed the queue less the rest of a packet: what was left   *)
(* behind earlier never takes up more than that.                           *)
OverflowOnlyUnderLoad ==
  main = "write" /\ ~Accepts(queue, buf) => fresh + Len(buf) > Size - (Packet - 1)

(* Every whole packet accepted reaches the users, unless the process ends  *)
(* or never got its event loop.                                            *)
Delivered ==
  \A n \in 1 .. MaxSent \div Packet :
    (Len(accepted) >= n * Packet /\ event # "gone") ~>
       (Len(streamed) >= n * Packet \/ Ended \/ freed \/ event = "gone")

(* A shutdown that reaches the socket ends the process once the stream     *)
(* stops: recvfrom drains the receive buffer first.  MaxSent stops it.     *)
ShutdownEnds == shut ~> Ended

=============================================================================
