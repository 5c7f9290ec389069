----------------------------- MODULE NTVService -----------------------------
(***************************************************************************)
(* The whole daemon: the main thread and the timer of StreamPump together  *)
(* with the callbacks of Sessions.  The event thread runs one callback at  *)
(* a time, so that those of Sessions run while it is in its loop and wait  *)
(* while timeout_cb waits for the lock.                                    *)
(***************************************************************************)
EXTENDS Integers, Sequences, FiniteSets, SequencesExt

CONSTANTS Size, Packet, Unit, BufMax, RxMax, Datagrams, MaxSent,
          Viewers, Locals, max_user, FdLimit, Keys, NoKey, Unset, Garbled,
          Qualities, DefaultQuality, ViewerMessages, LocalMessages, Nothing,
          MaxMessages, MaxPackets

\* What StreamPump and Sessions assume of their constants.
ASSUME PumpAssumption ==
  /\ Size \in Nat \ {0} /\ Packet \in 1 .. Size /\ BufMax \in 1 .. Size
  /\ Unit \in Nat \ {0}
  /\ Datagrams \subseteq Nat
  /\ RxMax \in Nat /\ MaxSent \in Nat
ASSUME TableAssumption ==
  /\ max_user \in Nat \ {0}
  /\ Viewers \cap Locals = {} /\ Nothing \notin Viewers \cup Locals
  /\ {NoKey, Unset, Garbled} \cap Keys = {} /\ Unset # NoKey
  /\ DefaultQuality \in Qualities
  /\ MaxMessages \in Nat /\ MaxPackets \in Nat
ASSUME MessagesAssumption ==
  /\ \A m \in ViewerMessages : m.type \in {"login", "key", "cmd", "other"}
  /\ \A m \in LocalMessages : /\ m.quality \in Qualities \cup {Nothing}
                              /\ m.key \in Keys \cup {NoKey, Nothing}
                              /\ m.shutdown \in BOOLEAN

\* What timeout_cb may find in the queue: one or more packets of bytes that
\* were sent, or of what is left of a queue that was freed.
Runs == UNION {[1 .. n -> [1 .. Packet -> 0 .. MaxSent]] : n \in 1 .. MaxPackets}

VARIABLES main, event, lock, queue, freed, buf, qc, tmpbuf, sock, shut, rx,
          sent, accepted, streamed, fresh, cut

pumpVars == <<main, event, lock, queue, freed, buf, qc, tmpbuf, sock, shut, rx,
              sent, accepted, streamed, fresh, cut>>

VARIABLES user_array, bev, ptr, peer, inbox, budget, NTV_Key, tsheader, out,
          rc, commands, fanned, since

sessionVars == <<user_array, bev, ptr, peer, inbox, budget, NTV_Key, tsheader,
                 out, rc, commands, fanned, since>>

vars == <<pumpVars, sessionVars>>

P == INSTANCE StreamPump
S == INSTANCE Sessions WITH Batches <- Runs

Init == P!Init /\ S!Init

(* tmpbuf as the run of packets that timeout_cb writes to each user. *)
PacketsFirst(bytes) == [k \in 1 .. Len(bytes) \div Packet |->
                          SubSeq(bytes, 1, Packet)]
PacketsShort(bytes) == [k \in 1 .. Len(bytes) \div Packet |->
                          SubSeq(bytes, (k - 1) * Packet + 1, k * Packet - 1)]
Packets(bytes) == [k \in 1 .. Len(bytes) \div Packet |->
                     SubSeq(bytes, (k - 1) * Packet + 1, k * Packet)]

FanOut == /\ P!FanOut
          /\ Len(fanned) + Len(tmpbuf) \div Packet <= MaxPackets
          /\ S!FanOut(Packets(tmpbuf))

(* cmd:shutdown ends main's loop; it does not end the process by itself. *)
ExitsAtOnce == /\ P!Die
               /\ UNCHANGED <<lock, queue, freed, buf, qc, tmpbuf, sock, shut,
                              rx, sent, accepted, streamed, fresh, cut>>
EndsMain == P!cmd_shutdown

(* The callbacks of the connections. *)
Callback(c) ==
  /\ event = "loop"
  /\ \/ /\ S!listener_cb(c) \/ S!conn_eventcb(c) \/ S!conn_readcb(c)
        /\ UNCHANGED pumpVars
     \/ /\ S!conn_localhostcb(c)
        /\ IF S!AsksShutdown(c) THEN EndsMain ELSE UNCHANGED pumpVars
     \/ /\ S!conn_readcb_key(c)
        /\ S!LoggedIn(ptr[c])
        /\ P!SendsThroughDeletedRC

(* The other ends; the kernel refuses them while nobody listens. *)
Listening == event \notin {"none", "base", "listen", "gone", "dead"}

Outside ==
  /\ Listening
  /\ \/ \E c \in S!Conns : S!Connect(c)
     \/ \E c \in Viewers, m \in ViewerMessages : S!Send(c, m)
     \/ \E c \in Locals, m \in LocalMessages : S!Send(c, m)
     \/ \E c \in S!Conns, how \in {"fin", "rst"} : S!End(c, how)
  /\ UNCHANGED pumpVars

Main == P!MainStep /\ UNCHANGED sessionVars
LockMain == P!LockMain /\ UNCHANGED sessionVars
LockEvent == P!LockEvent /\ UNCHANGED sessionVars
Loop == \/ /\ \/ P!event_base_new
              \/ P!evconnlistener_new_bind
              \/ P!TimeoutStep
           /\ UNCHANGED sessionVars
        \/ FanOut
Encoder == /\ \E n \in Datagrams : P!Deliver(n)
           /\ UNCHANGED sessionVars

Next == \/ Main \/ LockMain \/ LockEvent \/ Loop \/ Encoder \/ Outside
        \/ \E c \in S!Conns : Callback(c)

Spec == Init /\ [][Next]_vars

(* An iteration of event_base_dispatch runs every event that is ready, so  *)
(* a callback that is ready in loop after loop is run.                     *)
FairSpec == /\ Spec
            /\ WF_vars(Main) /\ SF_vars(LockMain)
            /\ WF_vars(Loop) /\ SF_vars(LockEvent)
            /\ \A c \in S!Conns : SF_vars(Callback(c))

(***************************************************************************)
(* Properties.                                                             *)
(***************************************************************************)

(* The two threads and the stream behave as StreamPump says, although the  *)
(* event thread also runs callbacks and a callback may end the process:    *)
(* what the pump was shown to guarantee alone holds of the daemon.         *)
IsPump == P!Spec

(* The table and the connections behave as Sessions says, although the     *)
(* packets now come out of the queue and the process may end at any time.  *)
IsSessions == S!Spec

(* The bytes of a run of packets, one packet after the other.              *)
Bytes(packets) == [i \in 1 .. Len(packets) * Packet |->
                     packets[(i - 1) \div Packet + 1][((i - 1) % Packet) + 1]]

(* From the socket to the screen: what a connected viewer has been sent    *)
(* after its header, followed by what timeout_cb carries and what the      *)
(* queue holds, is all that main accepted but for the packets that were    *)
(* handed on before its login was granted.  A viewer misses nothing and    *)
(* gets nothing twice, whoever comes and goes meanwhile.                   *)
EndToEnd ==
  ~freed => \A c \in Viewers :
              bev[c] = "user" /\ since[c] # 0 =>
                Bytes(Tail(out[c])) \o tmpbuf \o queue
                  = SubSeq(accepted, (since[c] - 1) * Packet + 1, Len(accepted))

(* The bytes that a viewer is sent after its header, by packet and place.  *)
Places(c) == (2 .. Len(out[c])) \X (1 .. Packet)
At(c, p) == out[c][p[1]][p[2]]
Earlier(p, q) == p[1] < q[1] \/ (p[1] = q[1] /\ p[2] < q[2])

(* Whatever is dropped before the queue, a viewer, also one that has left, *)
(* never got an older byte after a newer one, nor the same byte twice.     *)
ScreenInOrder ==
  ~freed => \A c \in Viewers : \A p, q \in Places(c) :
              Earlier(p, q) => At(c, p) < At(c, q)

(* Whenever a viewer logs in and whatever is dropped, each packet it is    *)
(* sent begins where a transport stream packet begins and consists of      *)
(* whole ones, if the encoder sends whole ones and none is cut by recvfrom *)
(* (1316 bytes are seven of 188).                                          *)
ScreenAligned ==
  ~freed /\ ~cut /\ Packet % Unit = 0 /\ (\A n \in Datagrams : n % Unit = 0) =>
    \A c \in Viewers : \A p \in Places(c) : (At(c, p) - p[2]) % Unit = 0

(* A packet accepted while a viewer watches reaches it, unless the viewer  *)
(* leaves or the process ends.                                             *)
Awaits(c, n) == bev[c] = "user" /\ since[c] # 0 /\ Len(accepted) >= n * Packet
Over(c) == bev[c] = "freed" \/ freed \/ main = "dead"

Shown == \A c \in Viewers, n \in 1 .. MaxSent \div Packet :
           Awaits(c, n) ~> (Len(fanned) >= n \/ Over(c))

=============================================================================
