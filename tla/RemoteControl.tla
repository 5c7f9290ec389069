---------------------------- MODULE RemoteControl ----------------------------
(***************************************************************************)
(* The remote control of StreamService.java: startRC, stopRC and the       *)
(* thread that receives the viewers' keys on port 11235, looks their codes *)
(* up and writes them to a Bluetooth device.                               *)
(*                                                                         *)
(* The main thread of the application creates and destroys StreamService   *)
(* objects, one after the other, and calls startRC and stopRC of the one   *)
(* there is; the threads of objects destroyed earlier may still run.  An   *)
(* action is what a thread does between two points where another can       *)
(* interfere: a system call, or an access to a field of the object.        *)
(***************************************************************************)
EXTENDS Naturals, Sequences, FiniteSets

CONSTANTS MaxObjects,   \* bound: StreamService objects ever made
          MaxPressed,   \* bound: keys the daemon forwards
          RxMax,        \* datagrams the socket's receive buffer holds
          Functions,    \* what a viewer may ask for
          Known,        \* the functions of a complete code file
          CodeLength,   \* characters of the code of a function
          FlushEvery    \* 32: characters written between two flushes

Objects == 1 .. MaxObjects
Threads == 1 .. MaxObjects
null == 0

ASSUME BoundsAssumption == MaxObjects \in Nat /\ MaxPressed \in Nat /\ RxMax \in Nat
ASSUME KnownAssumption == Known \subseteq Functions /\ Functions # {}
ASSUME CodeLengthAssumption == CodeLength \in [Functions -> Nat]
ASSUME FlushAssumption == FlushEvery \in Nat \ {0}

RCState_Stoped   == 0
RCState_Running  == 1
RCState_WaitStop == 1

VARIABLES service,  \* the StreamService object that exists, or null
          objects,  \* number of objects made so far
          mainAt,   \* where the main thread is: "idle" in its looper, "fill" in
                    \*   LoadRCCode, "record" in the rest of onStartCommand,
                    \*   "close" in stopRC behind the test of mServer
          subject,  \* the object the main thread works on
          toLoad,   \* the functions of the code file being loaded, {} otherwise
          RCState, mServer, rcMap,  \* fields of each object; mServer is the
                    \*   thread that made the socket, rcMap the functions it has
          threads,  \* number of threads started so far
          owner,    \* the object of each thread
          pc,       \* where each thread is
          sock,     \* the thread's socket: "none", "open" or "closed"
          rx,       \* datagrams received by the open socket, not read yet
          bs,       \* the thread's Bluetooth socket: "null", "up" or "closed"
          recvPacket, \* the datagram each thread has read
          flushed,  \* how much of its code has been flushed
          wire,     \* what the device got: pieces of codes
          pressed,  \* number of keys forwarded
          stopped,  \* history: objects stopRC was called for
          faulty,   \* history: something has gone wrong outside
          crashed   \* an uncaught exception has ended the process

mainVars   == <<service, objects, mainAt, subject, toLoad>>
fieldVars  == <<RCState, mServer, rcMap>>
threadVars == <<threads, owner, pc, sock, bs, recvPacket, flushed>>
netVars    == <<rx, wire, pressed>>
histVars   == <<stopped, faulty, crashed>>
vars == <<mainVars, fieldVars, threadVars, netVars, histVars>>

\* The packet before the first datagram; nothing looks at its function.
NoPacket == [id |-> 0, func |-> CHOOSE f \in Functions : TRUE]

Init == /\ service = null /\ objects = 0 /\ mainAt = "idle" /\ subject = null
        /\ toLoad = {}
        /\ RCState = [o \in Objects |-> RCState_Stoped]
        /\ mServer = [o \in Objects |-> null]
        /\ rcMap = [o \in Objects |-> {}]
        /\ threads = 0
        /\ owner = [t \in Threads |-> null]
        /\ pc = [t \in Threads |-> "none"]
        /\ sock = [t \in Threads |-> "none"]
        /\ bs = [t \in Threads |-> "null"]
        /\ recvPacket = [t \in Threads |-> NoPacket]
        /\ flushed = [t \in Threads |-> 0]
        /\ rx = << >> /\ wire = << >> /\ pressed = 0
        /\ stopped = {} /\ faulty = FALSE /\ crashed = FALSE

Running(t) == pc[t] \notin {"none", "done"}
Open(t) == sock[t] = "open"
Fault == faulty' = TRUE

(***************************************************************************)
(* An uncaught exception in any thread ends the process: the kernel closes *)
(* its sockets, no service is left.  Whoever starts the application again  *)
(* gets new objects.                                                       *)
(***************************************************************************)

Crash ==
  /\ crashed' = TRUE
  /\ service' = null /\ mainAt' = "idle" /\ subject' = null
  /\ pc' = [t \in Threads |-> IF Running(t) THEN "done" ELSE pc[t]]
  /\ sock' = [t \in Threads |-> IF Open(t) THEN "closed" ELSE sock[t]]
  /\ bs' = [t \in Threads |-> IF bs[t] = "up" THEN "closed" ELSE bs[t]]
  /\ rx' = << >>
  /\ toLoad' = {}
  /\ UNCHANGED <<objects, fieldVars, threads, owner, recvPacket, flushed,
                 wire, pressed, stopped>>

(***************************************************************************)
(* The main thread.                                                        *)
(***************************************************************************)

Busy(o) == \E t \in Threads : owner[t] = o /\ Running(t)

\* LoadRCCode clears the map before it fills it; without a file, or with one
\* it cannot read, the map stays as it is.
BeginLoad(o) ==
  \/ /\ rcMap' = [rcMap EXCEPT ![o] = {}]
     /\ \E file \in SUBSET Known :
          /\ toLoad' = file
          /\ faulty' = (faulty \/ file # Known \/ Busy(o))
  \/ /\ toLoad' = rcMap[o]
     /\ UNCHANGED rcMap
     /\ faulty' = (faulty \/ rcMap[o] # Known)

\* startService makes an object unless there is one; onStartCommand begins.
Current == IF service = null THEN objects + 1 ELSE service

\* onStartCommand with the remote control in use, and without.
onStartCommand ==
  /\ mainAt = "idle"
  /\ Current \in Objects
  /\ service' = Current
  /\ objects' = IF service = null THEN objects + 1 ELSE objects
  /\ subject' = Current
  /\ \/ mainAt' = "fill" /\ BeginLoad(Current)
     \/ mainAt' = "record" /\ UNCHANGED <<toLoad, rcMap, faulty>>
  /\ UNCHANGED <<RCState, mServer, threadVars, netVars, stopped, crashed>>

\* The thread that startRC starts; OpenRC fails without Bluetooth or pairing.
StartAnyway(o) == TRUE
MayStart(o) == RCState[o] = RCState_Stoped

startRC(o) ==
  \/ /\ MayStart(o)
     /\ threads < MaxObjects
     /\ RCState' = [RCState EXCEPT ![o] = RCState_Running]
     /\ threads' = threads + 1
     /\ owner' = [owner EXCEPT ![threads + 1] = o]
     /\ pc' = [pc EXCEPT ![threads + 1] = "bind"]
  \/ UNCHANGED <<RCState, threads, owner, pc>>

\* In onStartCommand the codes come before the thread.
EndLoad == /\ mainAt = "fill"
           /\ rcMap' = [rcMap EXCEPT ![subject] = toLoad]
           /\ startRC(subject)
           /\ mainAt' = "record"
           /\ toLoad' = {}
           /\ UNCHANGED <<service, objects, subject, mServer, sock, bs,
                          recvPacket, flushed, netVars, histVars>>

\* stopRC up to the test of mServer.
stopRC(o) ==
  /\ stopped' = stopped \cup {o}
  /\ RCState' = IF RCState[o] = RCState_Running
                THEN [RCState EXCEPT ![o] = RCState_WaitStop] ELSE RCState
  /\ mainAt' = IF RCState[o] = RCState_Running /\ mServer[o] # null
               THEN "close" ELSE "idle"

\* The recorder starts, or ReleaseService is called on the living object, or
\* there is no camera and the null is used.
Record ==
  /\ mainAt = "record"
  /\ \/ /\ mainAt' = "idle"
        /\ UNCHANGED <<service, objects, subject, toLoad, fieldVars, threadVars,
                       netVars, histVars>>
     \/ /\ stopRC(subject)
        /\ Fault
        /\ UNCHANGED <<service, objects, subject, toLoad, mServer, rcMap,
                       threadVars, netVars, crashed>>
     \/ Crash /\ Fault

onDestroy ==
  /\ mainAt = "idle" /\ service # null
  /\ service' = null
  /\ subject' = service
  /\ stopRC(service)
  /\ UNCHANGED <<objects, toLoad, mServer, rcMap, threadVars, netVars, faulty, crashed>>

\* mServer.close(): the thread may have set mServer to null meanwhile.
CloseServer ==
  /\ mainAt = "close"
  /\ \/ /\ mServer[subject] = null
        /\ Crash
        /\ UNCHANGED faulty
     \/ /\ mServer[subject] # null
        /\ mainAt' = "idle"
        /\ sock' = [sock EXCEPT ![mServer[subject]] = "closed"]
        /\ rx' = IF Open(mServer[subject]) THEN << >> ELSE rx
        /\ UNCHANGED <<service, objects, subject, toLoad, fieldVars, threads, owner,
                       pc, bs, recvPacket, flushed, wire, pressed, histVars>>

(***************************************************************************)
(* The thread that startRC starts.                                         *)
(***************************************************************************)

Goto(t, there) == pc' = [pc EXCEPT ![t] = there]

\* new DatagramSocket(11235) fails while another socket has the port.
Bind(t) ==
  /\ pc[t] = "bind"
  /\ \/ /\ \A u \in Threads : ~Open(u)
        /\ sock' = [sock EXCEPT ![t] = "open"]
        /\ Goto(t, "store")
     \/ /\ \E u \in Threads : Open(u)
        /\ Goto(t, "close")
        /\ UNCHANGED sock
  /\ UNCHANGED <<mainVars, fieldVars, threads, owner, bs, recvPacket, flushed,
                 netVars, histVars>>

\* mServer is assigned when the constructor has returned.
Store(t) ==
  /\ pc[t] = "store"
  /\ mServer' = [mServer EXCEPT ![owner[t]] = t]
  /\ Goto(t, "connect")
  /\ UNCHANGED <<mainVars, RCState, rcMap, threads, owner, sock, bs, recvPacket,
                 flushed, netVars, histVars>>

\* The device takes one connection at a time.
Connect(t) ==
  /\ pc[t] = "connect"
  /\ \/ /\ \A u \in Threads : bs[u] # "up"
        /\ bs' = [bs EXCEPT ![t] = "up"]
        /\ Goto(t, "test")
        /\ UNCHANGED faulty
     \/ /\ Goto(t, "close")
        /\ Fault
        /\ UNCHANGED bs
  /\ UNCHANGED <<mainVars, fieldVars, threads, owner, sock, recvPacket, flushed,
                 netVars, stopped, crashed>>

Test(t) ==
  /\ pc[t] = "test"
  /\ Goto(t, IF RCState[owner[t]] = RCState_Running THEN "receive" ELSE "close")
  /\ UNCHANGED <<mainVars, fieldVars, threads, owner, sock, bs, recvPacket, flushed,
                 netVars, histVars>>

\* mServer.receive(recvPacket) waits for a datagram; a closed socket throws.
LeavesIt(q) == q
AfterReceive(q) == Tail(q)

ReadsOn(t) == mServer[owner[t]] # null /\ Open(mServer[owner[t]]) /\ rx # << >>
ThrowsNothing(t) == FALSE
Throws(t) == mServer[owner[t]] # null /\ sock[mServer[owner[t]]] = "closed"

Receive(t) ==
  /\ pc[t] = "receive"
  /\ \/ /\ ReadsOn(t)
        /\ recvPacket' = [recvPacket EXCEPT ![t] = Head(rx)]
        /\ rx' = AfterReceive(rx)
        /\ Goto(t, "lookup")
        /\ UNCHANGED <<mainVars, fieldVars, threads, owner, sock, bs, flushed, wire,
                       pressed, histVars>>
     \/ /\ Throws(t)
        /\ Goto(t, "close")
        /\ UNCHANGED <<mainVars, fieldVars, threads, owner, sock, bs, recvPacket,
                       flushed, netVars, histVars>>

\* rcMap.get: func.length() in the log message throws when there is no code.
Lookup(t) ==
  /\ pc[t] = "lookup"
  /\ \/ /\ recvPacket[t].func \in rcMap[owner[t]]
        /\ flushed' = [flushed EXCEPT ![t] = 0]
        /\ Goto(t, "send")
        /\ UNCHANGED <<mainVars, fieldVars, threads, owner, sock, bs, recvPacket,
                       netVars, histVars>>
     \/ /\ recvPacket[t].func \notin rcMap[owner[t]]
        /\ Crash
        /\ UNCHANGED faulty

\* The code goes out in pieces of FlushEvery characters and a shorter last one.
CodeOf(t) == CodeLength[recvPacket[t].func]
PieceFull(t) == flushed[t] + FlushEvery
PieceEnd(t) == IF flushed[t] + FlushEvery <= CodeOf(t) THEN flushed[t] + FlushEvery
                                                       ELSE CodeOf(t)

SendPiece(t) ==
  /\ pc[t] = "send"
  /\ flushed[t] < CodeOf(t)
  /\ \/ /\ wire' = Append(wire, [by |-> t, id |-> recvPacket[t].id,
                                 func |-> recvPacket[t].func,
                                 after |-> flushed[t], upto |-> PieceEnd(t)])
        /\ flushed' = [flushed EXCEPT ![t] = PieceEnd(t)]
        /\ UNCHANGED <<pc, faulty>>
     \/ /\ Goto(t, "close")
        /\ Fault
        /\ UNCHANGED <<wire, flushed>>
  /\ UNCHANGED <<mainVars, fieldVars, threads, owner, sock, bs, recvPacket, rx,
                 pressed, stopped, crashed>>

AllSent(t) == flushed[t] >= CodeOf(t)

SendDone(t) ==
  /\ pc[t] = "send"
  /\ AllSent(t)
  /\ Goto(t, "test")
  /\ UNCHANGED <<mainVars, fieldVars, threads, owner, sock, bs, recvPacket, flushed,
                 netVars, histVars>>

\* The end of run(): the Bluetooth socket is closed, mServer is forgotten.
Close(t) ==
  /\ pc[t] = "close"
  /\ bs' = [bs EXCEPT ![t] = IF @ = "up" THEN "closed" ELSE @]
  /\ mServer' = [mServer EXCEPT ![owner[t]] = null]
  /\ Goto(t, "done")
  /\ UNCHANGED <<mainVars, RCState, rcMap, threads, owner, sock, recvPacket, flushed,
                 netVars, histVars>>

(***************************************************************************)
(* The rest of the world.                                                  *)
(***************************************************************************)

\* A socket nobody refers to is closed when the collector finalizes it.
Finalize(t) ==
  /\ pc[t] = "done" /\ Open(t) /\ mServer[owner[t]] # t
  /\ sock' = [sock EXCEPT ![t] = "closed"]
  /\ rx' = << >>
  /\ UNCHANGED <<mainVars, fieldVars, threads, owner, pc, bs, recvPacket, flushed,
                 wire, pressed, histVars>>

\* The daemon forwards a key to the port; without a reader it is lost.
Forward(f) ==
  /\ pressed < MaxPressed
  /\ pressed' = pressed + 1
  /\ rx' = IF (\E t \in Threads : Open(t)) /\ Len(rx) < RxMax
           THEN Append(rx, [id |-> pressed + 1, func |-> f]) ELSE rx
  /\ faulty' = (faulty \/ f \notin Known)
  /\ UNCHANGED <<mainVars, fieldVars, threadVars, wire, stopped, crashed>>

(***************************************************************************)
(* The specification.                                                      *)
(***************************************************************************)

MainStep == EndLoad \/ Record \/ CloseServer
ThreadStep(t) == \/ Bind(t) \/ Store(t) \/ Connect(t) \/ Test(t) \/ Receive(t) \/ Lookup(t)
                 \/ SendPiece(t) \/ SendDone(t) \/ Close(t)

Next == \/ onStartCommand \/ onDestroy \/ MainStep
        \/ \E t \in Threads : ThreadStep(t) \/ Finalize(t)
        \/ \E f \in Functions : Forward(f)

Spec == Init /\ [][Next]_vars

\* Threads run; a connection attempt and a write end one way or the other.
FairSpec == Spec /\ WF_vars(MainStep) /\ \A t \in Threads : WF_vars(ThreadStep(t))

(***************************************************************************)
(* Properties.                                                             *)
(***************************************************************************)

Packet == [id : Nat, func : Functions]
Piece == [by : Threads, id : Nat, func : Functions, after : Nat, upto : Nat]

MainType ==
  /\ service \in Objects \cup {null} /\ objects \in 0 .. MaxObjects
  /\ mainAt \in {"idle", "fill", "record", "close"}
  /\ subject \in Objects \cup {null}
  /\ toLoad \subseteq Functions

FieldType ==
  /\ RCState \in [Objects -> {RCState_Stoped, RCState_Running, RCState_WaitStop}]
  /\ mServer \in [Objects -> Threads \cup {null}]
  /\ rcMap \in [Objects -> SUBSET Functions]

ThreadType ==
  /\ threads \in 0 .. MaxObjects
  /\ owner \in [Threads -> Objects \cup {null}]
  /\ pc \in [Threads -> {"none", "bind", "store", "connect", "test", "receive", "lookup",
                         "send", "close", "done"}]
  /\ sock \in [Threads -> {"none", "open", "closed"}]
  /\ bs \in [Threads -> {"null", "up", "closed"}]
  /\ recvPacket \in [Threads -> Packet]
  /\ flushed \in [Threads -> Nat]

NetType == /\ rx \in Seq(Packet)
           /\ wire \in Seq(Piece)
           /\ \A i \in DOMAIN wire : wire[i].upto <= CodeLength[wire[i].func]
           /\ pressed \in Nat

HistType == stopped \subseteq Objects /\ faulty \in BOOLEAN /\ crashed \in BOOLEAN

(* Every variable keeps its type, and no piece reaches beyond its code:    *)
(* charAt is never asked for a character the code does not have.           *)
TypeOK == MainType /\ FieldType /\ ThreadType /\ NetType /\ HistType

(* From the assignment of mServer on, and as long as the thread uses a     *)
(* socket that is open, stopRC of its object finds that socket in mServer, *)
(* however often onStartCommand is called on the object and whatever       *)
(* became of the threads of earlier objects.                               *)
StopCanReach ==
  \A t \in Threads :
    Running(t) /\ pc[t] # "store" /\ Open(t) => mServer[owner[t]] = t

(* The device gets each code whole and in pieces that follow each other,   *)
(* keys in the order they were pressed, none twice, although threads of    *)
(* several objects may be alive: a code is cut only by the end of its      *)
(* connection, and what comes next comes over another one.                 *)
Continues(a, b) == b.id = a.id /\ b.by = a.by /\ b.after = a.upto
Follows(a, b) == /\ b.id > a.id /\ b.after = 0
                 /\ b.by = a.by => a.upto = CodeLength[a.func]

CodesComeWhole ==
  /\ wire # << >> => wire[1].after = 0
  /\ \A i \in 1 .. Len(wire) - 1 : Continues(wire[i], wire[i + 1])
                                   \/ Follows(wire[i], wire[i + 1])

(* The remote control ends the process only after something went wrong     *)
(* around it: a key without a code, an incomplete code file, a reload      *)
(* under a thread that reads the map, a recorder that does not start, or a *)
(* Bluetooth failure.  No order of starts and stops alone does it.         *)
OnlyFaultsCrash == crashed => faulty

(* A stop that closes the socket ends the thread, wherever it is.          *)
ClosedThreadEnds == \A t \in Threads : (sock[t] = "closed") ~> (pc[t] = "done")

(* What the two names and the condition of the thread's loop say: once     *)
(* stopRC has been called, the thread ends.                                *)
StoppedThreadEnds == \A t \in Threads : (owner[t] \in stopped) ~> (pc[t] = "done")

=============================================================================
