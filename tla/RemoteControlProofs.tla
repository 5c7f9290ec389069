-------------------------- MODULE RemoteControlProofs --------------------------
(***************************************************************************)
(* Proofs about RemoteControl: who can close a thread's socket, what ends  *)
(* the process, and what reaches the Bluetooth device.                     *)
(***************************************************************************)
EXTENDS RemoteControl, TLAPS

(***************************************************************************)
(* Types.                                                                  *)
(***************************************************************************)

(* The main thread's own variables keep their types.                       *)
LEMMA MainTypeStep == TypeOK /\ [Next]_vars => MainType'
<1> SUFFICES ASSUME TypeOK, [Next]_vars PROVE MainType'
  OBVIOUS
<1> USE KnownAssumption, BoundsAssumption DEF TypeOK, MainType
<1>1. CASE UNCHANGED mainVars
  BY <1>1 DEF mainVars
<1>2. CASE onStartCommand
  BY <1>2 DEF onStartCommand, BeginLoad, Current, Objects, FieldType
<1>3. CASE onDestroy
  BY <1>3 DEF onDestroy, stopRC
<1>4. CASE EndLoad
  BY <1>4 DEF EndLoad
<1>5. CASE Crash
  BY <1>5 DEF Crash
<1>6. CASE Record
  BY <1>6, <1>5 DEF Record, stopRC
<1>7. CASE CloseServer
  BY <1>7, <1>5 DEF CloseServer
<1>8. ASSUME NEW t \in Threads, ThreadStep(t) PROVE MainType'
  <2>1. CASE Lookup(t)
    BY <2>1, <1>1, <1>5 DEF Lookup
  <2>2. QED
    BY <1>8, <1>1, <2>1 DEF ThreadStep, Bind, Store, Connect, Test, Receive, SendPiece,
         SendDone, Close
<1>9. QED
  BY <1>1, <1>2, <1>3, <1>4, <1>6, <1>7, <1>8 DEF Next, MainStep, vars, Finalize, Forward

(* The fields of the objects keep their types.                             *)
LEMMA FieldTypeStep == TypeOK /\ [Next]_vars => FieldType'
<1> SUFFICES ASSUME TypeOK, [Next]_vars PROVE FieldType'
  OBVIOUS
<1> USE KnownAssumption, BoundsAssumption
    DEF FieldType, RCState_Stoped, RCState_Running, RCState_WaitStop
<1>0. FieldType /\ MainType /\ ThreadType
  BY DEF TypeOK
<1>1. CASE UNCHANGED fieldVars
  BY <1>0, <1>1 DEF fieldVars
<1>2. CASE onStartCommand
  BY <1>0, <1>2 DEF onStartCommand, BeginLoad
<1>3. CASE onDestroy
  BY <1>0, <1>3 DEF onDestroy, stopRC
<1>4. CASE EndLoad
  BY <1>0, <1>4 DEF EndLoad, startRC, MainType
<1>5. CASE Record
  BY <1>0, <1>1, <1>5 DEF Record, stopRC, Crash
<1>6. CASE CloseServer
  BY <1>1, <1>6 DEF CloseServer, Crash
<1>7. ASSUME NEW t \in Threads, ThreadStep(t) PROVE FieldType'
  <2>1. CASE Store(t)
    BY <1>0, <2>1 DEF Store
  <2>2. CASE Close(t)
    BY <1>0, <2>2 DEF Close
  <2>3. QED
    BY <1>7, <1>1, <2>1, <2>2 DEF ThreadStep, Bind, Connect, Test, Receive, SendPiece,
         SendDone, Lookup, Crash
<1>8. QED
  BY <1>1, <1>2, <1>3, <1>4, <1>5, <1>6, <1>7
     DEF Next, MainStep, vars, Finalize, Forward

(* The threads keep their types, whatever becomes of the process.          *)
LEMMA ThreadTypeStep == TypeOK /\ [Next]_vars => ThreadType'
<1> SUFFICES ASSUME TypeOK, [Next]_vars PROVE ThreadType'
  OBVIOUS
<1> USE BoundsAssumption DEF ThreadType
<1>0. ThreadType /\ MainType /\ NetType /\ FieldType
  BY DEF TypeOK
<1>1. CASE UNCHANGED threadVars
  BY <1>0, <1>1 DEF threadVars
<1>2. CASE EndLoad
  BY <1>0, <1>2 DEF EndLoad, startRC, MainType
<1>3. CASE Crash
  BY <1>0, <1>3 DEF Crash
<1>4. CASE CloseServer
  BY <1>0, <1>3, <1>4 DEF CloseServer
<1>5. ASSUME NEW t \in Threads, ThreadStep(t) PROVE ThreadType'
  <2>1. CASE Bind(t) \/ Test(t) \/ SendDone(t) \/ Store(t)
    BY <1>0, <2>1 DEF Bind, Test, SendDone, Store, Goto
  <2>2. CASE Connect(t) \/ Close(t)
    BY <1>0, <2>2 DEF Connect, Close, Goto
  <2>3. CASE Receive(t)
    <3>1. rx # << >> => Head(rx) \in Packet
      BY <1>0 DEF NetType
    <3>2. QED
      BY <1>0, <2>3, <3>1 DEF Receive, Goto, ReadsOn
  <2>4. CASE Lookup(t)
    BY <1>0, <1>3, <2>4 DEF Lookup, Goto
  <2>5. CASE SendPiece(t)
    <3>1. PieceEnd(t) \in Nat
      BY <1>0, CodeLengthAssumption, FlushAssumption DEF PieceEnd, CodeOf, Packet
    <3>2. QED
      BY <1>0, <2>5, <3>1 DEF SendPiece, Goto
  <2>6. QED
    BY <1>5, <2>1, <2>2, <2>3, <2>4, <2>5 DEF ThreadStep
<1>6. ASSUME NEW t \in Threads, Finalize(t) PROVE ThreadType'
  BY <1>0, <1>6 DEF Finalize
<1>7. QED
  BY <1>1, <1>2, <1>3, <1>4, <1>5, <1>6
     DEF Next, MainStep, vars, Forward, onStartCommand, onDestroy, Record

(* A piece ends within its code.                                           *)
LEMMA PieceFits ==
  ASSUME TypeOK, NEW t \in Threads, flushed[t] < CodeOf(t)
  PROVE  /\ PieceEnd(t) \in Nat /\ CodeOf(t) \in Nat
         /\ flushed[t] < PieceEnd(t) /\ PieceEnd(t) <= CodeOf(t)
BY CodeLengthAssumption, FlushAssumption
   DEF TypeOK, ThreadType, Packet, PieceEnd, CodeOf

(* So do the two queues of the network.                                    *)
LEMMA NetTypeStep == TypeOK /\ [Next]_vars => NetType'
<1> SUFFICES ASSUME TypeOK, [Next]_vars PROVE NetType'
  OBVIOUS
<1>0. NetType /\ ThreadType
  BY DEF TypeOK
<1>1. CASE UNCHANGED netVars
  BY <1>0, <1>1 DEF netVars, NetType
<1>2. ASSUME rx' \in Seq(Packet), UNCHANGED wire, pressed' \in Nat PROVE NetType'
  BY <1>0, <1>2 DEF NetType
<1>3. CASE rx' = << >> /\ UNCHANGED <<wire, pressed>>
  BY <1>0, <1>2, <1>3 DEF NetType
<1>4. ASSUME NEW t \in Threads, Receive(t) PROVE NetType'
  <2>1. CASE ReadsOn(t) /\ rx' = Tail(rx) /\ UNCHANGED <<wire, pressed>>
    <3>1. rx' \in Seq(Packet)
      BY <1>0, <2>1 DEF ReadsOn, NetType
    <3>2. QED
      BY <1>0, <1>2, <2>1, <3>1 DEF NetType
  <2>2. QED
    BY <1>1, <1>4, <2>1 DEF Receive, AfterReceive, netVars
<1>5. ASSUME NEW t \in Threads, SendPiece(t) PROVE NetType'
  <2>1. CASE UNCHANGED wire
    BY <1>1, <1>5, <2>1 DEF SendPiece, netVars
  <2>2. CASE wire' # wire
    <3> DEFINE piece == [by |-> t, id |-> recvPacket[t].id, func |-> recvPacket[t].func,
                         after |-> flushed[t], upto |-> PieceEnd(t)]
    <3>1. wire' = Append(wire, piece) /\ UNCHANGED <<rx, pressed>>
      BY <1>5, <2>2 DEF SendPiece
    <3>2. piece \in Piece /\ piece.upto <= CodeLength[piece.func]
      BY <1>0, <1>5, PieceFits DEF SendPiece, ThreadType, Packet, Piece, CodeOf
    <3> HIDE DEF piece
    <3>3. QED
      BY <1>0, <3>1, <3>2 DEF NetType
  <2>3. QED
    BY <2>1, <2>2
<1>6. ASSUME NEW f \in Functions, Forward(f) PROVE NetType'
  <2>1. pressed' \in Nat /\ [id |-> pressed + 1, func |-> f] \in Packet
    BY <1>0, <1>6 DEF Forward, NetType, Packet
  <2>2. rx' \in Seq(Packet)
    BY <1>0, <1>6, <2>1 DEF Forward, NetType
  <2>3. QED
    BY <1>2, <1>6, <2>1, <2>2 DEF Forward
<1>7. ASSUME NEW t \in Threads, ThreadStep(t) PROVE NetType'
  BY <1>7, <1>1, <1>3, <1>4, <1>5 DEF ThreadStep, Bind, Store, Connect, Test, SendDone,
       Close, Lookup, Crash, netVars
<1>8. CASE CloseServer
  BY <1>8, <1>1, <1>3 DEF CloseServer, Crash, netVars
<1>9. QED
  BY <1>1, <1>3, <1>6, <1>7, <1>8 DEF Next, MainStep, vars, netVars, Finalize, onStartCommand,
       onDestroy, EndLoad, Record, Crash

(* Outside its looper the main thread works on an object.                  *)
Subject == mainAt # "idle" => subject # null

(* The histories keep their types.                                         *)
LEMMA HistTypeStep == TypeOK /\ Subject /\ [Next]_vars => HistType'
<1> SUFFICES ASSUME TypeOK, Subject, [Next]_vars PROVE HistType'
  OBVIOUS
<1> USE DEF HistType
<1>0. HistType /\ MainType
  BY DEF TypeOK
<1>1. CASE UNCHANGED histVars
  BY <1>0, <1>1 DEF histVars
<1>2. CASE onStartCommand
  BY <1>0, <1>2 DEF onStartCommand, BeginLoad
<1>3. CASE onDestroy
  BY <1>0, <1>3 DEF onDestroy, stopRC, MainType
<1>4. CASE Record
  BY <1>0, <1>1, <1>4 DEF Record, stopRC, Fault, Crash, MainType, Subject
<1>5. CASE Crash /\ UNCHANGED faulty
  BY <1>0, <1>5 DEF Crash
<1>6. CASE CloseServer
  BY <1>1, <1>5, <1>6 DEF CloseServer
<1>7. ASSUME NEW t \in Threads, ThreadStep(t) PROVE HistType'
  <2>1. CASE Connect(t) \/ SendPiece(t)
    BY <1>0, <2>1 DEF Connect, SendPiece, Fault
  <2>2. CASE Lookup(t)
    BY <1>1, <1>5, <2>2 DEF Lookup
  <2>3. QED
    BY <1>7, <1>1, <2>1, <2>2 DEF ThreadStep, Bind, Store, Test, Receive, SendDone, Close
<1>8. ASSUME NEW f \in Functions, Forward(f) PROVE HistType'
  BY <1>0, <1>8 DEF Forward
<1>9. QED
  BY <1>1, <1>2, <1>3, <1>4, <1>6, <1>7, <1>8 DEF Next, MainStep, vars, Finalize, EndLoad

(* At first every variable has its type.                                   *)
LEMMA InitTypeOK == Init => TypeOK
<1> SUFFICES ASSUME Init PROVE TypeOK
  OBVIOUS
<1> USE BoundsAssumption, KnownAssumption DEF Init
<1>1. MainType
  BY DEF MainType
<1>2. FieldType
  BY DEF FieldType
<1>3. NoPacket \in Packet
  BY DEF NoPacket, Packet
<1>4. ThreadType
  BY <1>3 DEF ThreadType
<1>5. NetType
  BY DEF NetType
<1>6. HistType
  BY DEF HistType
<1>7. QED
  BY <1>1, <1>2, <1>4, <1>5, <1>6 DEF TypeOK

(* Every step keeps the types.                                             *)
LEMMA TypeStep == TypeOK /\ Subject /\ [Next]_vars => TypeOK'
BY MainTypeStep, FieldTypeStep, ThreadTypeStep, NetTypeStep, HistTypeStep DEF TypeOK

(***************************************************************************)
(* Objects, their threads, and the threads' sockets.                       *)
(***************************************************************************)

(* What has not been made yet, and what every thread that has been made    *)
(* has: an object, whose RCState never becomes RCState_Stoped again.       *)
Made ==
  /\ Subject
  /\ service <= objects /\ subject <= objects
  /\ \A o \in Objects : o > objects => mServer[o] = null
  /\ \A t \in Threads : t > threads => pc[t] = "none" /\ owner[t] = null
  /\ \A t \in Threads : t <= threads => /\ pc[t] # "none"
                                        /\ owner[t] \in Objects /\ owner[t] <= objects
                                        /\ RCState[owner[t]] = RCState_Running

(* Therefore an object has one thread.                                     *)
OneThread == \A t, u \in Threads : owner[t] = owner[u] /\ owner[t] # null => t = u

(* Whose socket mServer is, and when.                                      *)
Using == {"connect", "test", "receive", "lookup", "send"}
Sockets ==
  /\ \A t \in Threads : pc[t] \in {"none", "bind"} => sock[t] = "none"
  /\ \A t \in Threads : pc[t] = "store" => Open(t)
  /\ \A t \in Threads : pc[t] \in Using => mServer[owner[t]] = t
  /\ \A t \in Threads : pc[t] = "close" /\ Open(t) => mServer[owner[t]] = t
  /\ \A o \in Objects : mServer[o] # null =>
       owner[mServer[o]] = o /\ pc[mServer[o]] \notin {"none", "bind", "store"}

(* A thread moves itself, or all of them end.                              *)
LEMMA Moves ==
  ASSUME NEW t \in Threads, ThreadStep(t)
  PROVE  /\ UNCHANGED <<objects, threads, owner, RCState, rcMap>>
         /\ Running(t)
         /\ \/ UNCHANGED mainVars /\ pc' \in {pc} \cup {[pc EXCEPT ![t] = p] :
                 p \in Using \cup {"store", "close", "done"}}
            \/ Crash
<1> USE DEF Using, Running, Goto, mainVars, fieldVars
<1>1. CASE Bind(t) \/ Store(t)
  BY <1>1 DEF Bind, Store
<1>2. CASE Connect(t) \/ Test(t)
  BY <1>2 DEF Connect, Test
<1>3. CASE Receive(t)
  BY <1>3 DEF Receive
<1>4. CASE Lookup(t)
  BY <1>4 DEF Lookup, Crash
<1>5. CASE SendPiece(t)
  BY <1>5 DEF SendPiece
<1>6. CASE SendDone(t) \/ Close(t)
  BY <1>6 DEF SendDone, Close
<1>7. QED
  BY <1>1, <1>2, <1>3, <1>4, <1>5, <1>6 DEF ThreadStep

(* Nothing is unmade, and every object gets one thread.                    *)
LEMMA MadeStep ==
  TypeOK /\ Made /\ OneThread /\ Sockets /\ [Next]_vars => Made' /\ OneThread'
<1> SUFFICES ASSUME TypeOK, Made, OneThread, Sockets, [Next]_vars
             PROVE  Made' /\ OneThread'
  OBVIOUS
<1>0. MainType /\ FieldType /\ ThreadType
  BY DEF TypeOK
<1> DEFINE relevant == <<mainVars, RCState, mServer, threads, owner, pc>>
<1>1. CASE UNCHANGED relevant
  BY <1>1 DEF mainVars, Made, OneThread, Subject
<1>2. CASE onStartCommand
  BY <1>0, <1>2, BoundsAssumption DEF onStartCommand, Current, Made, OneThread, Subject,
       MainType, threadVars, Objects, null
<1>3. CASE onDestroy
  <2>1. UNCHANGED <<RCState, objects, mServer, threads, owner, pc>> /\ service # null
        /\ subject' = service /\ service' = null
    BY <1>0, <1>3 DEF onDestroy, stopRC, threadVars, RCState_Running, RCState_WaitStop,
         FieldType, MainType
  <2>2. QED
    BY <1>0, <2>1 DEF Made, OneThread, Subject, MainType, null, Objects
<1>4. CASE EndLoad
  <2>1. UNCHANGED <<service, objects, subject, mServer>> /\ subject \in Objects
    BY <1>0, <1>4 DEF EndLoad, MainType, Made, Subject
  <2>2. CASE UNCHANGED <<RCState, threads, owner, pc>>
    BY <1>4, <2>1, <2>2 DEF Made, OneThread, Subject, Objects, null
  <2>3. CASE /\ MayStart(subject)
             /\ threads < MaxObjects
             /\ RCState' = [RCState EXCEPT ![subject] = RCState_Running]
             /\ threads' = threads + 1
             /\ owner' = [owner EXCEPT ![threads + 1] = subject]
             /\ pc' = [pc EXCEPT ![threads + 1] = "bind"]
    <3>1. \A t \in Threads : owner[t] # subject
      BY <1>0, <2>1, <2>3 DEF Made, MayStart, RCState_Stoped, RCState_Running, ThreadType,
           Threads, null, Objects
    <3>2. OneThread'
      BY <1>0, <2>1, <2>3, <3>1 DEF OneThread, ThreadType
    <3>3. Subject' /\ (service <= objects /\ subject <= objects)'
          /\ \A o \in Objects : o > objects' => mServer'[o] = null
      BY <2>1 DEF Made, Subject, Objects, null
    <3>4. threads \in Nat /\ threads' = threads + 1
          /\ \A t \in Threads : IF t = threads + 1
               THEN pc'[t] = "bind" /\ owner'[t] = subject
               ELSE pc'[t] = pc[t] /\ owner'[t] = owner[t]
      BY <1>0, <2>3, BoundsAssumption DEF ThreadType
    <3>5. ASSUME NEW t \in Threads, t > threads'
          PROVE  pc'[t] = "none" /\ owner'[t] = null
      BY <3>4, <3>5 DEF Made, Threads
    <3>6. ASSUME NEW t \in Threads, t <= threads'
          PROVE  /\ pc'[t] # "none" /\ owner'[t] \in Objects /\ owner'[t] <= objects
                 /\ RCState'[owner'[t]] = RCState_Running
      <4>1. CASE t = threads + 1
        BY <1>0, <2>1, <2>3, <3>4, <4>1 DEF Made, FieldType
      <4>2. CASE t # threads + 1
        <5>1. t <= threads
          BY <3>4, <3>6, <4>2 DEF Threads
        <5>2. QED
          BY <1>0, <2>1, <2>3, <3>4, <4>2, <5>1 DEF Made, FieldType
      <4>3. QED
        BY <4>1, <4>2
    <3>7. QED
      BY <2>1, <3>2, <3>3, <3>5, <3>6 DEF Made
  <2>4. QED
    BY <1>4, <2>2, <2>3 DEF EndLoad, startRC
<1>5. CASE Crash
  BY <1>0, <1>5 DEF Crash, Running, Made, OneThread, Subject, ThreadType, MainType, null,
       Objects, fieldVars
<1>6. CASE Record
  <2>1. CASE stopRC(subject) /\ ~Crash
    <3>1. UNCHANGED <<RCState, service, objects, subject, mServer, threads, owner, pc>>
      BY <1>0, <1>6, <2>1 DEF Record, stopRC, threadVars, RCState_Running, RCState_WaitStop,
           FieldType, fieldVars
    <3>2. QED
      BY <1>6, <3>1 DEF Record, Made, OneThread, Subject
  <2>2. CASE UNCHANGED <<service, objects, subject, fieldVars, threadVars>>
    BY <1>6, <2>2 DEF Record, Made, OneThread, Subject, fieldVars, threadVars
  <2>3. QED
    BY <1>5, <1>6, <2>1, <2>2 DEF Record
<1>7. CASE CloseServer
  BY <1>5, <1>7 DEF CloseServer, Made, OneThread, Subject, fieldVars
<1>8. ASSUME NEW t \in Threads, ThreadStep(t) PROVE Made' /\ OneThread'
  <2>1. CASE UNCHANGED mainVars
    <3>1. UNCHANGED <<objects, threads, owner, RCState>> /\ pc[t] # "none"
          /\ \A u \in Threads : pc'[u] # "none" <=> pc[u] # "none"
      BY <1>0, <1>8, Moves DEF Running, Using, ThreadType, Crash
    <3>2. \A o \in Objects : o > objects => mServer'[o] = null
      <4>0. owner[t] <= objects
        BY <1>0, <3>1, BoundsAssumption DEF Made, ThreadType, Threads
      <4>1. CASE Store(t)
        BY <1>0, <4>0, <4>1 DEF Store, Made, FieldType, MainType, Objects
      <4>2. CASE Close(t)
        BY <1>0, <4>2 DEF Close, Made, FieldType
      <4>3. QED
        BY <1>8, <4>1, <4>2 DEF ThreadStep, Made, Bind, Connect, Test, Receive, Lookup,
             SendPiece, SendDone, fieldVars, Crash
    <3>3. QED
      BY <1>0, <2>1, <3>1, <3>2 DEF Made, OneThread, Subject, mainVars, ThreadType
  <2>2. QED
    BY <1>5, <1>8, <2>1, Moves
<1>9. QED
  BY <1>1, <1>2, <1>3, <1>4, <1>6, <1>7, <1>8
     DEF Next, MainStep, vars, fieldVars, threadVars, Finalize, Forward

(* mServer is the socket of the object's thread from its assignment on.    *)
LEMMA SocketsStep ==
  TypeOK /\ Made /\ OneThread /\ Sockets /\ [Next]_vars => Sockets'
<1> SUFFICES ASSUME TypeOK, Made, OneThread, Sockets, [Next]_vars PROVE Sockets'
  OBVIOUS
<1>0. FieldType /\ ThreadType
  BY DEF TypeOK
<1>1. CASE UNCHANGED <<mServer, owner, pc, sock>>
  BY <1>1 DEF Sockets, Open
<1>2. CASE EndLoad
  <2>1. CASE UNCHANGED <<owner, pc>>
    BY <1>1, <1>2, <2>1 DEF EndLoad
  <2>2. CASE /\ threads < MaxObjects
             /\ owner' = [owner EXCEPT ![threads + 1] = subject]
             /\ pc' = [pc EXCEPT ![threads + 1] = "bind"]
    <3>1. UNCHANGED <<mServer, sock>>
      BY <1>2 DEF EndLoad
    <3>2. threads + 1 \in Threads /\ pc[threads + 1] = "none" /\ sock[threads + 1] = "none"
      BY <1>0, <2>2, BoundsAssumption DEF Made, ThreadType, Threads, Sockets
    <3>3. \A o \in Objects : mServer[o] # threads + 1
      BY <3>2 DEF Sockets, Threads, null
    <3> HIDE DEF Threads
    <3>4. QED
      BY <1>0, <2>2, <3>1, <3>2, <3>3 DEF Sockets, Using, Open, ThreadType, FieldType
  <2>3. QED
    BY <1>2, <2>1, <2>2 DEF EndLoad, startRC
<1>3. CASE Crash
  BY <1>0, <1>3 DEF Crash, Running, Sockets, Using, Open, ThreadType, FieldType, fieldVars
<1>4. CASE CloseServer
  <2>1. CASE mServer[subject] # null /\ sock' = [sock EXCEPT ![mServer[subject]] = "closed"]
             /\ UNCHANGED <<mServer, owner, pc>>
    <3>1. subject \in Objects
      BY <1>4 DEF CloseServer, Made, Subject, TypeOK, MainType
    <3>2. PICK u \in Threads : u = mServer[subject]
      BY <1>0, <2>1, <3>1 DEF FieldType
    <3>3. pc[u] \notin {"none", "bind", "store"}
      BY <2>1, <3>1, <3>2 DEF Sockets
    <3>4. \A t \in Threads : Open(t)' => Open(t)
      BY <1>0, <2>1, <3>2 DEF Open, ThreadType
    <3>5. \A t \in Threads : pc[t] \in {"none", "bind", "store"} => sock'[t] = sock[t]
      BY <1>0, <2>1, <3>2, <3>3 DEF ThreadType
    <3>6. QED
      BY <2>1, <3>4, <3>5 DEF Sockets, Open
  <2>2. QED
    BY <1>3, <1>4, <2>1 DEF CloseServer, fieldVars
<1>5. ASSUME NEW t \in Threads, Finalize(t) PROVE Sockets'
  BY <1>0, <1>5 DEF Finalize, fieldVars, Sockets, Open, ThreadType, Using
<1>6. ASSUME NEW t \in Threads, ThreadStep(t) PROVE Sockets'
  <2>1. pc[t] \notin {"none", "done"} /\ owner[t] \in Objects
    BY <1>0, <1>6, Moves DEF Running, Made, ThreadType, Threads
  <2>2. \A u \in Threads : owner[u] = owner[t] => u = t
    BY <2>1 DEF OneThread, Objects, null
  <2> USE DEF Goto
  <2>3. CASE Bind(t)
    BY <1>0, <2>3 DEF Bind, Sockets, Open, Using, ThreadType, fieldVars, FieldType
  <2>4. CASE Store(t)
    BY <1>0, <2>1, <2>2, <2>4 DEF Store, Sockets, Open, Using, ThreadType, FieldType, Threads,
         null
  <2>5. CASE Close(t)
    BY <1>0, <2>1, <2>2, <2>5 DEF Close, Sockets, Open, Using, ThreadType, FieldType
  <2>6. CASE \/ UNCHANGED <<mServer, owner, pc, sock>>
             \/ /\ pc[t] \in Using
                /\ \E p \in (Using \ {"connect"}) \cup {"close"} : pc' = [pc EXCEPT ![t] = p]
                /\ UNCHANGED <<mServer, owner, sock>>
    <3>1. CASE UNCHANGED <<mServer, owner, pc, sock>>
      BY <1>1, <3>1
    <3>2. CASE pc[t] \in Using /\ UNCHANGED <<mServer, owner, sock>>
               /\ \E p \in (Using \ {"connect"}) \cup {"close"} : pc' = [pc EXCEPT ![t] = p]
      <4>1. /\ pc'[t] \in Using \cup {"close"}
            /\ \A u \in Threads : u # t => pc'[u] = pc[u]
        BY <1>0, <3>2 DEF ThreadType
      <4>2. \A u \in Threads : mServer[owner[u]] = u => u = t \/ pc'[u] = pc[u]
        BY <4>1
      <4>3. QED
        BY <3>2, <4>1 DEF Sockets, Open, Using
    <3>3. QED
      BY <2>6, <3>1, <3>2
  <2>7. CASE Connect(t) \/ Test(t)
    BY <2>6, <2>7 DEF Connect, Test, fieldVars, Using
  <2>8. CASE Receive(t)
    BY <2>6, <2>8 DEF Receive, fieldVars, Using
  <2>9. CASE Lookup(t)
    BY <1>3, <2>6, <2>9 DEF Lookup, fieldVars, Using
  <2>10. CASE SendPiece(t) \/ SendDone(t)
    BY <2>6, <2>10 DEF SendPiece, SendDone, fieldVars, Using
  <2>11. QED
    BY <1>6, <2>3, <2>4, <2>5, <2>7, <2>8, <2>9, <2>10 DEF ThreadStep
<1>7. CASE onStartCommand \/ onDestroy \/ Record
  BY <1>1, <1>3, <1>7 DEF onStartCommand, onDestroy, Record, threadVars, fieldVars
<1>8. QED
  BY <1>1, <1>2, <1>4, <1>5, <1>6, <1>7 DEF Next, MainStep, vars, fieldVars, threadVars, Forward

(***************************************************************************)
(* What ends the process.                                                  *)
(***************************************************************************)

(* The thread of object o uses its socket.                                 *)
Live(o) == mServer[o] # null /\ Open(mServer[o]) /\ pc[mServer[o]] \in Using

(* As long as nothing has gone wrong, a thread ends only because its       *)
(* socket was closed, which stopRC does once, to the object that was the   *)
(* service; and every key finds its code.                                  *)
Quiet ==
  /\ ~crashed
  /\ mainAt = "close" => service = null /\ Live(subject)
  /\ service # null /\ mServer[service] # null => Live(service)
  /\ mainAt = "fill" => toLoad = Known
  /\ \A t \in Threads : Running(t) => rcMap[owner[t]] = Known
  /\ \A i \in 1 .. Len(rx) : rx[i].func \in Known
  /\ \A t \in Threads : pc[t] = "lookup" => recvPacket[t].func \in Known

(* What has gone wrong stays so.                                           *)
LEMMA FaultStays == TypeOK /\ [Next]_vars /\ faulty => faulty'
<1> SUFFICES ASSUME TypeOK, [Next]_vars, faulty PROVE faulty'
  OBVIOUS
<1>1. CASE UNCHANGED vars
  BY <1>1 DEF vars, histVars
<1>2. CASE onStartCommand \/ onDestroy
  BY <1>2 DEF onStartCommand, onDestroy, BeginLoad
<1>3. CASE MainStep
  BY <1>3 DEF MainStep, EndLoad, Record, CloseServer, Fault, histVars
<1>4. ASSUME NEW t \in Threads, ThreadStep(t) \/ Finalize(t) PROVE faulty'
  BY <1>4 DEF ThreadStep, Bind, Store, Connect, Test, Receive, Lookup, SendPiece, SendDone,
       Close, Finalize, Fault, histVars
<1>5. ASSUME NEW f \in Functions, Forward(f) PROVE faulty'
  BY <1>5 DEF Forward
<1>6. QED
  BY <1>1, <1>2, <1>3, <1>4, <1>5 DEF Next

(* A thread that uses its socket goes on doing so until something goes     *)
(* wrong or the socket is closed.                                          *)
LEMMA LiveStep ==
  ASSUME TypeOK, Made, OneThread, Sockets, NEW t \in Threads, ThreadStep(t) \/ Finalize(t),
         ~faulty', ~Crash, NEW o \in Objects, mServer[o] # null => Live(o)
  PROVE  (mServer'[o] # null => Live(o)') /\ (Live(o) => Live(o)')
<1>0. FieldType /\ ThreadType
  BY DEF TypeOK
<1>1. CASE t # mServer[o] /\ owner[t] # o
  <2>1. /\ UNCHANGED mServer[o]
        /\ \A u \in Threads : u # t => pc'[u] = pc[u] /\ sock'[u] = sock[u]
    BY <1>0, <1>1 DEF ThreadStep, Bind, Store, Connect, Test, Receive, Lookup, SendPiece,
         SendDone, Close, Finalize, Goto, FieldType, ThreadType, threadVars, fieldVars
  <2>2. QED
    BY <1>0, <1>1, <2>1 DEF Live, Open, FieldType
<1>2. CASE mServer[o] # null /\ t = mServer[o]
  <2>1. pc[t] \in Using /\ Open(t) /\ owner[t] = o /\ RCState[o] = RCState_Running
    BY <1>0, <1>2, BoundsAssumption DEF Live, Sockets, Made, Threads, Using, ThreadType
  <2>2. UNCHANGED <<mServer, sock>> /\ pc' \in {pc} \cup {[pc EXCEPT ![t] = p] : p \in Using}
    BY <1>2, <2>1 DEF ThreadStep, Bind, Store, Connect, Test, Receive, ReadsOn, Throws,
         Lookup, SendPiece, SendDone, Close, Finalize, Goto, Using, fieldVars, threadVars,
         Fault, Open
  <2>3. QED
    BY <1>0, <1>2, <2>1, <2>2 DEF Live, Open, ThreadType
<1>3. CASE mServer[o] = null /\ owner[t] = o
  <2>1. pc[t] \notin Using
    BY <1>3 DEF Sockets, Threads, null
  <2>2. CASE Store(t)
    BY <1>0, <1>3, <2>2 DEF Store, Live, Goto, Open, Sockets, Using, FieldType, ThreadType
  <2>3. CASE ~Store(t)
    BY <1>0, <1>3, <2>1, <2>3 DEF ThreadStep, Bind, Connect, Test, Receive, Lookup,
         SendPiece, SendDone, Close, Finalize, Using, fieldVars, FieldType, Live
  <2>4. QED
    BY <2>2, <2>3
<1>4. mServer[o] # null => owner[mServer[o]] = o
  BY DEF Sockets
<1>5. mServer[o] # null /\ owner[t] = o => t = mServer[o]
  BY <1>0, <1>4 DEF OneThread, FieldType, Objects, null
<1>6. t # null
  BY DEF Threads, null
<1>7. QED
  BY <1>1, <1>2, <1>3, <1>4, <1>5, <1>6

(* No step without a fault crashes or does harm.                           *)
LEMMA QuietStep ==
  ASSUME TypeOK, Made, OneThread, Sockets, Quiet, [Next]_vars, ~faulty'
  PROVE  Quiet'
<1>0. FieldType /\ ThreadType /\ MainType /\ NetType /\ HistType
  BY DEF TypeOK
<1>1. CASE UNCHANGED vars
  BY <1>1 DEF vars, mainVars, fieldVars, threadVars, netVars, histVars, Quiet, Live, Open,
       Running
<1>2. CASE onStartCommand
  <2>1. UNCHANGED <<mServer, threadVars, netVars, crashed>> /\ mainAt' # "close"
        /\ service' = Current /\ mainAt = "idle" /\ Current \in Objects
    BY <1>2 DEF onStartCommand
  <2>2. service' # null /\ mServer'[service'] # null => Live(service)'
    <3>1. CASE service = null
      <4>1. mServer[objects + 1] = null
        BY <1>0, <2>1, <3>1, BoundsAssumption DEF Current, Made, MainType, Objects
      <4>2. QED
        BY <2>1, <3>1, <4>1 DEF Current
    <3>2. CASE service # null
      BY <2>1, <3>2 DEF Current, Quiet, Live, Open, threadVars
    <3>3. QED
      BY <3>1, <3>2
  <2>3. CASE mainAt' = "fill" /\ BeginLoad(Current)
    <3>1. CASE \E file \in SUBSET Known : /\ toLoad' = file
                                          /\ faulty' = (faulty \/ file # Known \/ Busy(Current))
               /\ rcMap' = [rcMap EXCEPT ![Current] = {}]
      <4>1. PICK file \in SUBSET Known : /\ toLoad' = file
                                         /\ faulty' = (faulty \/ file # Known \/ Busy(Current))
        BY <3>1
      <4>2. toLoad' = Known /\ ~Busy(Current)
        <5>1. ~(faulty \/ file # Known \/ Busy(Current))
          BY <4>1, Zenon
        <5>2. QED
          BY <4>1, <5>1
      <4>3. \A t \in Threads : Running(t)' => rcMap'[owner'[t]] = Known
        BY <1>0, <2>1, <3>1, <4>2 DEF Busy, Quiet, Running, threadVars, FieldType
      <4>4. QED
        BY <2>1, <2>2, <4>2, <4>3 DEF Quiet, Running, threadVars, netVars
    <3>2. CASE toLoad' = rcMap[Current] /\ UNCHANGED rcMap
               /\ faulty' = (faulty \/ rcMap[Current] # Known)
      <4>1. toLoad' = Known
        BY <3>2, Zenon
      <4>2. QED
        BY <2>1, <2>2, <3>2, <4>1 DEF Quiet, Running, threadVars, netVars
    <3>3. QED
      BY <2>3, <3>1, <3>2 DEF BeginLoad
  <2>4. CASE mainAt' # "fill" /\ UNCHANGED rcMap
    BY <2>1, <2>2, <2>4 DEF Quiet, Running, threadVars, netVars
  <2>5. QED
    BY <1>2, <2>3, <2>4 DEF onStartCommand
<1>3. CASE onDestroy
  BY <1>0, <1>3 DEF onDestroy, stopRC, Quiet, Live, Open, Running, threadVars, netVars, MainType
<1>4. CASE EndLoad
  <2>1. /\ UNCHANGED <<mServer, sock, recvPacket, rx, crashed, service>>
        /\ toLoad = Known /\ mainAt' = "record"
        /\ rcMap' = [rcMap EXCEPT ![subject] = Known]
    BY <1>4 DEF EndLoad, Quiet, netVars, histVars
  <2>2. CASE UNCHANGED <<owner, pc>>
    BY <1>0, <2>1, <2>2 DEF Quiet, Live, Open, Running, FieldType
  <2>3. CASE /\ threads < MaxObjects
             /\ owner' = [owner EXCEPT ![threads + 1] = subject]
             /\ pc' = [pc EXCEPT ![threads + 1] = "bind"]
    <3>1. threads + 1 \in Threads /\ pc[threads + 1] = "none" /\ subject \in Objects
      BY <1>0, <1>4, <2>3, BoundsAssumption DEF Made, ThreadType, Threads, Sockets, EndLoad,
           Subject, MainType
    <3>2. \A t \in Threads : Running(t)' => rcMap'[owner'[t]] = Known
      BY <1>0, <2>1, <2>3, <3>1 DEF Quiet, Running, FieldType, ThreadType
    <3>3. \A t \in Threads : pc'[t] = "lookup" => pc[t] = "lookup"
      BY <1>0, <2>3 DEF ThreadType
    <3>4. \A o \in Objects : Live(o) => Live(o)'
      BY <1>0, <2>1, <2>3, <3>1 DEF Live, Open, Using, ThreadType, FieldType
    <3>5. QED
      BY <1>0, <2>1, <3>2, <3>3, <3>4 DEF Quiet, MainType
  <2>4. QED
    BY <1>4, <2>2, <2>3 DEF EndLoad, startRC
<1>5. CASE Record
  <2>1. UNCHANGED <<service, objects, subject, toLoad, fieldVars, threadVars, netVars, histVars>>
        /\ mainAt' = "idle"
    BY <1>5 DEF Record, Fault
  <2>2. QED
    BY <2>1 DEF Quiet, Live, Open, Running, fieldVars, threadVars, netVars, histVars
<1>6. CASE CloseServer
  <2>1. /\ mainAt' = "idle" /\ service = null
        /\ UNCHANGED <<service, toLoad, fieldVars, owner, pc, recvPacket, crashed>>
        /\ rx' \in {<< >>, rx}
    BY <1>6 DEF CloseServer, Quiet, Live, histVars
  <2>2. QED
    BY <2>1 DEF Quiet, Live, Open, Running, fieldVars
<1>7. ASSUME NEW t \in Threads, ThreadStep(t) \/ Finalize(t) PROVE Quiet'
  <2>1. UNCHANGED <<mainVars, rcMap, owner, crashed>> /\ ~Crash
    <3>1. CASE Lookup(t)
      <4>1. recvPacket[t].func \in rcMap[owner[t]]
        BY <3>1 DEF Lookup, Quiet, Running
      <4>2. pc[t] = "lookup" /\ UNCHANGED <<mainVars, rcMap, owner, crashed>>
            /\ pc' = [pc EXCEPT ![t] = "send"]
        BY <3>1, <4>1 DEF Lookup, histVars, fieldVars, Goto
      <4>3. QED
        BY <4>2 DEF Crash, Quiet
    <3>2. CASE ~Lookup(t)
      BY <1>7, <3>2 DEF ThreadStep, Bind, Store, Connect, Test, Receive, SendPiece, SendDone,
           Close, Finalize, histVars, fieldVars, Crash, Quiet, threadVars
    <3>3. QED
      BY <3>1, <3>2
  <2>2. \A o \in Objects : (mServer[o] # null => Live(o)) =>
          (mServer'[o] # null => Live(o)') /\ (Live(o) => Live(o)')
    BY <1>7, <2>1, LiveStep
  <2>3. /\ mainAt' = "close" => service' = null /\ Live(subject)'
        /\ service' # null /\ mServer'[service'] # null => Live(service)'
    <3>1. UNCHANGED <<mainAt, service, subject>>
      BY <2>1 DEF mainVars
    <3>2. mainAt = "close" => subject \in Objects
      BY <1>0 DEF Made, Subject, MainType
    <3>3. service # null => service \in Objects
      BY <1>0 DEF MainType
    <3>4. mainAt = "close" => service = null /\ Live(subject)
      BY DEF Quiet
    <3>5. service # null /\ mServer[service] # null => Live(service)
      BY DEF Quiet
    <3>6. mainAt = "close" => Live(subject)'
      BY <2>2, <3>1, <3>2, <3>4 DEF Live, Open
    <3>7. service # null /\ mServer'[service] # null => Live(service)'
      BY <2>2, <3>1, <3>3, <3>5 DEF Live, Open
    <3>8. QED
      BY <3>1, <3>4, <3>6, <3>7
  <2>4. \A u \in Threads : Running(u)' => Running(u)
    BY <1>0, <1>7 DEF ThreadStep, Bind, Store, Connect, Test, Receive, Lookup, SendPiece,
         SendDone, Close, Finalize, Running, Goto, threadVars, ThreadType, Crash
  <2>5. \A u \in Threads : Running(u)' => rcMap'[owner'[u]] = Known
    BY <2>1, <2>4 DEF Quiet
  <2>6. CASE Receive(t) /\ UNCHANGED mServer /\ ReadsOn(t) /\ rx' = Tail(rx)
             /\ recvPacket' = [recvPacket EXCEPT ![t] = Head(rx)]
    <3>1. Len(rx) > 0 /\ Len(rx') = Len(rx) - 1 /\ Head(rx) = rx[1]
          /\ \A i \in 1 .. Len(rx') : rx'[i] = rx[i + 1]
      BY <1>0, <2>6 DEF NetType, ReadsOn
    <3>2. \A i \in 1 .. Len(rx') : rx'[i].func \in Known
      BY <1>0, <3>1 DEF Quiet, NetType
    <3>3. rx[1].func \in Known
      BY <1>0, <3>1 DEF Quiet, NetType
    <3>4. \A u \in Threads : pc'[u] = "lookup" => recvPacket'[u].func \in Known
      BY <1>0, <2>6, <3>1, <3>3 DEF Receive, Goto, ThreadType, Quiet
    <3>5. QED
      BY <2>1, <2>3, <2>5, <3>2, <3>4 DEF Quiet, mainVars
  <2>7. CASE /\ rx' \in {rx, << >>} /\ UNCHANGED recvPacket
             /\ \A u \in Threads : pc'[u] = "lookup" => pc[u] = "lookup"
    <3>1. \A i \in 1 .. Len(rx') : rx'[i].func \in Known
      BY <2>7 DEF Quiet
    <3>2. QED
      BY <2>1, <2>7, <2>3, <2>5, <3>1 DEF Quiet, mainVars
  <2>8. QED
    BY <1>0, <1>7, <2>1, <2>6, <2>7 DEF ThreadStep, Bind, Store, Connect, Test, Receive,
         Lookup, SendPiece, SendDone, Close, Finalize, Goto, threadVars, fieldVars, netVars,
         ThreadType, AfterReceive
<1>8. ASSUME NEW f \in Functions, Forward(f) PROVE Quiet'
  <2>1. UNCHANGED <<mainVars, fieldVars, threadVars, crashed>> /\ f \in Known
    BY <1>8 DEF Forward
  <2>2. \A i \in 1 .. Len(rx') : rx'[i].func \in Known
    BY <1>0, <1>8, <2>1 DEF Forward, Quiet, NetType
  <2>3. QED
    BY <2>1, <2>2 DEF Quiet, mainVars, fieldVars, threadVars, Live, Open, Running
<1>9. QED
  BY <1>1, <1>2, <1>3, <1>4, <1>5, <1>6, <1>7, <1>8 DEF Next, MainStep

(***************************************************************************)
(* What reaches the Bluetooth device.                                      *)
(***************************************************************************)

(* The thread that has the connection, and those that never had it.        *)
Active == {"test", "receive", "lookup", "send"}
Link ==
  /\ \A t \in Threads : pc[t] \in {"none", "bind", "store", "connect"} => bs[t] = "null"
  /\ \A t \in Threads : pc[t] \in Active => bs[t] = "up"
  /\ \A t, u \in Threads : bs[t] = "up" /\ bs[u] = "up" => t = u
  /\ \A t \in Threads : bs[t] = "null" => \A i \in 1 .. Len(wire) : wire[i].by # t

(* Keys are in the order in which they were pressed, from the wire over    *)
(* the packet a thread has to the socket's buffer.                         *)
Newest == wire[Len(wire)]
KeysInOrder ==
  /\ Len(wire) > 0 => Newest.id <= pressed
  /\ \A i \in 1 .. Len(rx) : /\ rx[i].id <= pressed
                             /\ Len(wire) > 0 => Newest.id < rx[i].id
  /\ \A i, j \in 1 .. Len(rx) : i < j => rx[i].id < rx[j].id
  /\ \A t \in Threads : pc[t] \in {"lookup", "send"} =>
       /\ recvPacket[t].id <= pressed
       /\ \A i \in 1 .. Len(rx) : recvPacket[t].id < rx[i].id

(* Where a code that is being sent has got to.                             *)
NewestWhole(t) == Newest.by = t => Newest.upto = CodeLength[Newest.func]
Progress ==
  \A t \in Threads :
    /\ pc[t] \in {"test", "receive", "lookup"} /\ Len(wire) > 0 => NewestWhole(t)
    /\ pc[t] = "lookup" /\ Len(wire) > 0 => Newest.id < recvPacket[t].id
    /\ pc[t] = "send" =>
         /\ flushed[t] <= CodeOf(t)
         /\ flushed[t] = 0 /\ Len(wire) > 0 =>
              Newest.id < recvPacket[t].id /\ NewestWhole(t)
         /\ flushed[t] > 0 =>
              /\ Len(wire) > 0
              /\ Newest.by = t /\ Newest.id = recvPacket[t].id
              /\ Newest.func = recvPacket[t].func /\ Newest.upto = flushed[t]

Sending == Link /\ KeysInOrder /\ Progress /\ CodesComeWhole

(* The device has one connection.                                          *)
LEMMA LinkStep == TypeOK /\ Made /\ Link /\ [Next]_vars => Link'
<1> SUFFICES ASSUME TypeOK, Made, Link, [Next]_vars PROVE Link'
  OBVIOUS
<1>0. ThreadType /\ NetType
  BY DEF TypeOK
<1>1. CASE UNCHANGED <<pc, bs, wire>>
  BY <1>1 DEF Link
<1>2. CASE Crash
  BY <1>0, <1>2 DEF Crash, Running, Link, Active, ThreadType
<1>3. CASE EndLoad
  <2>1. CASE UNCHANGED pc
    BY <1>1, <1>3, <2>1 DEF EndLoad, netVars
  <2>2. CASE threads < MaxObjects /\ pc' = [pc EXCEPT ![threads + 1] = "bind"]
    <3>1. threads + 1 \in Threads /\ pc[threads + 1] = "none"
      BY <1>0, <2>2, BoundsAssumption DEF Made, ThreadType, Threads
    <3>2. UNCHANGED <<bs, wire>>
      BY <1>3 DEF EndLoad, netVars
    <3>3. QED
      BY <1>0, <2>2, <3>1, <3>2 DEF Link, Active, ThreadType
  <2>3. QED
    BY <1>3, <2>1, <2>2 DEF EndLoad, startRC
<1>4. CASE CloseServer
  BY <1>1, <1>2, <1>4 DEF CloseServer
<1>5. ASSUME NEW t \in Threads, ThreadStep(t) PROVE Link'
  <2> USE DEF Goto
  <2>1. CASE Connect(t)
    <3>1. UNCHANGED wire /\ pc[t] = "connect" /\ bs[t] = "null"
      BY <1>0, <2>1 DEF Connect, Link, netVars
    <3>2. CASE UNCHANGED bs /\ pc' = [pc EXCEPT ![t] = "close"]
      BY <1>0, <3>1, <3>2 DEF Link, Active, ThreadType
    <3>3. CASE /\ \A u \in Threads : bs[u] # "up"
               /\ bs' = [bs EXCEPT ![t] = "up"] /\ pc' = [pc EXCEPT ![t] = "test"]
      <4>1. \A u \in Threads : /\ bs'[u] = IF u = t THEN "up" ELSE bs[u]
                               /\ pc'[u] = IF u = t THEN "test" ELSE pc[u]
        BY <1>0, <3>3 DEF ThreadType
      <4>2. QED
        BY <3>1, <3>3, <4>1 DEF Link, Active
    <3>4. QED
      BY <2>1, <3>2, <3>3 DEF Connect
  <2>2. CASE Close(t)
    BY <1>0, <2>2 DEF Close, Link, Active, ThreadType, netVars
  <2>3. CASE SendPiece(t)
    <3>1. CASE UNCHANGED pc /\ UNCHANGED bs /\ Len(wire') = Len(wire) + 1
               /\ \A i \in 1 .. Len(wire') : wire'[i].by = t \/ (i <= Len(wire) /\ wire'[i] = wire[i])
      <4>1. bs[t] = "up"
        BY <2>3 DEF SendPiece, Link, Active
      <4>2. ASSUME NEW u \in Threads, bs[u] = "null", NEW i \in 1 .. Len(wire')
            PROVE  wire'[i].by # u
        <5>1. CASE wire'[i].by = t
          BY <4>1, <4>2, <5>1
        <5>2. CASE i <= Len(wire) /\ wire'[i] = wire[i]
          BY <4>2, <5>2 DEF Link
        <5>3. QED
          BY <3>1, <5>1, <5>2
      <4>3. QED
        BY <3>1, <4>2 DEF Link
    <3>2. CASE UNCHANGED <<wire, bs>> /\ pc' = [pc EXCEPT ![t] = "close"]
      BY <1>0, <3>2 DEF Link, Active, ThreadType
    <3>3. QED
      BY <1>0, <2>3, <3>1, <3>2 DEF SendPiece, NetType
  <2>4. CASE Bind(t) \/ Store(t)
    BY <1>0, <2>4 DEF Bind, Store, Link, Active, ThreadType, netVars
  <2>5. CASE Test(t) \/ SendDone(t)
    BY <1>0, <2>5 DEF Test, SendDone, Link, Active, ThreadType, netVars
  <2>6. CASE Receive(t)
    BY <1>0, <2>6 DEF Receive, Link, Active, ThreadType, netVars
  <2>7. CASE Lookup(t)
    BY <1>0, <1>2, <2>7 DEF Lookup, Link, Active, ThreadType, netVars
  <2>8. QED
    BY <1>5, <2>1, <2>2, <2>3, <2>4, <2>5, <2>6, <2>7 DEF ThreadStep
<1>6. QED
  BY <1>1, <1>2, <1>3, <1>4, <1>5 DEF Next, MainStep, vars, threadVars, netVars, onStartCommand,
     onDestroy, Record, Finalize, Forward

(* A step that sends, reads and receives nothing disturbs no order.        *)
LEMMA SendingIdle ==
  ASSUME TypeOK, Sending, UNCHANGED <<wire, pressed, recvPacket, flushed>>,
         rx' \in {rx, << >>},
         \A t \in Threads : pc'[t] = pc[t] \/ pc'[t] \notin Active
                            \/ (pc[t] \in {"test", "receive", "lookup"} /\ pc'[t] = "receive")
  PROVE  KeysInOrder' /\ Progress' /\ CodesComeWhole'
<1>1. CodesComeWhole'
  BY DEF Sending, CodesComeWhole, Continues, Follows
<1>2. Progress'
  BY DEF Sending, Progress, NewestWhole, Newest, CodeOf, Active
<1>3. KeysInOrder'
  BY DEF Sending, KeysInOrder, Newest, Active
<1>4. QED
  BY <1>1, <1>2, <1>3

(* A piece that is sent continues its code or begins the next.             *)
LEMMA SendPieceOrder ==
  ASSUME TypeOK, Sending, NEW t \in Threads, SendPiece(t), wire' # wire
  PROVE  KeysInOrder' /\ Progress' /\ CodesComeWhole'
<1> DEFINE piece == [by |-> t, id |-> recvPacket[t].id, func |-> recvPacket[t].func,
                     after |-> flushed[t], upto |-> PieceEnd(t)]
<1>0. ThreadType /\ NetType /\ Link /\ KeysInOrder /\ Progress /\ CodesComeWhole
  BY DEF TypeOK, Sending
<1>1. /\ pc[t] = "send" /\ flushed[t] < CodeOf(t)
      /\ wire' = Append(wire, piece)
      /\ flushed' = [flushed EXCEPT ![t] = PieceEnd(t)]
      /\ UNCHANGED <<rx, pressed, recvPacket, pc>>
  BY DEF SendPiece
<1>2. /\ PieceEnd(t) \in Nat /\ flushed[t] \in Nat
      /\ flushed[t] < PieceEnd(t) /\ PieceEnd(t) <= CodeOf(t)
  BY <1>0, <1>1, PieceFits DEF ThreadType
<1>3. /\ piece.by = t /\ piece.id = recvPacket[t].id /\ piece.func = recvPacket[t].func
      /\ piece.after = flushed[t] /\ piece.upto = PieceEnd(t)
  OBVIOUS
<1> HIDE DEF piece
<1>4. /\ Len(wire) \in Nat /\ Len(wire') = Len(wire) + 1 /\ wire'[Len(wire')] = piece
      /\ \A i \in 1 .. Len(wire) : wire'[i] = wire[i]
  BY <1>0, <1>1 DEF NetType
<1>5. \A u \in Threads : pc[u] \in Active => u = t
  BY <1>0, <1>1 DEF Link, Active
<1>6. KeysInOrder'
  BY <1>0, <1>1, <1>3, <1>4, <1>5 DEF KeysInOrder, Newest, Active
<1>7. Progress'
  <2>1. \A u \in Threads : pc'[u] \in Active => u = t
    BY <1>1, <1>5
  <2>2. flushed'[t] = PieceEnd(t) /\ CodeOf(t)' = CodeOf(t) /\ Newest' = piece
    BY <1>0, <1>1, <1>4 DEF ThreadType, CodeOf, Newest
  <2>3. QED
    BY <1>1, <1>2, <1>3, <1>4, <2>1, <2>2 DEF Progress, Active
<1>8. CodesComeWhole'
  <2>1. CASE Len(wire) = 0
    <3>1. flushed[t] = 0
      BY <1>0, <1>1, <1>2, <2>1 DEF Progress
    <3>2. QED
      BY <1>3, <1>4, <2>1, <3>1 DEF CodesComeWhole
  <2>2. CASE Len(wire) > 0
    <3>1. Continues(Newest, piece) \/ Follows(Newest, piece)
      <4>1. CASE flushed[t] = 0
        BY <1>0, <1>1, <1>3, <2>2, <4>1 DEF Progress, NewestWhole, Follows
      <4>2. CASE flushed[t] > 0
        BY <1>0, <1>1, <1>3, <4>2 DEF Progress, Continues
      <4>3. QED
        BY <1>2, <4>1, <4>2
    <3>2. wire'[1].after = 0
      BY <1>0, <1>4, <2>2 DEF CodesComeWhole
    <3>3. ASSUME NEW i \in 1 .. Len(wire') - 1
          PROVE  Continues(wire'[i], wire'[i + 1]) \/ Follows(wire'[i], wire'[i + 1])
      <4>1. CASE i = Len(wire)
        BY <1>4, <2>2, <3>1, <4>1 DEF Newest
      <4>2. CASE i \in 1 .. Len(wire) - 1
        <5>1. wire'[i] = wire[i] /\ wire'[i + 1] = wire[i + 1]
          BY <1>4, <4>2
        <5>2. Continues(wire[i], wire[i + 1]) \/ Follows(wire[i], wire[i + 1])
          BY <1>0, <4>2 DEF CodesComeWhole
        <5>3. QED
          BY <5>1, <5>2
      <4>3. QED
        BY <1>4, <3>3, <4>1, <4>2
    <3>4. QED
      BY <3>2, <3>3 DEF CodesComeWhole, Continues, Follows
  <2>3. QED
    BY <1>4, <2>1, <2>2
<1>9. QED
  BY <1>6, <1>7, <1>8

(* Keys are numbered.                                                      *)
LEMMA IdsAreNumbers == ASSUME NetType, NEW i \in 1 .. Len(rx) PROVE rx[i].id \in Nat
<1>1. rx[i] \in Packet
  BY DEF NetType
<1>2. QED
  BY <1>1 DEF Packet

(* Every step keeps the order of keys and pieces.                          *)
LEMMA SendingStep == TypeOK /\ Made /\ Sending /\ [Next]_vars => Sending'
<1> SUFFICES ASSUME TypeOK, Made, Sending, [Next]_vars
             PROVE  KeysInOrder' /\ Progress' /\ CodesComeWhole'
  BY LinkStep DEF Sending
<1>0. ThreadType /\ NetType /\ Link /\ KeysInOrder /\ Progress /\ CodesComeWhole
  BY DEF TypeOK, Sending
<1>1. CASE UNCHANGED <<wire, pressed, recvPacket, flushed, pc>> /\ rx' \in {rx, << >>}
  BY <1>1, SendingIdle
<1>2. CASE Crash
  <2>1. \A t \in Threads : pc'[t] = pc[t] \/ pc'[t] \notin Active
    BY <1>0, <1>2 DEF Crash, ThreadType, Active
  <2>2. QED
    BY <1>2, <2>1, SendingIdle DEF Crash
<1>3. CASE EndLoad
  <2>1. \A t \in Threads : pc'[t] = pc[t] \/ pc'[t] \notin Active
    BY <1>0, <1>3 DEF EndLoad, startRC, ThreadType, Active
  <2>2. QED
    BY <1>3, <2>1, SendingIdle DEF EndLoad, netVars
<1>4. ASSUME NEW f \in Functions, Forward(f)
      PROVE  KeysInOrder' /\ Progress' /\ CodesComeWhole'
  <2>1. UNCHANGED <<wire, pc, recvPacket, flushed>> /\ pressed' = pressed + 1
        /\ rx' \in {rx, Append(rx, [id |-> pressed + 1, func |-> f])}
    BY <1>4 DEF Forward, threadVars
  <2>2. CodesComeWhole'
    BY <1>0, <2>1 DEF CodesComeWhole, Continues, Follows
  <2>3. Progress'
    BY <1>0, <2>1 DEF Progress, NewestWhole, Newest, CodeOf
  <2>4. \A t \in Threads : recvPacket[t].id \in Nat
    BY <1>0 DEF ThreadType, Packet
  <2>5. Len(wire) > 0 => Newest.id \in Nat
    <3>1. ASSUME Len(wire) > 0 PROVE wire[Len(wire)] \in Piece
      BY <1>0, <3>1 DEF NetType
    <3>2. QED
      BY <3>1 DEF Newest, Piece
  <2>6. CASE rx' = rx
    <3>1. \A i \in 1 .. Len(rx) : rx[i].id \in Nat
      BY <1>0, IdsAreNumbers
    <3>2. KeysInOrder'
      BY <1>0, <2>1, <2>4, <2>5, <2>6, <3>1 DEF KeysInOrder, Newest, NetType
    <3>3. QED
      BY <2>2, <2>3, <3>2
  <2>7. CASE rx' = Append(rx, [id |-> pressed + 1, func |-> f])
    <3> DEFINE new == [id |-> pressed + 1, func |-> f]
    <3>0. new \in Packet /\ new.id = pressed + 1
      BY <1>0 DEF NetType, Packet
    <3> HIDE DEF new
    <3>1. rx' = Append(rx, new)
      BY <2>7 DEF new
    <3>2. Len(rx) \in Nat /\ \A i \in 1 .. Len(rx) : rx[i].id \in Nat
      BY <1>0, IdsAreNumbers DEF NetType
    <3>3. /\ Len(rx) \in Nat /\ Len(rx') = Len(rx) + 1 /\ rx'[Len(rx')].id = pressed + 1
          /\ \A i \in 1 .. Len(rx) : rx'[i] = rx[i] /\ rx[i].id \in Nat
      BY <1>0, <3>0, <3>1, <3>2 DEF NetType
    <3>4. \A i \in 1 .. Len(rx') : i \in 1 .. Len(rx) \/ rx'[i].id = pressed + 1
      BY <3>3
    <3>5. QED
      <4>0. pressed \in Nat
        BY <1>0 DEF NetType
      <4>1. KeysInOrder'
        <5>1. (Len(wire) > 0 => Newest.id <= pressed)'
          BY <1>0, <2>1, <2>5, <4>0 DEF KeysInOrder, Newest
        <5>2. \A i \in 1 .. Len(rx') : /\ rx'[i].id <= pressed'
                                       /\ Len(wire) > 0 => Newest.id < rx'[i].id
          BY <1>0, <2>1, <2>5, <3>3, <3>4, <4>0 DEF KeysInOrder
        <5>3. \A i, j \in 1 .. Len(rx') : i < j => rx'[i].id < rx'[j].id
          BY <1>0, <2>1, <3>3, <3>4, <4>0 DEF KeysInOrder
        <5>4. \A t \in Threads : pc[t] \in {"lookup", "send"} =>
                /\ recvPacket[t].id <= pressed'
                /\ \A i \in 1 .. Len(rx') : recvPacket[t].id < rx'[i].id
          BY <1>0, <2>1, <2>4, <3>3, <3>4, <4>0 DEF KeysInOrder
        <5>5. QED
          BY <2>1, <5>1, <5>2, <5>3, <5>4 DEF KeysInOrder, Newest
      <4>2. QED
        BY <2>2, <2>3, <4>1
  <2>8. QED
    BY <2>1, <2>2, <2>3, <2>6, <2>7
<1>5. ASSUME NEW t \in Threads, ThreadStep(t)
      PROVE  KeysInOrder' /\ Progress' /\ CodesComeWhole'
  <2> USE DEF Goto
  <2>1. CASE Bind(t) \/ Store(t) \/ Test(t) \/ Close(t)
    <3>1. \A u \in Threads : pc'[u] = pc[u] \/ pc'[u] \notin Active
                             \/ (pc[u] = "test" /\ pc'[u] = "receive")
      BY <1>0, <2>1 DEF Bind, Store, Test, Close, ThreadType, Active
    <3>2. QED
      BY <2>1, <3>1, SendingIdle DEF Bind, Store, Test, Close, netVars
  <2>2. CASE Connect(t)
    <3>1. CASE pc' = [pc EXCEPT ![t] = "close"]
      BY <1>0, <2>2, <3>1, SendingIdle DEF Connect, ThreadType, Active, netVars
    <3>2. CASE pc' = [pc EXCEPT ![t] = "test"]
      <4>1. /\ UNCHANGED <<rx, wire, pressed, recvPacket, flushed>>
            /\ bs[t] = "null"
        BY <1>0, <2>2 DEF Connect, netVars, Link
      <4>2. Len(wire) > 0 => Newest.by # t
        BY <1>0, <4>1 DEF Link, Newest, NetType
      <4>3. \A u \in Threads : pc'[u] = IF u = t THEN "test" ELSE pc[u]
        BY <1>0, <3>2 DEF ThreadType
      <4>4. Progress'
        BY <1>0, <4>1, <4>2, <4>3 DEF Progress, NewestWhole, Newest, CodeOf
      <4>5. KeysInOrder' /\ CodesComeWhole'
        BY <1>0, <4>1, <4>3 DEF KeysInOrder, Newest, CodesComeWhole, Continues, Follows
      <4>6. QED
        BY <4>4, <4>5
    <3>3. QED
      BY <2>2, <3>1, <3>2 DEF Connect
  <2>3. CASE Receive(t)
    <3>1. CASE pc' = [pc EXCEPT ![t] = "close"] /\ UNCHANGED <<rx, wire, pressed, recvPacket, flushed>>
      BY <1>0, <3>1, SendingIdle DEF ThreadType, Active
    <3>2. CASE /\ rx # << >> /\ pc[t] = "receive"
               /\ rx' = Tail(rx) /\ recvPacket' = [recvPacket EXCEPT ![t] = Head(rx)]
               /\ pc' = [pc EXCEPT ![t] = "lookup"]
               /\ UNCHANGED <<wire, pressed, flushed>>
      <4>1. /\ Len(rx) \in Nat \ {0} /\ Len(rx') = Len(rx) - 1 /\ Head(rx) = rx[1]
            /\ \A i \in 1 .. Len(rx') : rx'[i] = rx[i + 1]
        BY <1>0, <3>2 DEF NetType
      <4>2. \A u \in Threads : /\ pc'[u] = IF u = t THEN "lookup" ELSE pc[u]
                               /\ recvPacket'[u] = IF u = t THEN rx[1] ELSE recvPacket[u]
        BY <1>0, <3>2, <4>1 DEF ThreadType
      <4>3. \A u \in Threads : pc[u] \in Active => u = t
        BY <1>0, <3>2 DEF Link, Active
      <4>4. KeysInOrder'
        BY <1>0, <3>2, <4>1, <4>2, <4>3 DEF KeysInOrder, Newest, Active
      <4>5. Len(wire) > 0 => Newest.id < rx[1].id /\ NewestWhole(t)
        BY <1>0, <3>2, <4>1 DEF KeysInOrder, Progress
      <4>6. Progress'
        BY <3>2, <4>2, <4>3, <4>5 DEF Progress, NewestWhole, Newest, Active
      <4>7. CodesComeWhole'
        BY <1>0, <3>2 DEF CodesComeWhole, Continues, Follows
      <4>8. QED
        BY <4>4, <4>6, <4>7
    <3>3. QED
      BY <2>3, <3>1, <3>2 DEF Receive, ReadsOn, AfterReceive, netVars
  <2>4. CASE Lookup(t)
    <3>1. CASE /\ pc[t] = "lookup" /\ pc' = [pc EXCEPT ![t] = "send"]
               /\ flushed' = [flushed EXCEPT ![t] = 0]
               /\ UNCHANGED <<rx, wire, pressed, recvPacket>>
      <4>1. \A u \in Threads : /\ pc'[u] = IF u = t THEN "send" ELSE pc[u]
                               /\ flushed'[u] = IF u = t THEN 0 ELSE flushed[u]
        BY <1>0, <3>1 DEF ThreadType
      <4>2. CodeOf(t) \in Nat
        BY <1>0, CodeLengthAssumption DEF CodeOf, ThreadType, Packet
      <4>3. Progress'
        BY <1>0, <3>1, <4>1, <4>2 DEF Progress, NewestWhole, Newest, CodeOf
      <4>4. KeysInOrder' /\ CodesComeWhole'
        BY <1>0, <3>1, <4>1 DEF KeysInOrder, Newest, CodesComeWhole, Continues, Follows
      <4>5. QED
        BY <4>3, <4>4
    <3>2. QED
      BY <1>2, <2>4, <3>1 DEF Lookup, netVars
  <2>5. CASE SendPiece(t)
    <3>1. CASE wire' = wire
      <4>1. CASE pc' = [pc EXCEPT ![t] = "close"] /\ UNCHANGED <<flushed, rx, pressed, recvPacket>>
        BY <1>0, <3>1, <4>1, SendingIdle DEF ThreadType, Active
      <4>2. CASE \E x : wire' = Append(wire, x)
        BY <1>0, <3>1, <4>2 DEF NetType
      <4>3. QED
        BY <2>5, <4>1, <4>2 DEF SendPiece
    <3>2. QED
      BY <2>5, <3>1, SendPieceOrder
  <2>6. CASE SendDone(t)
    <3>1. /\ pc[t] = "send" /\ flushed[t] >= CodeOf(t) /\ pc' = [pc EXCEPT ![t] = "test"]
          /\ UNCHANGED <<rx, wire, pressed, recvPacket, flushed>>
      BY <2>6 DEF SendDone, AllSent, netVars
    <3>2. CodeOf(t) \in Nat /\ flushed[t] \in Nat
      BY <1>0, CodeLengthAssumption DEF CodeOf, ThreadType, Packet
    <3>3. Len(wire) > 0 => NewestWhole(t)
      BY <1>0, <3>1, <3>2 DEF Progress, NewestWhole, CodeOf
    <3>4. \A u \in Threads : pc'[u] = IF u = t THEN "test" ELSE pc[u]
      BY <1>0, <3>1 DEF ThreadType
    <3>5. Progress'
      BY <1>0, <3>1, <3>3, <3>4 DEF Progress, NewestWhole, Newest, CodeOf
    <3>6. KeysInOrder' /\ CodesComeWhole'
      BY <1>0, <3>1, <3>4 DEF KeysInOrder, Newest, CodesComeWhole, Continues, Follows
    <3>7. QED
      BY <3>5, <3>6
  <2>7. QED
    BY <1>5, <2>1, <2>2, <2>3, <2>4, <2>5, <2>6 DEF ThreadStep
<1>6. QED
  BY <1>1, <1>2, <1>3, <1>4, <1>5 DEF Next, MainStep, vars, threadVars, netVars, onStartCommand,
     onDestroy, Record, CloseServer, Finalize

(***************************************************************************)
(* The theorems.                                                           *)
(***************************************************************************)

IInv == TypeOK /\ Made /\ OneThread /\ Sockets /\ Sending /\ (~faulty => Quiet)

(* At first there is no object, no thread and no key.                      *)
LEMMA InitIInv == Init => IInv
<1> SUFFICES ASSUME Init PROVE IInv
  OBVIOUS
<1>1. Made /\ OneThread
  BY BoundsAssumption DEF Init, Made, OneThread, Subject, Threads, Objects, null
<1>2. Sockets
  BY DEF Init, Sockets, Using
<1>3. Sending
  BY DEF Init, Sending, Link, Active, KeysInOrder, Progress, CodesComeWhole
<1>4. Quiet
  BY DEF Init, Quiet, Running, null
<1>5. QED
  BY <1>1, <1>2, <1>3, <1>4, InitTypeOK DEF IInv

(* The invariant is inductive.                                             *)
THEOREM Invariant == Spec => []IInv
<1>1. IInv /\ [Next]_vars => IInv'
  <2> SUFFICES ASSUME IInv, [Next]_vars PROVE IInv'
    OBVIOUS
  <2>1. TypeOK' /\ Made' /\ OneThread' /\ Sockets' /\ Sending'
    BY TypeStep, MadeStep, SocketsStep, SendingStep DEF IInv, Made
  <2>2. ~faulty' => Quiet'
    BY FaultStays, QuietStep DEF IInv
  <2>3. QED
    BY <2>1, <2>2 DEF IInv
<1>2. QED
  BY InitIInv, <1>1, PTL DEF Spec

(* For any number of objects, any codes and any keys, every variable keeps *)
(* its type and no piece reaches beyond its code.                          *)
THEOREM TypeCorrect == Spec => []TypeOK
<1>1. IInv => TypeOK
  BY DEF IInv
<1>2. QED
  BY Invariant, <1>1, PTL

(* stopRC finds the socket its thread uses.                                *)
THEOREM StopFindsSocket == Spec => []StopCanReach
<1>1. IInv => StopCanReach
  <2> SUFFICES ASSUME IInv, NEW t \in Threads, Running(t), pc[t] # "store", Open(t)
               PROVE  mServer[owner[t]] = t
    BY DEF StopCanReach
  <2>1. pc[t] \in Using \cup {"close"}
    BY DEF IInv, TypeOK, ThreadType, Running, Sockets, Open, Using
  <2>2. QED
    BY <2>1 DEF IInv, Sockets
<1>2. QED
  BY Invariant, <1>1, PTL

(* The device gets whole codes, in the order of the keys, from however     *)
(* many threads.                                                           *)
THEOREM CodesArriveWhole == Spec => []CodesComeWhole
<1>1. IInv => CodesComeWhole
  BY DEF IInv, Sending
<1>2. QED
  BY Invariant, <1>1, PTL

(* No order of starts and stops alone ends the process.                    *)
THEOREM CrashNeedsFault == Spec => []OnlyFaultsCrash
<1>1. IInv => OnlyFaultsCrash
  BY DEF IInv, Quiet, OnlyFaultsCrash
<1>2. QED
  BY Invariant, <1>1, PTL

=============================================================================
