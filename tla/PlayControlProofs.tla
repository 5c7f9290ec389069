--------------------------- MODULE PlayControlProofs ---------------------------
(***************************************************************************)
(* Proofs about PlayControl: who has the camera, which order wins, and     *)
(* what the daemon announces.                                              *)
(***************************************************************************)
EXTENDS PlayControl, FiniteSetTheorems, TLAPS

(***************************************************************************)
(* The activities and the threads that start the service.                  *)
(***************************************************************************)

(* Every starter thread has an activity, and a window has one too.         *)
Begun ==
  /\ shown # "gone" => activities \in Activities
  /\ \A s \in Starters : s > starters => at[s] = "none"
  /\ \A s \in Starters : Alive(s) => of[s] \in Activities

(* The user interface and the threads keep their types.                    *)
LEMMA UiStep == TypeOK /\ Begun /\ [Next]_vars => UiType' /\ StarterType' /\ Begun'
<1> SUFFICES ASSUME TypeOK, Begun, [Next]_vars PROVE UiType' /\ StarterType' /\ Begun'
  OBVIOUS
<1>1. UiType /\ StarterType
  BY DEF TypeOK
<1>2. Quality_FullHD \in Qualities /\ Quality_DVD \in Qualities
  BY DEF Qualities
<1>3. CASE UNCHANGED <<uiVars, starterVars, mQuality>>
  BY <1>1, <1>3 DEF uiVars, starterVars, UiType, StarterType, Begun, Alive
<1>4. ASSUME UNCHANGED <<starterVars, mQuality>>, UNCHANGED shown \/ shown' = "gone",
             UNCHANGED <<activities, bCheckPassword, chosen>>, playing' \in BOOLEAN
      PROVE  UiType' /\ StarterType' /\ Begun'
  BY <1>1, <1>4 DEF starterVars, UiType, StarterType, Begun, Alive
<1>5. CASE Launch
  BY <1>1, <1>5, PlayAssumption DEF Launch, isStreamingRunning, UiType, StarterType, Begun, Alive, Activities,
       starterVars
<1>6. ASSUME NEW where \in {"buttons", "start"}, NEW a \in Activities, NewStarter(where, a)
      PROVE  /\ StarterType
             /\ UNCHANGED mQuality => StarterType'
             /\ (\A s \in Starters : s > starters => at[s] = "none")'
             /\ (\A s \in Starters : Alive(s) => of[s] \in Activities)'
  <2>1. starters \in Nat /\ starters + 1 \in Starters /\ starters' = starters + 1
    BY <1>1, <1>6, PlayAssumption DEF StarterType, NewStarter, Starters
  <2>2. \A s \in Starters : /\ at'[s] = IF s = starters + 1 THEN where ELSE at[s]
                            /\ of'[s] = IF s = starters + 1 THEN a ELSE of[s]
    BY <1>1, <1>6, <2>1 DEF StarterType, NewStarter
  <2>3. UNCHANGED mQuality => StarterType'
    BY <1>1, <1>6, <2>1 DEF StarterType, NewStarter, Starters
  <2>4. QED
    BY <1>1, <2>1, <2>2, <2>3 DEF Begun, Alive, Starters
<1>7. ASSUME NEW q \in Choices, LaunchRestart(q)
      PROVE  UiType' /\ StarterType' /\ Begun'
  <2>1. activities + 1 \in Activities /\ activities' = activities + 1 /\ q \in Qualities
    BY <1>1, <1>7, PlayAssumption DEF LaunchRestart, UiType, Activities
  <2>2. UiType'
    <3>1. activities' \in 0 .. MaxActivities
      BY <2>1, PlayAssumption DEF Activities
    <3>2. shown' = "created" /\ playing' = FALSE /\ UNCHANGED bCheckPassword
          /\ chosen' = [chosen EXCEPT ![activities + 1] = q]
      BY <1>7 DEF LaunchRestart
    <3>3. chosen' \in [Activities -> Qualities]
      BY <1>1, <2>1, <3>2 DEF UiType
    <3>4. QED
      BY <1>1, <3>1, <3>2, <3>3 DEF UiType
  <2>3. QED
    BY <1>6, <1>7, <2>1, <2>2 DEF LaunchRestart, Begun
<1>8. ASSUME NEW q \in Choices, OnPlay(q)
      PROVE  UiType' /\ StarterType' /\ Begun'
  <2>1. activities \in Activities /\ q \in Qualities
    BY <1>8, PlayAssumption DEF OnPlay, Begun
  <2>2. UiType'
    BY <1>1, <1>8, <2>1 DEF OnPlay, UiType
  <2>3. QED
    BY <1>6, <1>8, <2>1, <2>2 DEF OnPlay, Begun
<1>9. ASSUME NEW q \in Choices, Choose(q)
      PROVE  UiType' /\ StarterType' /\ Begun'
  BY <1>1, <1>9, PlayAssumption DEF Choose, UiType, StarterType, Begun, Alive, starterVars
<1>10. CASE Attach \/ CheckPassword
  BY <1>1, <1>10 DEF Attach, CheckPassword, UiType, StarterType, Begun, Alive, starterVars
<1>11. CASE OnStop \/ Exit \/ Background \/ CmdStop
  BY <1>1, <1>3, <1>4, <1>11 DEF OnStop, Exit, Background, CmdStop, UiType
<1>12. CASE Crash
  BY <1>1, <1>2, <1>12 DEF Crash, UiType, StarterType, Begun, Alive
<1>13. CASE onStartCommand \/ onDestroy
  BY <1>3, <1>12, <1>13 DEF onStartCommand, NoCamera, Records, onDestroy
<1>14. ASSUME NEW s \in Starters, StarterStep(s)
       PROVE  UiType' /\ StarterType' /\ Begun'
  <2> USE DEF Goto
  <2>1. Alive(s) /\ of[s] \in Activities /\ s <= starters
    <3>1. at[s] \in {"buttons", "start", "connect", "choose", "send"}
      BY <1>14 DEF StarterStep, Buttons, Start, Connect, PickQuality, Send
    <3>2. Alive(s) /\ at[s] # "none"
      BY <3>1 DEF Alive
    <3>3. starters \in Nat /\ s \in Nat
      BY <1>1, PlayAssumption DEF StarterType, Starters
    <3>4. QED
      BY <3>2, <3>3 DEF Begun
  <2>2. CASE Buttons(s)
    BY <1>1, <1>12, <2>1, <2>2 DEF Buttons, UiType, StarterType, Begun, Alive
  <2>3. CASE Start(s)
    BY <1>1, <2>1, <2>3 DEF Start, UiType, StarterType, Begun, Alive, uiVars
  <2>4. CASE Connect(s)
    BY <1>1, <1>2, <2>1, <2>4 DEF Connect, Leave, UiType, StarterType, Begun, Alive, uiVars
  <2>5. CASE PickQuality(s)
    BY <1>1, <2>1, <2>5 DEF PickQuality, UiType, StarterType, Begun, Alive, uiVars
  <2>6. CASE Send(s)
    BY <1>1, <1>2, <2>1, <2>6 DEF Send, Leave, UiType, StarterType, Begun, Alive, uiVars
  <2>7. QED
    BY <1>14, <2>2, <2>3, <2>4, <2>5, <2>6 DEF StarterStep
<1>15. QED
  BY <1>3, <1>5, <1>7, <1>8, <1>9, <1>10, <1>11, <1>13, <1>14
     DEF Next, User, MainStep, vars, Deliver, SetKey

(* No more services are asked for than threads have asked for one.         *)
Started == {s \in Starters : at[s] \notin {"none", "buttons", "start"}}
Counting == made <= Cardinality(Started)

(* The set of threads is finite.                                           *)
LEMMA StartersFinite ==
  ASSUME NEW S \in SUBSET Starters
  PROVE  IsFiniteSet(S) /\ Cardinality(S) \in Nat /\ Cardinality(S) <= MaxPlays
<1>1. IsFiniteSet(Starters) /\ Cardinality(Starters) = MaxPlays
  BY FS_Interval, PlayAssumption DEF Starters
<1>2. IsFiniteSet(S) /\ Cardinality(S) <= Cardinality(Starters)
  BY <1>1, FS_Subset
<1>3. QED
  BY <1>1, <1>2, FS_CardinalityType

(* What made counts stays within the bound.                                *)
LEMMA CountingStep ==
  TypeOK /\ Begun /\ Counting /\ [Next]_vars => Counting' /\ made' \in 0 .. MaxPlays
<1> SUFFICES ASSUME TypeOK, Begun, Counting, [Next]_vars
             PROVE  Counting' /\ made' \in Nat
  BY StartersFinite, PlayAssumption DEF Counting, Started
<1>0. StarterType /\ made \in Nat
  BY PlayAssumption DEF TypeOK, ServiceType
<1>1. ASSUME UNCHANGED made, Started \subseteq Started' PROVE Counting' /\ made' \in Nat
  <2>1. Started' \in SUBSET Starters
    BY DEF Started
  <2>2. Cardinality(Started) <= Cardinality(Started')
    BY <1>1, <2>1, StartersFinite, FS_Subset
  <2>3. Cardinality(Started) \in Nat /\ Cardinality(Started') \in Nat
    BY <1>1, <2>1, StartersFinite
  <2>4. QED
    BY <1>0, <1>1, <2>2, <2>3 DEF Counting
<1>2. CASE UNCHANGED <<made, at>>
  BY <1>1, <1>2 DEF Started
<1>3. CASE Crash
  BY <1>0, <1>1, <1>3 DEF Crash, Started, StarterType
<1>4. ASSUME NEW q \in Choices, LaunchRestart(q) \/ OnPlay(q)
      PROVE  Counting' /\ made' \in Nat
  <2>1. UNCHANGED made /\ starters \in Nat /\ starters < MaxPlays
        /\ \E w \in {"buttons", "start"} : at' = [at EXCEPT ![starters + 1] = w]
    BY <1>0, <1>4, PlayAssumption DEF LaunchRestart, OnPlay, NewStarter, stopService, StarterType
  <2>2. at[starters + 1] = "none"
    BY <2>1, PlayAssumption DEF Begun, Starters
  <2>3. \A s \in Starters : s # starters + 1 => at'[s] = at[s]
    BY <1>0, <2>1 DEF StarterType
  <2>4. QED
    BY <1>1, <2>1, <2>2, <2>3 DEF Started
<1>5. CASE Launch \/ OnStop \/ Exit \/ CmdStop \/ Background \/ CheckPassword \/ Attach
           \/ Deliver \/ SetKey \/ onDestroy \/ \E q \in Choices : Choose(q)
  BY <1>2, <1>5 DEF Launch, OnStop, Exit, CmdStop, Background, CheckPassword, Attach, Deliver,
     SetKey, onDestroy, Choose, stopService, amsVars, starterVars
<1>6. CASE onStartCommand
  BY <1>2, <1>3, <1>6 DEF onStartCommand, NoCamera, Records, starterVars
<1>7. ASSUME NEW s \in Starters, StarterStep(s)
      PROVE  Counting' /\ made' \in Nat
  <2> USE DEF Goto
  <2>1. CASE Buttons(s)
    <3>1. CASE at' = [at EXCEPT ![s] = "start"] /\ at[s] = "buttons" /\ UNCHANGED made
      BY <1>0, <1>1, <3>1 DEF Started, StarterType
    <3>2. QED
      BY <1>3, <2>1, <3>1 DEF Buttons, amsVars
  <2>2. CASE Start(s)
    <3>1. s \notin Started /\ Started' = Started \cup {s}
      BY <1>0, <2>2 DEF Start, Started, StarterType
    <3>2. made' \in {made, made + 1}
      BY <2>2 DEF Start, startService
    <3>3. Cardinality(Started') = Cardinality(Started) + 1
      BY <3>1, StartersFinite, FS_AddElement DEF Started
    <3>4. Cardinality(Started) \in Nat
      BY StartersFinite DEF Started
    <3>5. QED
      BY <1>0, <3>2, <3>3, <3>4 DEF Counting
  <2>3. CASE Connect(s) \/ PickQuality(s) \/ Send(s)
    <3>1. UNCHANGED made /\ at[s] \in {"connect", "choose", "send"}
          /\ \E w \in {"choose", "send", "done"} : at' = [at EXCEPT ![s] = w]
      BY <2>3 DEF Connect, PickQuality, Send, Leave, amsVars
    <3>2. QED
      BY <1>0, <1>1, <3>1 DEF Started, StarterType
  <2>4. QED
    BY <1>7, <2>1, <2>2, <2>3 DEF StarterStep
<1>8. QED
  BY <1>2, <1>4, <1>5, <1>6, <1>7 DEF Next, User, MainStep, vars, amsVars, starterVars

(***************************************************************************)
(* The camera and the activity manager's messages.                         *)
(***************************************************************************)

IsStart(i, o) == inbox[i] = Message("start", o)
IsStop(i, o) == inbox[i] = Message("stop", o)

(* Who has the camera records with it, and nobody else has it.             *)
Camera ==
  /\ \A o \in Objects : Holds(o) <=> hw[o].rec # "none"
  /\ \A o, p \in Objects : Holds(o) /\ Holds(p) => o = p

(* Objects are never used again.                                           *)
Numbered == /\ running <= made
            /\ \A i \in 1 .. Len(inbox) : inbox[i].object <= made

(* Who has the camera, or is to be started, runs or is to be stopped, and  *)
(* before another is started.                                              *)
StopsCome ==
  /\ \A o \in Objects : Holds(o) =>
       running = o \/ \E j \in 1 .. Len(inbox) : IsStop(j, o)
  /\ \A o \in Objects : \A i \in 1 .. Len(inbox) : IsStart(i, o) =>
       running = o \/ \E j \in 1 .. Len(inbox) : j > i /\ IsStop(j, o)
StopsFirst ==
  /\ \A o, p \in Objects : \A i \in 1 .. Len(inbox) :
       Holds(p) /\ IsStart(i, o) /\ o # p => \E j \in 1 .. Len(inbox) : j < i /\ IsStop(j, p)
  /\ \A o, p \in Objects : \A i, k \in 1 .. Len(inbox) :
       IsStart(i, p) /\ i < k /\ IsStart(k, o) /\ o # p =>
         \E j \in 1 .. Len(inbox) : i < j /\ j < k /\ IsStop(j, p)

(* What runs is not to be stopped, is started last, and records when it    *)
(* has been.                                                               *)
RunsOn ==
  running # null =>
    /\ \A i \in 1 .. Len(inbox) : ~IsStop(i, running)
    /\ \A o \in Objects : \A k \in 1 .. Len(inbox) : IsStart(k, o) /\ o # running =>
         \E i \in 1 .. Len(inbox) : k < i /\ IsStart(i, running)
    /\ \/ Holds(running) \/ failed
       \/ \E i \in 1 .. Len(inbox) : IsStart(i, running)

Orderly == Camera /\ Numbered /\ StopsCome /\ StopsFirst /\ RunsOn

(* The cleanup leaves nothing.                                             *)
LEMMA CleanUpFrees ==
  ASSUME ServiceType, Camera, NEW o \in Objects
  PROVE  CleanUp(hw[o]) = Nothing
<1>1. hw[o] \in [cam : {"null", "unlocked"}, rec : Qualities \cup {"none"}]
  BY DEF ServiceType
<1>2. hw[o].cam # "null" <=> hw[o].rec # "none"
  BY DEF Camera, Holds
<1>3. CASE hw[o].rec = "none"
  BY <1>1, <1>2, <1>3 DEF CleanUp, releaseMediaRecorder, releaseCamera, Nothing
<1>4. CASE hw[o].rec # "none"
  BY <1>1, <1>2, <1>4 DEF CleanUp, releaseMediaRecorder, releaseCamera, Nothing
<1>5. QED
  BY <1>3, <1>4

(* Messages are of two kinds.                                              *)
LEMMA MessageKinds ==
  ASSUME ServiceType
  PROVE  /\ Len(inbox) \in Nat
         /\ \A i \in 1 .. Len(inbox) : /\ inbox[i].op \in {"start", "stop"}
                                       /\ inbox[i].object \in Objects
                                       /\ inbox[i] = Message(inbox[i].op, inbox[i].object)
         /\ \A o, p : Message("start", o) # Message("stop", p)
         /\ \A op, o, p : Message(op, o) = Message(op, p) => o = p
<1>1. Len(inbox) \in Nat /\ \A i \in 1 .. Len(inbox) : inbox[i] \in Messages
  BY DEF ServiceType
<1>2. \A m \in Messages : /\ m.op \in {"start", "stop"} /\ m.object \in Objects
                           /\ m = Message(m.op, m.object)
  BY DEF Message, Messages
<1>3. \A o, p : Message("start", o) # Message("stop", p)
  <2> SUFFICES ASSUME NEW o, NEW p PROVE Message("start", o) # Message("stop", p)
    OBVIOUS
  <2>1. Message("start", o).op = "start" /\ Message("stop", p).op = "stop"
    BY DEF Message
  <2>2. QED
    BY <2>1
<1>4. \A op, o, p : Message(op, o) = Message(op, p) => o = p
  <2> SUFFICES ASSUME NEW op, NEW o, NEW p, Message(op, o) = Message(op, p) PROVE o = p
    OBVIOUS
  <2>1. Message(op, o).object = o /\ Message(op, p).object = p
    BY DEF Message
  <2>2. QED
    BY <2>1
<1>5. QED
  BY <1>1, <1>2, <1>3, <1>4

(* A new message is the last.                                              *)
LEMMA Appended ==
  ASSUME ServiceType, NEW o \in Objects, NEW op \in {"start", "stop"},
         inbox' = Append(inbox, Message(op, o))
  PROVE  /\ Len(inbox') = Len(inbox) + 1 /\ inbox'[Len(inbox) + 1] = Message(op, o)
         /\ \A i \in 1 .. Len(inbox) : inbox'[i] = inbox[i]
         /\ inbox' \in Seq(Messages)
         /\ Message(op, o).object = o
<1>1. Message(op, o) \in Messages /\ Message(op, o).object = o
  BY DEF Message, Messages
<1>2. inbox \in Seq(Messages)
  BY DEF ServiceType
<1>3. QED
  BY <1>1, <1>2

(* Starting a service keeps the order.                                     *)
LEMMA StartServiceOrder ==
  ASSUME ServiceType, Orderly, startService, made' \in 0 .. MaxPlays, UNCHANGED <<hw, fds, failed>>
  PROVE  ServiceType' /\ Orderly'
<1>0. PICK r \in Objects : r = IF running = null THEN made + 1 ELSE running
  BY PlayAssumption DEF startService, ServiceType, Objects, null
<1>1. /\ running' = r /\ made' = IF running = null THEN made + 1 ELSE made
      /\ inbox' = Append(inbox, Message("start", r))
  BY <1>0 DEF startService
<1>2. PICK n \in Nat : n = Len(inbox)
  BY DEF ServiceType
<1>3. r # null /\ r <= made' /\ made <= made' /\ (running = null => made < r)
      /\ (running # null => r = running)
  BY <1>0, <1>1, PlayAssumption DEF Objects, null, Orderly, Numbered, ServiceType
<1>4. /\ inbox'[n + 1] = Message("start", r)
      /\ \A i \in 1 .. n : inbox'[i] = inbox[i]
      /\ inbox' \in Seq(Messages)
      /\ Message("start", r).object = r
  BY <1>1, <1>2, Appended
<1>5. Len(inbox) = n /\ Len(inbox') = n + 1
  BY <1>1, <1>2, Appended
<1> USE <1>5
<1>6. ServiceType'
  BY <1>1, <1>4 DEF ServiceType
<1>7. /\ n \in Nat
      /\ \A i \in 1 .. n + 1 : i \in 1 .. n \/ i = n + 1
      /\ \A o \in Objects : ~IsStop(n + 1, o)'
      /\ \A o \in Objects : IsStart(n + 1, o)' => o = r
      /\ n + 1 \in 1 .. n + 1
      /\ IsStart(n + 1, r)'
  BY <1>4, MessageKinds DEF IsStop, IsStart
<1>8. \A i \in 1 .. n : \A o \in Objects : /\ i \in 1 .. n + 1
                                           /\ IsStart(i, o)' <=> IsStart(i, o)
                                           /\ IsStop(i, o)' <=> IsStop(i, o)
  BY <1>4, <1>7 DEF IsStart, IsStop
<1>9. \A o \in Objects : Holds(o)' <=> Holds(o)
  BY DEF Holds
<1>10. Camera'
  BY <1>9 DEF Orderly, Camera
<1>11. Numbered'
  <2>1. \A i \in 1 .. n : inbox[i].object \in Nat /\ inbox[i].object <= made
    BY MessageKinds DEF Objects, Orderly, Numbered
  <2>2. made \in Nat /\ made' \in Nat
    BY DEF ServiceType
  <2>3. QED
    BY <1>1, <1>3, <1>4, <1>7, <2>1, <2>2 DEF Numbered
<1>12. StopsCome'
  <2>1. \A o \in Objects : running = o => running' = o
    BY <1>1, <1>3 DEF Objects, null
  <2>2. QED
    BY <1>1, <1>4, <1>7, <1>8, <1>9, <2>1 DEF Orderly, StopsCome
<1>13. StopsFirst'
  <2>1. ASSUME NEW o \in Objects, NEW p \in Objects, NEW i \in 1 .. n + 1, Holds(p)',
               IsStart(i, o)', o # p
        PROVE  \E j \in 1 .. n + 1 : j < i /\ IsStop(j, p)'
    <3>1. CASE i \in 1 .. n
      BY <1>8, <1>9, <2>1, <3>1 DEF Orderly, StopsFirst
    <3>2. CASE i = n + 1
      <4>1. running # p
        BY <1>3, <1>7, <2>1, <3>2 DEF Objects, null
      <4>2. PICK j \in 1 .. n : IsStop(j, p)
        BY <1>9, <2>1, <4>1 DEF Orderly, StopsCome
      <4>3. QED
        BY <1>7, <1>8, <3>2, <4>2
    <3>3. QED
      BY <1>7, <3>1, <3>2
  <2>2. ASSUME NEW o \in Objects, NEW p \in Objects, NEW i \in 1 .. n + 1,
               NEW k \in 1 .. n + 1, IsStart(i, p)', i < k, IsStart(k, o)', o # p
        PROVE  \E j \in 1 .. n + 1 : i < j /\ j < k /\ IsStop(j, p)'
    <3>1. CASE k \in 1 .. n
      <4>1. i \in 1 .. n
        BY <1>7, <2>2, <3>1
      <4>2. PICK j \in 1 .. n : i < j /\ j < k /\ IsStop(j, p)
        BY <1>8, <2>2, <3>1, <4>1 DEF Orderly, StopsFirst
      <4>3. QED
        BY <1>8, <4>2
    <3>2. CASE k = n + 1
      <4>1. i \in 1 .. n /\ running # p
        BY <1>3, <1>7, <2>2, <3>2 DEF Objects, null
      <4>2. PICK j \in 1 .. n : j > i /\ IsStop(j, p)
        BY <1>8, <2>2, <4>1 DEF Orderly, StopsCome
      <4>3. QED
        BY <1>7, <1>8, <3>2, <4>2
    <3>3. QED
      BY <1>7, <3>1, <3>2
  <2>3. QED
    BY <2>1, <2>2 DEF StopsFirst
<1>14. RunsOn'
  <2>1. ASSUME NEW i \in 1 .. n + 1, IsStop(i, r)' PROVE FALSE
    <3>1. i \in 1 .. n /\ IsStop(i, r)
      BY <1>1, <1>7, <1>8, <2>1
    <3>2. inbox[i].object = r /\ r <= made
      BY <3>1 DEF IsStop, Message, Orderly, Numbered
    <3>3. made \in Nat /\ r \in Nat
      BY <1>1 DEF ServiceType, Objects
    <3>4. QED
      BY <1>3, <3>1, <3>2, <3>3 DEF Orderly, RunsOn
  <2>2. ASSUME NEW o \in Objects, NEW k \in 1 .. n + 1, IsStart(k, o)', o # r
        PROVE  k < n + 1
    BY <1>7, <2>2
  <2>3. QED
    BY <1>1, <1>3, <1>7, <2>1, <2>2 DEF RunsOn, IsStop, IsStart
<1>15. QED
  BY <1>6, <1>10, <1>11, <1>12, <1>13, <1>14 DEF Orderly

(* Stopping the service keeps the order.                                   *)
LEMMA StopServiceOrder ==
  ASSUME ServiceType, Orderly, stopService, UNCHANGED <<hw, fds>>
  PROVE  ServiceType' /\ Orderly'
<1>1. running' = null /\ UNCHANGED made
  BY DEF stopService
<1>2. \A o \in Objects : Holds(o)' <=> Holds(o)
  BY DEF Holds
<1>3. made \in Nat /\ null <= made
  BY DEF ServiceType, null
<1>4. RunsOn'
  BY <1>1 DEF RunsOn
<1>5. Camera'
  BY <1>2 DEF Orderly, Camera
<1>6. CASE running = null
  <2>1. inbox' = inbox
    BY <1>6 DEF stopService, StopMessage, ServiceType
  <2>2. QED
    BY <1>1, <1>2, <1>3, <1>4, <1>5, <1>6, <2>1
       DEF Orderly, Numbered, StopsCome, StopsFirst, IsStart, IsStop, ServiceType
<1>7. CASE running # null
  <2>1. running \in Objects
    BY <1>7 DEF ServiceType
  <2>2. inbox' = Append(inbox, Message("stop", running))
    <3>1. inbox' = inbox \o <<Message("stop", running)>>
      BY <1>7 DEF stopService, StopMessage
    <3>2. Message("stop", running) \in Messages
      BY <2>1 DEF Message, Messages
    <3>3. QED
      BY <3>1, <3>2 DEF ServiceType
  <2>3. PICK r \in Objects : r = running
    BY <2>1
  <2>4. PICK n \in Nat : n = Len(inbox)
    BY DEF ServiceType
  <2>5. /\ inbox'[n + 1] = Message("stop", r)
        /\ \A i \in 1 .. n : inbox'[i] = inbox[i]
        /\ inbox' \in Seq(Messages)
        /\ Message("stop", r).object = r
    BY <2>2, <2>3, <2>4, Appended
  <2>6. Len(inbox) = n /\ Len(inbox') = n + 1
    BY <2>2, <2>3, <2>4, Appended
  <2> USE <2>6
  <2>7. ServiceType'
    BY <1>1, <2>5 DEF ServiceType
  <2>8. /\ n \in Nat
        /\ \A i \in 1 .. n + 1 : i \in 1 .. n \/ i = n + 1
        /\ \A o \in Objects : ~IsStart(n + 1, o)'
        /\ n + 1 \in 1 .. n + 1
        /\ IsStop(n + 1, r)'
    BY <2>5, MessageKinds DEF IsStop, IsStart
  <2>9. \A i \in 1 .. n : \A o \in Objects : /\ i \in 1 .. n + 1
                                             /\ IsStart(i, o)' <=> IsStart(i, o)
                                             /\ IsStop(i, o)' <=> IsStop(i, o)
    BY <2>5, <2>8 DEF IsStart, IsStop
  <2>10. Numbered'
    BY <1>1, <1>3, <2>3, <2>5, <2>8 DEF Orderly, Numbered
  <2>11. StopsCome'
    <3>1. ASSUME NEW o \in Objects, Holds(o)'
          PROVE  \E j \in 1 .. n + 1 : IsStop(j, o)'
      BY <1>2, <2>3, <2>8, <2>9, <3>1 DEF Orderly, StopsCome
    <3>2. ASSUME NEW o \in Objects, NEW i \in 1 .. n + 1, IsStart(i, o)'
          PROVE  \E j \in 1 .. n + 1 : j > i /\ IsStop(j, o)'
      <4>1. i \in 1 .. n /\ IsStart(i, o)
        BY <2>8, <2>9, <3>2
      <4>2. CASE o = r
        BY <2>8, <4>1, <4>2
      <4>3. CASE o # r
        <5>1. PICK j \in 1 .. n : j > i /\ IsStop(j, o)
          BY <2>3, <4>1, <4>3 DEF Orderly, StopsCome
        <5>2. QED
          BY <2>9, <5>1
      <4>4. QED
        BY <4>2, <4>3
    <3>3. QED
      BY <3>1, <3>2 DEF StopsCome
  <2>12. StopsFirst'
    <3>1. ASSUME NEW o \in Objects, NEW p \in Objects, NEW i \in 1 .. n + 1, Holds(p)',
                 IsStart(i, o)', o # p
          PROVE  \E j \in 1 .. n + 1 : j < i /\ IsStop(j, p)'
      <4>1. i \in 1 .. n /\ IsStart(i, o)
        BY <2>8, <2>9, <3>1
      <4>2. PICK j \in 1 .. n : j < i /\ IsStop(j, p)
        BY <1>2, <3>1, <4>1 DEF Orderly, StopsFirst
      <4>3. QED
        BY <2>9, <4>2
    <3>2. ASSUME NEW o \in Objects, NEW p \in Objects, NEW i \in 1 .. n + 1,
                 NEW k \in 1 .. n + 1, IsStart(i, p)', i < k, IsStart(k, o)', o # p
          PROVE  \E j \in 1 .. n + 1 : i < j /\ j < k /\ IsStop(j, p)'
      <4>1. /\ i \in 1 .. n /\ IsStart(i, p)
            /\ k \in 1 .. n /\ IsStart(k, o)
        BY <2>8, <2>9, <3>2
      <4>2. PICK j \in 1 .. n : i < j /\ j < k /\ IsStop(j, p)
        BY <3>2, <4>1 DEF Orderly, StopsFirst
      <4>3. QED
        BY <2>9, <4>2
    <3>3. QED
      BY <3>1, <3>2 DEF StopsFirst
  <2>13. QED
    BY <1>4, <1>5, <2>7, <2>10, <2>11, <2>12 DEF Orderly
<1>8. QED
  BY <1>6, <1>7

(* The rest of the messages moves up.                                      *)
LEMMA Popped ==
  ASSUME ServiceType, inbox # << >>, inbox' = Tail(inbox), NEW n \in Nat, Len(inbox) = n
  PROVE  /\ n \in Nat \ {0} /\ Len(inbox') = n - 1 /\ NextMessage = inbox[1]
         /\ inbox' \in Seq(Messages)
         /\ \A i \in 1 .. n - 1 : i + 1 \in 1 .. n /\ inbox'[i] = inbox[i + 1]
BY DEF ServiceType, NextMessage

(* What holds of the messages behind the first holds when it is gone.      *)
LEMMA PoppedOrder ==
  ASSUME ServiceType, Orderly, inbox # << >>, inbox' = Tail(inbox), UNCHANGED <<running, made>>,
         \A p \in Objects : Holds(p)' =>
           \/ Holds(p) /\ NextMessage # Message("stop", p)
           \/ NextMessage = Message("start", p)
  PROVE  Numbered' /\ StopsCome' /\ StopsFirst'
<1>1. PICK n \in Nat : n = Len(inbox)
  BY DEF ServiceType
<1>2. /\ n \in Nat \ {0} /\ NextMessage = inbox[1]
      /\ \A i \in 1 .. n - 1 : i + 1 \in 1 .. n /\ inbox'[i] = inbox[i + 1]
  BY <1>1, Popped
<1>3. Len(inbox) = n /\ Len(inbox') = n - 1
  BY <1>1, Popped
<1> USE <1>3
<1>4. \A j \in 1 .. n : j > 1 => j - 1 \in 1 .. n - 1 /\ (j - 1) + 1 = j
  BY <1>2
<1>5. ASSUME NEW j \in 1 .. n, j > 1, NEW o \in Objects, IsStop(j, o)
      PROVE  j - 1 \in 1 .. n - 1 /\ IsStop(j - 1, o)'
  <2>1. PICK k \in 1 .. n - 1 : k = j - 1 /\ k + 1 = j
    BY <1>4, <1>5
  <2>2. IsStop(k, o)'
    BY <1>2, <1>5, <2>1 DEF IsStop
  <2>3. QED
    BY <2>1, <2>2
<1>6. Numbered'
  BY <1>2 DEF Orderly, Numbered
<1>7. StopsCome'
  <2>1. ASSUME NEW o \in Objects, Holds(o)'
        PROVE  running = o \/ \E j \in 1 .. n - 1 : IsStop(j, o)'
    <3>1. CASE Holds(o) /\ NextMessage # Message("stop", o) /\ running # o
      <4>1. PICK j \in 1 .. n : IsStop(j, o)
        BY <3>1 DEF Orderly, StopsCome
      <4>2. j > 1
        BY <1>2, <3>1, <4>1 DEF IsStop
      <4>3. QED
        BY <1>5, <4>1, <4>2
    <3>2. CASE NextMessage = Message("start", o) /\ running # o
      <4>1. 1 \in 1 .. n /\ IsStart(1, o)
        BY <1>2, <3>2 DEF IsStart
      <4>2. PICK j \in 1 .. n : j > 1 /\ IsStop(j, o)
        BY <3>2, <4>1 DEF Orderly, StopsCome
      <4>3. QED
        BY <1>5, <4>2
    <3>3. QED
      BY <2>1, <3>1, <3>2
  <2>2. ASSUME NEW o \in Objects, NEW i \in 1 .. n - 1, IsStart(i, o)', running # o
        PROVE  \E j \in 1 .. n - 1 : j > i /\ IsStop(j, o)'
    <3>1. i + 1 \in 1 .. n /\ IsStart(i + 1, o)
      BY <1>2, <2>2 DEF IsStart
    <3>2. PICK j \in 1 .. n : j > i + 1 /\ IsStop(j, o)
      BY <2>2, <3>1 DEF Orderly, StopsCome
    <3>3. j > 1 /\ j - 1 > i
      BY <3>2
    <3>4. QED
      BY <1>5, <3>2, <3>3
  <2>3. QED
    BY <2>1, <2>2 DEF StopsCome
<1>8. StopsFirst'
  <2>1. ASSUME NEW o \in Objects, NEW p \in Objects, NEW i \in 1 .. n - 1, Holds(p)',
               IsStart(i, o)', o # p
        PROVE  \E j \in 1 .. n - 1 : j < i /\ IsStop(j, p)'
    <3>1. i + 1 \in 1 .. n /\ IsStart(i + 1, o)
      BY <1>2, <2>1 DEF IsStart
    <3>2. \E j \in 1 .. n : 1 < j /\ j < i + 1 /\ IsStop(j, p)
      <4>1. CASE Holds(p) /\ NextMessage # Message("stop", p)
        <5>1. PICK j \in 1 .. n : j < i + 1 /\ IsStop(j, p)
          BY <2>1, <3>1, <4>1 DEF Orderly, StopsFirst
        <5>2. j # 1
          BY <1>2, <4>1, <5>1 DEF IsStop
        <5>3. QED
          BY <5>1, <5>2
      <4>2. CASE NextMessage = Message("start", p)
        <5>1. 1 \in 1 .. n /\ IsStart(1, p) /\ 1 < i + 1
          BY <1>2, <4>2 DEF IsStart
        <5>2. QED
          BY <2>1, <3>1, <5>1 DEF Orderly, StopsFirst
      <4>3. QED
        BY <2>1, <4>1, <4>2
    <3>3. PICK j \in 1 .. n : 1 < j /\ j < i + 1 /\ IsStop(j, p)
      BY <3>2
    <3>4. j - 1 < i
      BY <3>3
    <3>5. QED
      BY <1>5, <3>3, <3>4
  <2>2. ASSUME NEW o \in Objects, NEW p \in Objects, NEW i \in 1 .. n - 1,
               NEW k \in 1 .. n - 1, IsStart(i, p)', i < k, IsStart(k, o)', o # p
        PROVE  \E j \in 1 .. n - 1 : i < j /\ j < k /\ IsStop(j, p)'
    <3>1. /\ i + 1 \in 1 .. n /\ IsStart(i + 1, p)
          /\ k + 1 \in 1 .. n /\ IsStart(k + 1, o) /\ i + 1 < k + 1
      BY <1>2, <2>2 DEF IsStart
    <3>2. PICK j \in 1 .. n : i + 1 < j /\ j < k + 1 /\ IsStop(j, p)
      BY <2>2, <3>1 DEF Orderly, StopsFirst
    <3>3. 1 < j /\ i < j - 1 /\ j - 1 < k
      BY <3>2
    <3>4. QED
      BY <1>5, <3>2, <3>3
  <2>3. QED
    BY <2>1, <2>2 DEF StopsFirst
<1>9. QED
  BY <1>6, <1>7, <1>8

(* What runs is still started last.                                        *)
LEMMA PoppedRunsOn ==
  ASSUME ServiceType, Orderly, inbox # << >>, inbox' = Tail(inbox), UNCHANGED running,
         running # null => \/ Holds(running)' \/ failed'
                           \/ \E i \in 1 .. Len(inbox) : i > 1 /\ IsStart(i, running)
  PROVE  RunsOn'
<1> SUFFICES ASSUME running # null PROVE RunsOn'
  BY DEF RunsOn
<1>1. PICK n \in Nat : n = Len(inbox)
  BY DEF ServiceType
<1>2. /\ n \in Nat \ {0}
      /\ \A i \in 1 .. n - 1 : i + 1 \in 1 .. n /\ inbox'[i] = inbox[i + 1]
  BY <1>1, Popped
<1>3. Len(inbox) = n /\ Len(inbox') = n - 1
  BY <1>1, Popped
<1> USE <1>3
<1>4. PICK r \in Objects : r = running
  BY DEF ServiceType
<1>5. ASSUME NEW j \in 1 .. n, j > 1, IsStart(j, r)
      PROVE  j - 1 \in 1 .. n - 1 /\ IsStart(j - 1, r)'
  <2>1. PICK k \in 1 .. n - 1 : k = j - 1 /\ k + 1 = j
    BY <1>2, <1>5
  <2>2. IsStart(k, r)'
    BY <1>2, <1>5, <2>1 DEF IsStart
  <2>3. QED
    BY <2>1, <2>2
<1>6. \A i \in 1 .. n - 1 : ~IsStop(i, r)'
  BY <1>2, <1>4 DEF Orderly, RunsOn, IsStop
<1>7. ASSUME NEW o \in Objects, NEW k \in 1 .. n - 1, IsStart(k, o)', o # r
      PROVE  \E i \in 1 .. n - 1 : k < i /\ IsStart(i, r)'
  <2>1. k + 1 \in 1 .. n /\ IsStart(k + 1, o)
    BY <1>2, <1>7 DEF IsStart
  <2>2. PICK i \in 1 .. n : k + 1 < i /\ IsStart(i, r)
    BY <1>4, <1>7, <2>1 DEF Orderly, RunsOn
  <2>3. i > 1 /\ k < i - 1
    BY <2>2
  <2>4. QED
    BY <1>5, <2>2, <2>3
<1>8. Holds(r)' \/ failed' \/ \E i \in 1 .. n - 1 : IsStart(i, r)'
  <2>1. CASE \E i \in 1 .. n : i > 1 /\ IsStart(i, r)
    BY <1>5, <2>1
  <2>2. QED
    BY <1>4, <2>1 DEF Holds
<1>9. QED
  BY <1>4, <1>6, <1>7, <1>8 DEF RunsOn, Holds, IsStart, IsStop

(* When a service is to be started, nobody else has the camera.            *)
LEMMA CameraFree ==
  ASSUME ServiceType, Orderly, NEW o \in Objects, inbox # << >>,
         NextMessage = Message("start", o)
  PROVE  Free(o)
<1>1. IsStart(1, o) /\ Len(inbox) \in Nat /\ 1 \in 1 .. Len(inbox)
  BY DEF IsStart, NextMessage, ServiceType
<1>2. \A p \in Objects : p # o => ~Holds(p)
  <2> SUFFICES ASSUME NEW p \in Objects, p # o, Holds(p) PROVE FALSE
    OBVIOUS
  <2>1. \E j \in 1 .. Len(inbox) : j < 1 /\ IsStop(j, p)
    BY <1>1 DEF Orderly, StopsFirst
  <2>2. QED
    BY <1>1, <2>1
<1>3. CleanUp(hw[o]).cam = "null"
  BY CleanUpFrees DEF Orderly, Nothing
<1>4. QED
  BY <1>2, <1>3 DEF Free, Holds

(* A service that starts, with or without success, keeps the order.        *)
LEMMA RecordsOrder ==
  ASSUME ServiceType, Orderly, inbox # << >>, NextMessage.op = "start",
         Records(NextMessage.object), mQuality \in Qualities
  PROVE  ServiceType' /\ Orderly'
<1>1. PICK o \in Objects : NextMessage = Message("start", o)
  <2>1. inbox[1] = Message(inbox[1].op, inbox[1].object) /\ inbox[1].object \in Objects
    BY MessageKinds DEF ServiceType
  <2>2. NextMessage = inbox[1]
    BY DEF ServiceType, NextMessage
  <2>3. QED
    BY <2>1, <2>2
<1>2. NextMessage.object = o
  BY <1>1 DEF Message
<1>3. Records(o)
  BY <1>2
<1>4. /\ CleanUp(hw[o]) = Nothing
      /\ \A p \in Objects : p # o => hw[p].cam = "null"
  BY <1>3, CleanUpFrees DEF Orderly, Records, Free
<1> DEFINE ready == [cam |-> "unlocked", rec |-> mQuality]
<1>5. mQuality # "none"
  BY DEF Qualities, Quality_FullHD, Quality_HD, Quality_DVD
<1>6. CleanUp(ready) = Nothing
  BY <1>5 DEF CleanUp, releaseMediaRecorder, releaseCamera, Nothing
<1>7. /\ inbox' = Tail(inbox) /\ UNCHANGED <<running, made>>
      /\ fds' = IF fds < FdLimit THEN fds + 1 ELSE fds
      /\ \/ hw' = [hw EXCEPT ![o] = ready]
         \/ hw' = [hw EXCEPT ![o] = Nothing] /\ failed'
  <2>1. /\ inbox' = Tail(inbox) /\ UNCHANGED <<running, made>>
        /\ fds' = IF fds < FdLimit THEN fds + 1 ELSE fds
    BY <1>3 DEF Records, Handled
  <2>2. \/ hw' = [hw EXCEPT ![o] = ready]
        \/ hw' = [hw EXCEPT ![o] = CleanUp(ready)] /\ failed' = TRUE
    BY <1>3 DEF Records
  <2>3. QED
    BY <1>6, <2>1, <2>2
<1>8. /\ \A p \in Objects : p # o => hw'[p] = hw[p]
      /\ hw'[o] = [cam |-> "unlocked", rec |-> mQuality] \/ (hw'[o] = Nothing /\ failed')
  BY <1>7 DEF ServiceType
<1>9. /\ \A p \in Objects : p # o => ~Holds(p) /\ ~Holds(p)'
      /\ Holds(o)' \/ failed'
      /\ Holds(o)' <=> hw'[o].rec # "none"
  BY <1>4, <1>5, <1>8 DEF Holds, Nothing
<1>10. Camera'
  BY <1>8, <1>9 DEF Orderly, Camera, Holds
<1>11. running # null => \/ Holds(running)' \/ failed'
                         \/ \E i \in 1 .. Len(inbox) : i > 1 /\ IsStart(i, running)
  <2>1. CASE running = o
    BY <1>7, <1>9, <2>1 DEF Holds
  <2>2. CASE running # o /\ running # null
    <3>1. 1 \in 1 .. Len(inbox) /\ IsStart(1, o)
      BY <1>1 DEF IsStart, NextMessage, ServiceType
    <3>2. QED
      BY <2>2, <3>1 DEF Orderly, RunsOn
  <2>3. QED
    BY <2>1, <2>2
<1>12. RunsOn'
  BY <1>7, <1>11, PoppedRunsOn
<1>13. Numbered' /\ StopsCome' /\ StopsFirst'
  BY <1>1, <1>7, <1>9, PoppedOrder
<1>14. ServiceType'
  <2>1. inbox' \in Seq(Messages)
    BY <1>7 DEF ServiceType
  <2>2. hw' \in [Objects -> [cam : {"null", "unlocked"}, rec : Qualities \cup {"none"}]]
    <3>1. [cam |-> "unlocked", rec |-> mQuality] \in
            [cam : {"null", "unlocked"}, rec : Qualities \cup {"none"}]
      OBVIOUS
    <3>2. Nothing \in [cam : {"null", "unlocked"}, rec : Qualities \cup {"none"}]
      BY DEF Nothing
    <3>3. QED
      BY <1>7, <3>1, <3>2 DEF ServiceType
  <2>3. fds' \in 0 .. FdLimit
    BY <1>7, PlayAssumption DEF ServiceType
  <2>4. QED
    BY <1>7, <2>1, <2>2, <2>3 DEF ServiceType
<1>15. QED
  BY <1>10, <1>12, <1>13, <1>14 DEF Orderly

(* So does destroying one.                                                 *)
LEMMA DestroyOrder ==
  ASSUME ServiceType, Orderly, onDestroy
  PROVE  ServiceType' /\ Orderly'
<1>1. PICK o \in Objects : NextMessage = Message("stop", o)
  <2>1. inbox[1] = Message(inbox[1].op, inbox[1].object) /\ inbox[1].object \in Objects
    BY MessageKinds DEF ServiceType, onDestroy
  <2>2. NextMessage = inbox[1]
    BY DEF ServiceType, NextMessage, onDestroy
  <2>3. QED
    BY <2>1, <2>2 DEF onDestroy
<1>2. NextMessage.object = o
  BY <1>1 DEF Message
<1>3. /\ hw' = [hw EXCEPT ![o] = Nothing] /\ inbox # << >> /\ inbox' = Tail(inbox)
      /\ UNCHANGED <<running, made, fds, failed>>
  BY <1>2, CleanUpFrees DEF onDestroy, Handled, Orderly
<1>4. \A p \in Objects : Holds(p)' <=> Holds(p) /\ p # o
  BY <1>3 DEF ServiceType, Holds, Nothing
<1>5. Camera'
  BY <1>3, <1>4 DEF ServiceType, Orderly, Camera, Holds, Nothing
<1>6. IsStop(1, o) /\ 1 \in 1 .. Len(inbox)
  BY <1>1, <1>3 DEF IsStop, NextMessage, ServiceType
<1>7. running # o
  BY <1>6 DEF Orderly, RunsOn, Objects, null
<1>8. \A p \in Objects : NextMessage = Message("stop", p) => p = o
  BY <1>1, MessageKinds
<1>9. running # null => \/ Holds(running)' \/ failed'
                        \/ \E i \in 1 .. Len(inbox) : i > 1 /\ IsStart(i, running)
  <2>1. CASE running # null
    <3>1. PICK r \in Objects : r = running
      BY <2>1 DEF ServiceType
    <3>2. Holds(r) \/ failed \/ \E i \in 1 .. Len(inbox) : IsStart(i, r)
      BY <2>1, <3>1 DEF Orderly, RunsOn
    <3>3. \A i \in 1 .. Len(inbox) : IsStart(i, r) => i > 1
      BY <1>6, MessageKinds DEF IsStart, IsStop
    <3>4. Holds(r) => Holds(r)'
      BY <1>4, <1>7, <3>1
    <3>5. Holds(r)' => Holds(running)'
      BY <1>3, <3>1 DEF Holds
    <3>6. QED
      BY <1>3, <3>1, <3>2, <3>3, <3>4, <3>5
  <2>2. QED
    BY <2>1
<1>10. RunsOn'
  BY <1>3, <1>9, PoppedRunsOn
<1>11. Numbered' /\ StopsCome' /\ StopsFirst'
  BY <1>3, <1>4, <1>8, PoppedOrder
<1>12. ServiceType'
  <2>1. inbox' \in Seq(Messages)
    BY <1>3 DEF ServiceType
  <2>2. Nothing \in [cam : {"null", "unlocked"}, rec : Qualities \cup {"none"}]
    BY DEF Nothing
  <2>3. QED
    BY <1>3, <2>1, <2>2 DEF ServiceType
<1>13. QED
  BY <1>5, <1>10, <1>11, <1>12 DEF Orderly


(***************************************************************************)
(* One step.                                                               *)
(***************************************************************************)

(* What a step does to the activity manager, the camera and the faults.    *)
Stopping == stopService /\ UNCHANGED hwVars
Starting == startService /\ UNCHANGED hwVars
Recording == /\ inbox # << >> /\ NextMessage.op = "start"
             /\ Records(NextMessage.object)

(* Every step does one of these to them, or nothing.                       *)
LEMMA Effects ==
  [Next]_vars => \/ UNCHANGED <<amsVars, hwVars>>
                 \/ Stopping \/ Starting \/ Crash \/ Recording \/ onDestroy
<1> SUFFICES ASSUME [Next]_vars
             PROVE  \/ UNCHANGED <<amsVars, hwVars>>
                    \/ Stopping \/ Starting \/ Crash \/ Recording \/ onDestroy
  OBVIOUS
<1>1. CASE Launch \/ OnStop \/ Exit \/ CmdStop \/ Background \/ CheckPassword
           \/ Attach \/ Deliver \/ SetKey
  BY <1>1 DEF Launch, OnStop, Exit, CmdStop, Background, CheckPassword, Attach, Deliver,
     SetKey, Stopping
<1>2. ASSUME NEW q \in Choices, LaunchRestart(q) \/ OnPlay(q) \/ Choose(q)
      PROVE  UNCHANGED <<amsVars, hwVars>> \/ Stopping
  BY <1>2 DEF LaunchRestart, OnPlay, Choose, Stopping
<1>3. ASSUME NEW s \in Starters, StarterStep(s)
      PROVE  UNCHANGED <<amsVars, hwVars>> \/ Starting \/ Crash
  BY <1>3 DEF StarterStep, Buttons, Start, Connect, PickQuality, Send, Starting
<1>4. CASE onStartCommand
  BY <1>4 DEF onStartCommand, NoCamera, Recording
<1>5. CASE UNCHANGED vars
  BY <1>5 DEF vars
<1>6. QED
  BY <1>1, <1>2, <1>3, <1>4, <1>5 DEF Next, User, MainStep

(* Every step keeps the order of the services.                             *)
LEMMA ServiceStep ==
  TypeOK /\ Begun /\ Counting /\ Orderly /\ [Next]_vars => ServiceType' /\ Orderly'
<1> SUFFICES ASSUME TypeOK, Begun, Counting, Orderly, [Next]_vars
             PROVE  ServiceType' /\ Orderly'
  OBVIOUS
<1>0. ServiceType /\ mQuality \in Qualities /\ made' \in 0 .. MaxPlays
  BY CountingStep DEF TypeOK, StarterType
<1>1. CASE UNCHANGED <<amsVars, hwVars>>
  <2>1. UNCHANGED running /\ UNCHANGED made /\ UNCHANGED inbox /\ UNCHANGED hw
        /\ UNCHANGED fds /\ UNCHANGED failed
    BY <1>1 DEF amsVars, hwVars
  <2>2. ServiceType'
    BY <1>0, <2>1 DEF ServiceType
  <2>3. Camera' /\ Numbered' /\ StopsCome'
    BY <2>1 DEF Orderly, Camera, Numbered, StopsCome, Holds, IsStart, IsStop
  <2>4. StopsFirst'
    BY <2>1 DEF Orderly, StopsFirst, Holds, IsStart, IsStop
  <2>5. RunsOn'
    BY <2>1 DEF Orderly, RunsOn, Holds, IsStart, IsStop
  <2>6. QED
    BY <2>2, <2>3, <2>4, <2>5 DEF Orderly
<1>2. CASE Stopping
  BY <1>0, <1>2, StopServiceOrder DEF Stopping, hwVars
<1>3. CASE Starting
  BY <1>0, <1>3, StartServiceOrder DEF Starting, hwVars
<1>4. CASE Crash
  <2>1. /\ running' = null /\ inbox' = << >> /\ fds' = 0 /\ UNCHANGED made
        /\ hw' = [o \in Objects |-> Nothing]
    BY <1>4 DEF Crash
  <2>2. Nothing \in [cam : {"null", "unlocked"}, rec : Qualities \cup {"none"}]
    BY DEF Nothing
  <2>3. ServiceType'
    BY <1>0, <2>1, <2>2, PlayAssumption DEF ServiceType
  <2>4. \A o \in Objects : ~Holds(o)' /\ hw'[o].rec = "none"
    BY <2>1 DEF Holds, Nothing
  <2>5. Camera'
    BY <2>4 DEF Camera
  <2>6. Len(inbox') = 0 /\ null <= made
    BY <1>0, <2>1 DEF null, ServiceType
  <2>7. Numbered' /\ StopsCome' /\ StopsFirst' /\ RunsOn'
    BY <2>1, <2>4, <2>6 DEF Numbered, StopsCome, StopsFirst, RunsOn
  <2>8. QED
    BY <2>3, <2>5, <2>7 DEF Orderly
<1>5. CASE Recording
  BY <1>0, <1>5, RecordsOrder DEF Recording
<1>6. CASE onDestroy
  BY <1>0, <1>6, DestroyOrder
<1>7. QED
  BY <1>1, <1>2, <1>3, <1>4, <1>5, <1>6, Effects

(* What the daemon is told keeps its type.                                 *)
LEMMA DaemonStep == TypeOK /\ [Next]_vars => DaemonType'
<1> SUFFICES ASSUME TypeOK, [Next]_vars PROVE DaemonType'
  OBVIOUS
<1>0. DaemonType /\ StarterType /\ bCheckPassword \in BOOLEAN
  BY DEF TypeOK, UiType
<1>1. CASE UNCHANGED daemonVars
  BY <1>0, <1>1 DEF daemonVars, DaemonType
<1>2. CASE Crash
  BY <1>0, <1>2 DEF Crash, DaemonType
<1>3. ASSUME NEW s \in Starters, Send(s) PROVE DaemonType'
  <2>1. Command(s) \in [by : Starters \cup {null}, quality : Qualities \cup {"same"},
                        key : BOOLEAN]
    BY <1>0 DEF Command, StarterType
  <2>2. QED
    BY <1>0, <1>3, <2>1 DEF Send, DaemonType
<1>4. CASE SetKey
  <2>1. [by |-> null, quality |-> "same", key |-> TRUE] \in
          [by : Starters \cup {null}, quality : Qualities \cup {"same"}, key : BOOLEAN]
    OBVIOUS
  <2>2. UNCHANGED daemon /\ mail' = mail \cup {[by |-> null, quality |-> "same", key |-> TRUE]}
    BY <1>4 DEF SetKey
  <2>3. QED
    BY <1>0, <2>1, <2>2 DEF DaemonType
<1>5. CASE Deliver
  <2>1. PICK m \in mail : /\ mail' = mail \ {m}
                          /\ daemon' = [quality |-> IF m.quality = "same" THEN daemon.quality
                                                                          ELSE m.quality,
                                        key |-> m.key]
    BY <1>5 DEF Deliver
  <2>2. m \in [by : Starters \cup {null}, quality : Qualities \cup {"same"}, key : BOOLEAN]
    BY <1>0 DEF DaemonType
  <2>3. daemon' \in [quality : Qualities, key : BOOLEAN]
    BY <1>0, <2>1, <2>2 DEF DaemonType
  <2>4. QED
    BY <1>0, <2>1, <2>3 DEF DaemonType
<1>6. CASE Launch \/ OnStop \/ Exit \/ CmdStop \/ Background \/ CheckPassword
           \/ Attach \/ onDestroy
  BY <1>1, <1>6 DEF Launch, OnStop, Exit, CmdStop, Background, CheckPassword, Attach, onDestroy
<1>7. ASSUME NEW q \in Choices, LaunchRestart(q) \/ OnPlay(q) \/ Choose(q) PROVE DaemonType'
  BY <1>1, <1>7 DEF LaunchRestart, OnPlay, Choose
<1>8. CASE onStartCommand
  BY <1>1, <1>2, <1>8 DEF onStartCommand, NoCamera, Records
<1>9. ASSUME NEW s \in Starters, StarterStep(s) PROVE DaemonType'
  BY <1>1, <1>2, <1>3, <1>9 DEF StarterStep, Buttons, Start, Connect, PickQuality
<1>10. QED
  BY <1>1, <1>4, <1>5, <1>6, <1>7, <1>8, <1>9 DEF Next, User, MainStep, vars

(* The flags of the history are flags.                                     *)
LEMMA HistoryStep == HistoryType /\ TypeOK /\ [Next]_vars => HistoryType'
<1> SUFFICES ASSUME HistoryType, TypeOK, [Next]_vars PROVE HistoryType'
  OBVIOUS
<1>1. CASE UNCHANGED <<failed, historyVars>>
  BY <1>1 DEF HistoryType, historyVars, faultVars
<1>2. CASE Crash /\ (faulty' = TRUE \/ \E o : faulty' = (faulty \/ Free(o)))
  BY <1>2 DEF Crash, HistoryType
<1>3. ASSUME NEW q \in Choices, LaunchRestart(q) \/ OnPlay(q) \/ Choose(q) PROVE HistoryType'
  <2>1. InFlight \in BOOLEAN
    BY DEF InFlight
  <2>2. QED
    BY <1>1, <1>3, <2>1 DEF LaunchRestart, OnPlay, Choose, NewStarter, HistoryType, hwVars, faultVars
<1>4. CASE Launch \/ OnStop \/ Exit \/ CmdStop \/ Background \/ CheckPassword \/ Attach
           \/ Deliver \/ SetKey \/ onDestroy
  BY <1>1, <1>4 DEF Launch, OnStop, Exit, CmdStop, Background, CheckPassword, Attach, Deliver,
     SetKey, onDestroy, Orders, HistoryType, hwVars, faultVars, historyVars
<1>5. CASE onStartCommand
  <2>1. CASE Records(NextMessage.object)
    BY <2>1 DEF Records, HistoryType, historyVars, faultVars
  <2>2. CASE NoCamera(NextMessage.object)
    BY <1>2, <2>2 DEF NoCamera
  <2>3. QED
    BY <1>5, <2>1, <2>2 DEF onStartCommand
<1>6. ASSUME NEW s \in Starters, StarterStep(s) PROVE HistoryType'
  BY <1>1, <1>2, <1>6 DEF StarterStep, Buttons, Start, Connect, PickQuality, Send, HistoryType,
     hwVars, faultVars, historyVars
<1>7. QED
  BY <1>1, <1>3, <1>4, <1>5, <1>6 DEF Next, User, MainStep, vars, hwVars

(* A crash is the fault of another application or of a late thread: when a *)
(* service is to be started, the camera is free.                           *)
LEMMA CrashStep ==
  ServiceType /\ Orderly /\ OnlyOthersCrash /\ [Next]_vars => OnlyOthersCrash'
<1> SUFFICES ASSUME ServiceType, Orderly, OnlyOthersCrash, [Next]_vars PROVE OnlyOthersCrash'
  OBVIOUS
<1>1. CASE UNCHANGED <<faulty, crashed>>
  BY <1>1 DEF OnlyOthersCrash
<1>2. CASE Launch \/ OnStop \/ Exit \/ CmdStop \/ Background \/ CheckPassword \/ Attach
           \/ Deliver \/ SetKey \/ onDestroy
  BY <1>1, <1>2 DEF Launch, OnStop, Exit, CmdStop, Background, CheckPassword, Attach, Deliver,
     SetKey, onDestroy, faultVars, historyVars
<1>3. ASSUME NEW q \in Choices, LaunchRestart(q) \/ OnPlay(q) \/ Choose(q) PROVE OnlyOthersCrash'
  BY <1>1, <1>3 DEF LaunchRestart, OnPlay, Choose, faultVars, historyVars
<1>4. CASE onStartCommand
  <2>1. CASE Records(NextMessage.object)
    BY <1>1, <2>1 DEF Records, historyVars, faultVars
  <2>2. CASE NoCamera(NextMessage.object)
    <3>1. inbox[1] = Message(inbox[1].op, inbox[1].object) /\ inbox[1].object \in Objects
      BY <1>4, MessageKinds DEF ServiceType, onStartCommand
    <3>2. NextMessage = inbox[1] /\ NextMessage.op = "start" /\ inbox # << >>
      BY <1>4 DEF ServiceType, NextMessage, onStartCommand
    <3>3. Free(NextMessage.object)
      BY <3>1, <3>2, CameraFree
    <3>4. faulty' = TRUE
      BY <2>2, <3>3 DEF NoCamera
    <3>5. QED
      BY <3>4 DEF OnlyOthersCrash
  <2>3. QED
    BY <1>4, <2>1, <2>2 DEF onStartCommand
<1>5. ASSUME NEW s \in Starters, StarterStep(s) PROVE OnlyOthersCrash'
  <2>1. CASE Buttons(s)
    BY <1>1, <2>1 DEF Buttons, OnlyOthersCrash, historyVars, faultVars
  <2>2. QED
    BY <1>1, <1>5, <2>1 DEF StarterStep, Start, Connect, PickQuality, Send, faultVars, historyVars
<1>6. QED
  BY <1>1, <1>2, <1>3, <1>4, <1>5 DEF Next, User, MainStep, vars, historyVars, faultVars

(* After an order to stop nothing runs, after an order to play something   *)
(* does or a thread is about to start it.                                  *)
StopHolds == ~want /\ ~overtaken => running = null
PlayHolds == want => running # null \/ \E s \in Starters : at[s] \in {"buttons", "start"}

(* Both hold after every step.                                             *)
LEMMA OrdersStep ==
  ASSUME TypeOK, [Next]_vars, StopHolds, PlayHolds
  PROVE  StopHolds' /\ PlayHolds'
<1>0. StarterType /\ want \in BOOLEAN /\ overtaken \in BOOLEAN /\ running \in Objects \cup {null}
      /\ made \in Nat
  BY PlayAssumption DEF TypeOK, ServiceType, HistoryType
<1>1. CASE UNCHANGED <<want, overtaken, running, at>>
  BY <1>1 DEF StopHolds, PlayHolds
<1>2. CASE Launch \/ Attach \/ Background \/ CheckPassword \/ Deliver \/ SetKey \/ onDestroy
           \/ (\E q \in Choices : Choose(q))
  BY <1>1, <1>2 DEF Launch, Attach, Background, CheckPassword, Deliver, SetKey, onDestroy, Choose,
     historyVars, amsVars, starterVars
<1>3. CASE OnStop \/ Exit \/ CmdStop
  BY <1>3 DEF OnStop, Exit, CmdStop, Orders, stopService, StopHolds, PlayHolds
<1>4. CASE Crash
  BY <1>4 DEF Crash, StopHolds, PlayHolds
<1>5. CASE onStartCommand
  BY <1>1, <1>4, <1>5 DEF onStartCommand, NoCamera, Records, historyVars, starterVars
<1>6. ASSUME NEW q \in Choices, LaunchRestart(q) \/ OnPlay(q)
      PROVE  StopHolds' /\ PlayHolds'
  <2>1. /\ want' = TRUE /\ starters < MaxPlays
        /\ \E w \in {"buttons", "start"} : at' = [at EXCEPT ![starters + 1] = w]
    BY <1>6 DEF LaunchRestart, OnPlay, NewStarter
  <2>2. starters + 1 \in Starters
    BY <1>0, <2>1, PlayAssumption DEF StarterType, Starters
  <2>3. at'[starters + 1] \in {"buttons", "start"}
    BY <1>0, <2>1, <2>2 DEF StarterType
  <2>4. QED
    BY <2>1, <2>2, <2>3 DEF StopHolds, PlayHolds
<1>7. ASSUME NEW s \in Starters, StarterStep(s)
      PROVE  StopHolds' /\ PlayHolds'
  <2> USE DEF Goto
  <2>1. CASE Buttons(s) /\ ~Crash
    <3>1. UNCHANGED <<want, overtaken, running>> /\ at' = [at EXCEPT ![s] = "start"]
      BY <2>1 DEF Buttons, historyVars, amsVars
    <3>2. at'[s] = "start"
      BY <1>0, <3>1 DEF StarterType
    <3>3. QED
      BY <3>1, <3>2 DEF StopHolds, PlayHolds
  <2>2. CASE Start(s)
    <3>1. running' # null
      BY <1>0, <2>2 DEF Start, startService, null
    <3>2. ~want' => overtaken'
      BY <2>2 DEF Start
    <3>3. QED
      BY <3>1, <3>2 DEF StopHolds, PlayHolds
  <2>3. CASE Connect(s) \/ PickQuality(s) \/ Send(s)
    <3>1. UNCHANGED <<want, overtaken, running>> /\ at[s] \in {"connect", "choose", "send"}
          /\ \E w \in {"choose", "send", "done"} : at' = [at EXCEPT ![s] = w]
      BY <2>3 DEF Connect, PickQuality, Send, Leave, amsVars, historyVars
    <3>2. \A t \in Starters : at[t] \in {"buttons", "start"} => at'[t] = at[t]
      BY <1>0, <3>1 DEF StarterType
    <3>3. QED
      BY <3>1, <3>2 DEF StopHolds, PlayHolds
  <2>4. QED
    BY <1>4, <1>7, <2>1, <2>2, <2>3 DEF StarterStep
<1>8. QED
  BY <1>1, <1>2, <1>3, <1>5, <1>6, <1>7 DEF Next, User, MainStep, vars, amsVars, starterVars,
     historyVars

(***************************************************************************)
(* What the daemon announces, while no second play is in flight.           *)
(***************************************************************************)

(* One thread is in flight or one message, and what it says is what the    *)
(* activity wants.                                                         *)
OneInFlight == /\ \A s, t \in Starters : Alive(s) /\ Alive(t) => s = t
               /\ \A s \in Starters : Alive(s) => mail = {}
               /\ \A m, k \in mail : m = k
Truthful == /\ \A s \in Starters : at[s] = "send" => picked[s] = mQuality
            /\ \A m \in mail : m.quality = mQuality /\ m.key = bCheckPassword
Told == ~InFlight => daemon = [quality |-> mQuality, key |-> bCheckPassword]
Announcing == ~muddled => OneInFlight /\ Truthful /\ Told

(* Every step keeps it, or muddles it.                                     *)
LEMMA AnnouncingStep ==
  ASSUME TypeOK, Begun, [Next]_vars, Announcing
  PROVE  Announcing'
<1> SUFFICES ASSUME ~muddled' PROVE (OneInFlight /\ Truthful /\ Told)'
  BY DEF Announcing
<1>0. StarterType /\ muddled \in BOOLEAN /\ mQuality \in Qualities
  BY DEF TypeOK, StarterType, HistoryType
<1>1. CASE UNCHANGED <<muddled, at, picked, mQuality, mail, daemon, bCheckPassword>>
  <2>1. OneInFlight /\ Truthful /\ Told
    BY <1>1 DEF Announcing
  <2>2. OneInFlight' /\ Truthful'
    BY <1>1, <2>1 DEF OneInFlight, Truthful, Alive
  <2>3. InFlight' <=> InFlight
    BY <1>1 DEF InFlight, Alive
  <2>4. Told'
    BY <1>1, <2>1, <2>3 DEF Told
  <2>5. QED
    BY <2>2, <2>4
<1>2. CASE Launch \/ Attach \/ Background \/ OnStop \/ Exit \/ CmdStop \/ onDestroy
           \/ (\E q \in Choices : Choose(q))
  BY <1>1, <1>2 DEF Launch, Attach, Background, OnStop, Exit, CmdStop, onDestroy, Choose,
     historyVars, daemonVars, starterVars, uiVars
<1>3. CASE CheckPassword \/ SetKey \/ Crash
  BY <1>3 DEF CheckPassword, SetKey, Crash
<1>4. CASE onStartCommand
  BY <1>1, <1>3, <1>4 DEF onStartCommand, NoCamera, Records, historyVars, daemonVars, starterVars,
     uiVars
<1>5. ASSUME NEW q \in Choices, LaunchRestart(q) \/ OnPlay(q)
      PROVE  (OneInFlight /\ Truthful /\ Told)'
  <2>1. /\ ~InFlight /\ starters < MaxPlays /\ UNCHANGED mail
        /\ \E w \in {"buttons", "start"} : at' = [at EXCEPT ![starters + 1] = w]
    BY <1>5 DEF LaunchRestart, OnPlay, NewStarter, daemonVars
  <2>2. starters + 1 \in Starters
    BY <1>0, <2>1, PlayAssumption DEF StarterType, Starters
  <2>3. at'[starters + 1] \in {"buttons", "start"}
        /\ \A s \in Starters : s # starters + 1 => at'[s] = at[s]
    BY <1>0, <2>1, <2>2 DEF StarterType
  <2>4. mail' = {} /\ \A s \in Starters : Alive(s)' => s = starters + 1
    BY <2>1, <2>3 DEF InFlight, Alive
  <2>5. \A s \in Starters : at'[s] # "send"
    BY <2>3, <2>4 DEF Alive
  <2>6. InFlight'
    <3>1. at'[starters + 1] \notin {"none", "done"}
      BY <2>3
    <3>2. PICK s \in Starters : s = starters + 1
      BY <2>2
    <3>3. Alive(s)'
      BY <3>1, <3>2 DEF Alive
    <3>4. QED
      BY <3>3 DEF InFlight
  <2>7. QED
    BY <2>4, <2>5, <2>6 DEF OneInFlight, Truthful, Told
<1>6. ASSUME NEW s \in Starters, StarterStep(s), ~Crash
      PROVE  (OneInFlight /\ Truthful /\ Told)'
  <2> USE DEF Goto
  <2>1. ~muddled
    BY <1>6 DEF StarterStep, Buttons, Start, Connect, PickQuality, Send, historyVars
  <2>2. OneInFlight /\ Truthful
    BY <2>1 DEF Announcing
  <2>3. Alive(s) /\ mail = {} /\ \A t \in Starters : Alive(t) => t = s
    <3>1. at[s] \in {"buttons", "start", "connect", "choose", "send"}
      BY <1>6 DEF StarterStep, Buttons, Start, Connect, PickQuality, Send
    <3>2. QED
      BY <2>2, <3>1 DEF Alive, OneInFlight
  <2>4. ASSUME NEW w \in {"start", "connect", "choose", "send"}, at' = [at EXCEPT ![s] = w],
               w = "send" => picked'[s] = mQuality', UNCHANGED mail
        PROVE  (OneInFlight /\ Truthful /\ Told)'
    <3>1. at'[s] = w /\ \A t \in Starters : t # s => at'[t] = at[t]
      BY <1>0, <2>4 DEF StarterType
    <3>2. mail' = {} /\ Alive(s)' /\ \A t \in Starters : Alive(t)' => t = s
      BY <2>3, <2>4, <3>1 DEF Alive
    <3>3. InFlight'
      BY <3>2 DEF InFlight
    <3>4. \A t \in Starters : at'[t] = "send" => t = s /\ w = "send"
      BY <3>1, <3>2 DEF Alive
    <3>5. QED
      BY <2>4, <3>2, <3>3, <3>4 DEF OneInFlight, Truthful, Told
  <2>5. CASE Buttons(s)
    BY <1>6, <2>4, <2>5 DEF Buttons, daemonVars
  <2>6. CASE Start(s)
    BY <2>4, <2>6 DEF Start, daemonVars
  <2>7. CASE Connect(s)
    BY <2>4, <2>7 DEF Connect, daemonVars
  <2>8. CASE PickQuality(s)
    <3>1. picked'[s] = mQuality'
      BY <1>0, <2>8 DEF PickQuality, StarterType
    <3>2. QED
      BY <2>4, <2>8, <3>1 DEF PickQuality, daemonVars
  <2>9. CASE Send(s)
    <3>1. mail' = {Command(s)} /\ at' = [at EXCEPT ![s] = "done"]
          /\ UNCHANGED mQuality /\ UNCHANGED bCheckPassword /\ at[s] = "send"
      BY <2>3, <2>9 DEF Send, Leave, uiVars
    <3>2. \A t \in Starters : ~Alive(t)' /\ at'[t] # "send"
      BY <1>0, <2>3, <3>1 DEF Alive, StarterType
    <3>3. Command(s).quality = mQuality /\ Command(s).key = bCheckPassword
      BY <2>2, <3>1 DEF Command, Truthful
    <3>4. InFlight'
      BY <3>1 DEF InFlight
    <3>5. QED
      BY <3>1, <3>2, <3>3, <3>4 DEF OneInFlight, Truthful, Told
  <2>10. QED
    BY <1>6, <2>5, <2>6, <2>7, <2>8, <2>9 DEF StarterStep
<1>7. CASE Deliver
  <2>1. ~muddled /\ UNCHANGED <<at, picked, mQuality, bCheckPassword>>
    BY <1>7 DEF Deliver, starterVars, uiVars
  <2>2. OneInFlight /\ Truthful
    BY <2>1 DEF Announcing
  <2>3. PICK m \in mail : /\ mail' = mail \ {m}
                          /\ daemon' = [quality |-> IF m.quality = "same" THEN daemon.quality
                                                                          ELSE m.quality,
                                        key |-> m.key]
    BY <1>7 DEF Deliver
  <2>4. m.quality = mQuality /\ m.key = bCheckPassword /\ mail' = {}
    BY <2>2, <2>3 DEF OneInFlight, Truthful
  <2>5. mQuality # "same"
    BY <1>0 DEF Qualities, Quality_FullHD, Quality_HD, Quality_DVD
  <2>6. daemon' = [quality |-> mQuality, key |-> bCheckPassword]
    BY <2>3, <2>4, <2>5
  <2>7. \A s \in Starters : ~Alive(s)
    BY <2>2, <2>3 DEF OneInFlight
  <2>8. QED
    BY <2>1, <2>2, <2>4, <2>6, <2>7 DEF OneInFlight, Truthful, Told, Alive
<1>8. QED
  BY <1>1, <1>2, <1>3, <1>4, <1>5, <1>6, <1>7 DEF Next, User, MainStep, vars, starterVars,
     daemonVars, historyVars, uiVars

(***************************************************************************)
(* The theorems.                                                           *)
(***************************************************************************)

IInv == /\ TypeOK /\ Begun /\ Counting /\ Orderly
        /\ OnlyOthersCrash /\ StopHolds /\ PlayHolds /\ Announcing

(* The program begins in order.                                            *)
LEMMA InitInvariant == Init => IInv
<1> SUFFICES ASSUME Init PROVE IInv
  OBVIOUS
<1>1. Quality_FullHD \in Qualities /\ Quality_DVD \in Qualities
  BY DEF Qualities
<1>2. UiType /\ StarterType
  <2>1. UiType
    <3>1. bCheckPassword \in BOOLEAN
      BY DEF Init
    <3>2. activities \in 0 .. MaxActivities
      BY PlayAssumption DEF Init
    <3>3. shown \in {"created", "visible", "gone"} /\ playing \in BOOLEAN
      BY DEF Init
    <3>4. chosen \in [Activities -> Qualities]
      BY <1>1 DEF Init
    <3>5. QED
      BY <3>1, <3>2, <3>3, <3>4 DEF UiType
  <2>2. StarterType
    BY <1>1, PlayAssumption DEF Init, StarterType
  <2>3. QED
    BY <2>1, <2>2
<1>3. ServiceType
  <2>1. Nothing \in [cam : {"null", "unlocked"}, rec : Qualities \cup {"none"}]
    BY DEF Nothing
  <2>2. QED
    BY <2>1, PlayAssumption DEF Init, ServiceType
<1>4. DaemonType
  BY <1>1 DEF Init, DaemonType
<1>5. HistoryType
  BY DEF Init, HistoryType
<1>6. Begun
  BY DEF Init, Begun, Alive
<1>7. Counting
  BY StartersFinite DEF Init, Counting, Started
<1>8. \A o \in Objects : ~Holds(o) /\ hw[o].rec = "none"
  BY DEF Init, Holds, Nothing
<1>9. Orderly
  <2>1. Len(inbox) = 0
    BY DEF Init
  <2>2. QED
    BY <1>8, <2>1 DEF Init, Orderly, Camera, Numbered, StopsCome, StopsFirst, RunsOn, null
<1>10. OnlyOthersCrash /\ StopHolds /\ PlayHolds /\ Announcing
  BY DEF Init, OnlyOthersCrash, StopHolds, PlayHolds, Announcing
<1>11. QED
  BY <1>2, <1>3, <1>4, <1>5, <1>6, <1>7, <1>9, <1>10 DEF IInv, TypeOK

(* The invariant holds for every number of activities and plays, every     *)
(* limit of descriptors and every set of choices.                          *)
THEOREM Invariant == Spec => []IInv
<1>1. IInv /\ [Next]_vars => IInv'
  BY UiStep, CountingStep, ServiceStep, DaemonStep, HistoryStep, CrashStep, OrdersStep,
     AnnouncingStep DEF IInv, TypeOK
<1>2. QED
  BY InitInvariant, <1>1, PTL DEF Spec

(* Every variable keeps its type, and no camera is locked that is not      *)
(* there.                                                                  *)
THEOREM TypeCorrect == Spec => []TypeOK
BY Invariant, PTL DEF IInv

(* Nobody keeps the camera whom no stop will reach: CameraOwned.           *)
THEOREM CameraIsOwned == Spec => []CameraOwned
<1>1. IInv => CameraOwned
  <2> SUFFICES ASSUME IInv PROVE CameraOwned
    OBVIOUS
  <2>1. inbox \in Seq(Messages)
    BY DEF IInv, TypeOK, ServiceType
  <2>2. DOMAIN inbox = 1 .. Len(inbox)
    BY <2>1
  <2>3. QED
    BY <2>2 DEF IInv, Orderly, Camera, StopsCome, CameraOwned, WillStop, IsStop
<1>2. QED
  BY Invariant, <1>1, PTL

(* The process never dies of its own services: OnlyOthersCrash.            *)
THEOREM CrashByOthers == Spec => []OnlyOthersCrash
BY Invariant, PTL DEF IInv

(* The last order wins once all is quiet: after a stop that no start has   *)
(* overtaken nothing runs and no object has the camera (StopWins).         *)
THEOREM StopIsFinal == Spec => []StopWins
<1>1. IInv => StopWins
  <2> SUFFICES ASSUME IInv, Settled, ~want, ~overtaken
               PROVE  ~isStreamingRunning /\ \A o \in Objects : ~Holds(o)
    BY DEF StopWins
  <2>1. running = null /\ \A o \in Objects : o # null
    BY DEF IInv, StopHolds, Objects, null
  <2>2. QED
    BY <2>1 DEF IInv, Orderly, StopsCome, isStreamingRunning, Settled
<1>2. QED
  BY Invariant, <1>1, PTL

(* After a play the service runs and its object records, unless a recorder *)
(* failed (PlayWins).                                                      *)
THEOREM PlayIsObeyed == Spec => []PlayWins
<1>1. IInv => PlayWins
  <2> SUFFICES ASSUME IInv, Settled, want, ~failed
               PROVE  isStreamingRunning /\ hw[running].rec # "none"
    BY DEF PlayWins
  <2>1. Len(inbox) = 0 /\ running \in Objects \cup {null}
    BY DEF Settled, IInv, TypeOK, ServiceType
  <2>2. running # null
    BY DEF IInv, PlayHolds, Settled, InFlight, Alive
  <2>3. Holds(running)
    BY <2>1, <2>2 DEF IInv, Orderly, RunsOn
  <2>4. QED
    BY <2>1, <2>2, <2>3 DEF IInv, Orderly, Camera, isStreamingRunning
<1>2. QED
  BY Invariant, <1>1, PTL

(* A play that nothing muddles puts the daemon right: Announced.           *)
THEOREM AnnouncesRight == Spec => []Announced
<1>1. IInv => Announced
  BY DEF IInv, Announcing, Told, Announced, Settled
<1>2. QED
  BY Invariant, <1>1, PTL

=============================================================================
