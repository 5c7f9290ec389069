----------------------------- MODULE PlayControl -----------------------------
(***************************************************************************)
(* Starting and stopping the stream: MainActivity.java, the camera and the *)
(* recorder of StreamService.java, and what the daemon is told.            *)
(*                                                                         *)
(* Activity and service share the main thread.  startService and           *)
(* stopService only ask the activity manager, which sends the main thread  *)
(* a message for each; a play runs on a thread of its own, which starts    *)
(* the service, then sets mQuality and tells the daemon.  A handler of the *)
(* main thread is one action, a step of such a starter thread is what it   *)
(* does between two points where others can interfere.                     *)
(***************************************************************************)
EXTENDS Naturals, Sequences

CONSTANTS MaxActivities,  \* bound: activities ever created
          MaxPlays,       \* bound: starter threads ever made
          FdLimit,        \* descriptors a process may have for the stream
          Choices         \* bound: the qualities somebody chooses

Quality_FullHD == "fullhd"
Quality_HD     == "hd"
Quality_DVD    == "dvd"
Qualities == {Quality_FullHD, Quality_HD, Quality_DVD}

Activities == 1 .. MaxActivities
Starters == 1 .. MaxPlays
Objects == 1 .. MaxPlays
null == 0

ASSUME PlayAssumption ==
  /\ MaxActivities \in Nat /\ MaxPlays \in Nat /\ FdLimit \in Nat
  /\ Choices \subseteq Qualities

VARIABLES activities, \* number of activities created
          shown,      \* the last one is "created", "visible" or "gone"
          playing,    \* its btnStop is enabled and btnPlay is not
          chosen,     \* the radio button checked in each activity
          bCheckPassword,
          starters,   \* number of starter threads made
          at,         \* where each starter is
          of,         \* its activity
          picked,     \* the quality it has read
          mQuality,
          running,    \* the activity manager's StreamService object, or null
          made,       \* number of StreamService objects asked for
          inbox,      \* messages of the activity manager to the main thread
          hw,         \* mCamera and mMediaRecorder of each object
          fds,        \* descriptors opened by GetFileDescriptor
          failed,     \* the last onStartCommand could not record
          mail,       \* messages on their way to the daemon
          daemon,     \* quality and key it has
          keySet,     \* SetKey has sent the key
          want,       \* history: the last order was to play
          overtaken,  \* history: a service was started after the order to stop
          muddled,    \* history: see Announced
          faulty,     \* history: something outside went wrong
          crashed     \* history: the process has died

uiVars      == <<activities, shown, playing, chosen, bCheckPassword>>
starterVars == <<starters, at, of, picked>>
amsVars     == <<running, made, inbox>>
hwVars      == <<hw, fds, failed>>
daemonVars  == <<mail, daemon>>
faultVars   == <<keySet, faulty, crashed>>
historyVars == <<want, overtaken, muddled, faultVars>>
vars == <<uiVars, starterVars, mQuality, amsVars, hwVars, daemonVars,
          historyVars>>

Nothing == [cam |-> "null", rec |-> "none"]

Init == /\ activities = 0 /\ shown = "gone" /\ playing = FALSE
        /\ chosen = [a \in Activities |-> Quality_DVD]
        /\ bCheckPassword \in BOOLEAN
        /\ starters = 0
        /\ at = [s \in Starters |-> "none"]
        /\ of = [s \in Starters |-> null]
        /\ picked = [s \in Starters |-> Quality_DVD]
        /\ mQuality = Quality_FullHD
        /\ running = null /\ made = 0 /\ inbox = << >>
        /\ hw = [o \in Objects |-> Nothing]
        /\ fds = 0 /\ failed = FALSE
        /\ mail = {}
        /\ daemon = [quality |-> Quality_DVD, key |-> FALSE]
        /\ want = FALSE /\ overtaken = FALSE /\ muddled = TRUE
        /\ keySet = FALSE /\ faulty = FALSE /\ crashed = FALSE

Alive(s) == at[s] \notin {"none", "done"}
InFlight == mail # {} \/ \E s \in Starters : Alive(s)
Settled == ~InFlight /\ inbox = << >>

(***************************************************************************)
(* The activity manager (external).                                        *)
(***************************************************************************)

Message(op, o) == [op |-> op, object |-> o]

startService ==
  LET o == IF running = null THEN made + 1 ELSE running
  IN /\ running' = o
     /\ made' = IF running = null THEN made + 1 ELSE made
     /\ inbox' = Append(inbox, Message("start", o))

StopMessage == IF running = null THEN << >> ELSE <<Message("stop", running)>>
KeepsRecord == inbox' = inbox \o StopMessage /\ UNCHANGED <<running, made>>
stopService == inbox' = inbox \o StopMessage /\ running' = null /\ UNCHANGED made

isStreamingRunning == running # null

(***************************************************************************)
(* An uncaught exception ends the process.  The next one has its statics   *)
(* at their initial values; messages in the kernel still arrive.           *)
(***************************************************************************)

Crash == /\ crashed' = TRUE
         /\ shown' = "gone" /\ playing' = FALSE
         /\ at' = [s \in Starters |-> IF Alive(s) THEN "done" ELSE at[s]]
         /\ mQuality' = Quality_FullHD
         /\ running' = null /\ inbox' = << >>
         /\ hw' = [o \in Objects |-> Nothing]
         /\ fds' = 0 /\ failed' = FALSE
         /\ want' = FALSE /\ overtaken' = FALSE /\ muddled' = TRUE
         /\ of' = [s \in Starters |-> null]
         /\ picked' = [s \in Starters |-> Quality_DVD]
         /\ UNCHANGED <<activities, chosen, bCheckPassword, starters, made, mail,
                        daemon, keySet>>

(***************************************************************************)
(* The activity's handlers.                                                *)
(***************************************************************************)

\* new Thread(...).start() in OnPlay and in onCreate; a play that begins
\* while an earlier one is in flight muddles what the daemon is told.
NewStarter(where, a) ==
  /\ starters < MaxPlays
  /\ starters' = starters + 1
  /\ at' = [at EXCEPT ![starters + 1] = where]
  /\ of' = [of EXCEPT ![starters + 1] = a]
  /\ UNCHANGED picked
  /\ want' = TRUE /\ overtaken' = FALSE /\ muddled' = InFlight

Orders(w) == want' = w /\ overtaken' = FALSE

\* onCreate as the launcher starts it: the buttons show what is going on.
Launch ==
  /\ shown = "gone" /\ activities < MaxActivities
  /\ activities' = activities + 1
  /\ shown' = "created"
  /\ playing' = isStreamingRunning
  /\ UNCHANGED <<chosen, bCheckPassword, starterVars, mQuality, amsVars, hwVars,
                 daemonVars, historyVars>>

\* onCreate with a quality in the intent restarts the stream.
LaunchRestart(q) ==
  /\ shown = "gone" /\ activities < MaxActivities
  /\ activities' = activities + 1
  /\ shown' = "created"
  /\ playing' = FALSE
  /\ chosen' = [chosen EXCEPT ![activities + 1] = q]
  /\ stopService
  /\ NewStarter("buttons", activities + 1)
  /\ UNCHANGED <<bCheckPassword, mQuality, hwVars, daemonVars, faultVars>>

\* The window is attached after onCreate has returned.
Attach ==
  /\ shown = "created"
  /\ shown' = "visible"
  /\ UNCHANGED <<activities, playing, chosen, bCheckPassword, starterVars, mQuality,
                 amsVars, hwVars, daemonVars, historyVars>>

\* OnPlay, with the button or with the keys 1, 2 and 3.
OnPlay(q) ==
  /\ shown = "visible" /\ ~playing
  /\ chosen' = [chosen EXCEPT ![activities] = q]
  /\ playing' = TRUE
  /\ stopService
  /\ NewStarter("start", activities)
  /\ UNCHANGED <<activities, shown, bCheckPassword, mQuality, hwVars, daemonVars,
                 faultVars>>

\* The radio buttons can be moved while the stream plays.
Choose(q) ==
  /\ shown = "visible" /\ chosen[activities] # q
  /\ chosen' = [chosen EXCEPT ![activities] = q]
  /\ UNCHANGED <<activities, shown, playing, bCheckPassword, starterVars, mQuality,
                 amsVars, hwVars, daemonVars, historyVars>>

\* The daemon is told of the change by the next play only.
CheckPassword ==
  /\ shown = "visible"
  /\ bCheckPassword' = ~bCheckPassword
  /\ muddled' = TRUE
  /\ UNCHANGED <<activities, shown, playing, chosen, starterVars, mQuality, amsVars,
                 hwVars, daemonVars, want, overtaken, faultVars>>

OnStop ==
  /\ shown = "visible" /\ playing
  /\ playing' = FALSE
  /\ stopService
  /\ Orders(FALSE)
  /\ UNCHANGED <<activities, shown, chosen, bCheckPassword, starterVars, mQuality,
                 hwVars, daemonVars, muddled, faultVars>>

\* btnExit, and the broadcast ACTION_FINISH, which the daemon sends for a
\* viewer; both stop what runs.
Exit ==
  /\ shown # "gone"
  /\ shown' = "gone"
  /\ stopService
  /\ Orders(FALSE)
  /\ UNCHANGED <<activities, playing, chosen, bCheckPassword, starterVars, mQuality,
                 hwVars, daemonVars, muddled, faultVars>>

\* cmd:stop of a viewer also runs "am stopservice", activity or not.
CmdStop ==
  /\ stopService
  /\ Orders(FALSE)
  /\ UNCHANGED <<uiVars, starterVars, mQuality, hwVars, daemonVars, muddled,
                 faultVars>>

\* btnBackgroud: the stream goes on.
Background ==
  /\ shown = "visible" /\ playing
  /\ shown' = "gone"
  /\ UNCHANGED <<activities, playing, chosen, bCheckPassword, starterVars, mQuality,
                 amsVars, hwVars, daemonVars, historyVars>>

(***************************************************************************)
(* The starter threads: startStreaming.                                    *)
(***************************************************************************)

Goto(s, there) == at' = [at EXCEPT ![s] = there]
Leave(s) == Goto(s, "done") /\ of' = [of EXCEPT ![s] = null]
                            /\ picked' = [picked EXCEPT ![s] = Quality_DVD]

\* The thread of onCreate sets the buttons itself, which a view that is
\* attached does not allow.
Buttons(s) ==
  /\ at[s] = "buttons"
  /\ \/ /\ playing' = IF of[s] = activities /\ shown # "gone" THEN TRUE ELSE playing
        /\ Goto(s, "start")
        /\ UNCHANGED <<activities, shown, chosen, bCheckPassword, starters, of,
                       picked, mQuality, amsVars, hwVars, daemonVars, historyVars>>
     \/ /\ of[s] = activities /\ shown = "visible"
        /\ Crash /\ faulty' = TRUE

Start(s) ==
  /\ at[s] = "start"
  /\ startService
  /\ Goto(s, "connect")
  /\ overtaken' = (overtaken \/ ~want)
  /\ UNCHANGED <<uiVars, starters, of, picked, mQuality, hwVars, daemonVars, want,
                 muddled, faultVars>>

\* Without a daemon that listens the connection is refused.
Connect(s) ==
  /\ at[s] = "connect"
  /\ \/ Goto(s, "choose") /\ UNCHANGED <<of, picked, muddled>>
     \/ Leave(s) /\ muddled' = TRUE
  /\ UNCHANGED <<uiVars, starters, mQuality, amsVars, hwVars, daemonVars,
                 want, overtaken, faultVars>>

PickQuality(s) ==
  /\ at[s] = "choose"
  /\ mQuality' = chosen[of[s]]
  /\ picked' = [picked EXCEPT ![s] = chosen[of[s]]]
  /\ Goto(s, "send")
  /\ UNCHANGED <<uiVars, starters, of, amsVars, hwVars, daemonVars, want, overtaken,
                 muddled, faultVars>>

StaleCommand(s) == [by |-> s, quality |-> mQuality, key |-> daemon.key]
Command(s) == [by |-> s, quality |-> picked[s], key |-> bCheckPassword]

Send(s) ==
  /\ at[s] = "send"
  /\ mail' = mail \cup {Command(s)}
  /\ Leave(s)
  /\ UNCHANGED <<uiVars, starters, mQuality, amsVars, hwVars, daemon,
                 historyVars>>

\* SetKey of NativeService, two seconds after the box has started, sends the
\* key alone, whether it is asked for or not.
SetKey ==
  /\ ~keySet
  /\ keySet' = TRUE
  /\ muddled' = TRUE
  /\ mail' = mail \cup {[by |-> null, quality |-> "same", key |-> TRUE]}
  /\ UNCHANGED <<uiVars, starterVars, mQuality, amsVars, hwVars, daemon,
                 want, overtaken, faulty, crashed>>

\* conn_localhostcb; each message has a connection of its own, so that they
\* come in any order.
Deliver ==
  /\ \E m \in mail :
       /\ mail' = mail \ {m}
       /\ daemon' = [quality |-> IF m.quality = "same" THEN daemon.quality
                                                      ELSE m.quality,
                     key |-> m.key]
  /\ UNCHANGED <<uiVars, starterVars, mQuality, amsVars, hwVars, want, overtaken,
                 muddled, faultVars>>

(***************************************************************************)
(* The service's handlers, on the main thread.                             *)
(***************************************************************************)

\* mCamera.lock() needs a camera.
releaseMediaRecorder(h) ==
  IF h.rec = "none" THEN h
  ELSE [cam |-> IF h.cam = "null" THEN "npe" ELSE "locked", rec |-> "none"]
releaseCamera(h) == IF h.cam = "null" THEN h ELSE [h EXCEPT !.cam = "null"]

\* "try cleanup first" in onStartCommand, and in ReleaseService.
CleanUpCameraFirst(h) == releaseMediaRecorder(releaseCamera(h))
CleanUpForgetsCamera(h) == releaseMediaRecorder(h)
CleanUp(h) == releaseCamera(releaseMediaRecorder(h))

NextMessage == Head(inbox)
AllDone == << >>
Handled == Tail(inbox)

Holds(o) == hw[o].cam # "null"

\* Camera.open(5) fails while somebody has it: one of our own objects, this
\* one included if the cleanup forgets it, or another application.
Free(o) == \A p \in Objects : (IF p = o THEN CleanUp(hw[o]) ELSE hw[p]).cam = "null"
NoCamera(o) ==
  /\ faulty' = (faulty \/ Free(o))
  /\ Crash

\* The recorder is prepared and started, or something between fails and
\* ReleaseService gives the camera back; the descriptor is never closed, and
\* without one prepare fails.
Records(o) ==
  /\ Free(o)
  /\ fds' = IF fds < FdLimit THEN fds + 1 ELSE fds
  /\ LET ready == [cam |-> "unlocked", rec |-> mQuality]
     IN \/ /\ fds < FdLimit
           /\ hw' = [hw EXCEPT ![o] = ready]
           /\ failed' = FALSE
        \/ /\ hw' = [hw EXCEPT ![o] = CleanUp(ready)]
           /\ failed' = TRUE
  /\ inbox' = Handled
  /\ UNCHANGED <<uiVars, starterVars, mQuality, running, made, daemonVars,
                 historyVars>>

onStartCommand ==
  /\ inbox # << >> /\ NextMessage.op = "start"
  /\ NoCamera(NextMessage.object) \/ Records(NextMessage.object)

onDestroy ==
  /\ inbox # << >> /\ NextMessage.op = "stop"
  /\ hw' = [hw EXCEPT ![NextMessage.object] = CleanUp(@)]
  /\ inbox' = Handled
  /\ UNCHANGED <<uiVars, starterVars, mQuality, running, made, fds, failed,
                 daemonVars, historyVars>>

(***************************************************************************)
(* The specification.                                                      *)
(***************************************************************************)

User == \/ Launch \/ OnStop \/ Exit \/ CmdStop \/ Background \/ CheckPassword
        \/ \E q \in Choices : LaunchRestart(q) \/ OnPlay(q) \/ Choose(q)
StarterStep(s) == \/ Buttons(s) \/ Start(s) \/ Connect(s) \/ PickQuality(s) \/ Send(s)
MainStep == Attach \/ onStartCommand \/ onDestroy

Next == User \/ MainStep \/ Deliver \/ SetKey \/ \E s \in Starters : StarterStep(s)

Spec == Init /\ [][Next]_vars

(***************************************************************************)
(* Properties.                                                             *)
(***************************************************************************)

UiType ==
  /\ activities \in 0 .. MaxActivities
  /\ shown \in {"created", "visible", "gone"} /\ playing \in BOOLEAN
  /\ chosen \in [Activities -> Qualities]
  /\ bCheckPassword \in BOOLEAN

StarterType ==
  /\ starters \in 0 .. MaxPlays
  /\ at \in [Starters -> {"none", "buttons", "start", "connect", "choose", "send",
                          "done"}]
  /\ of \in [Starters -> Activities \cup {null}]
  /\ picked \in [Starters -> Qualities]
  /\ mQuality \in Qualities

Messages == [op : {"start", "stop"}, object : Objects]

ServiceType ==
  /\ running \in Objects \cup {null} /\ made \in 0 .. MaxPlays
  /\ inbox \in Seq(Messages)
  /\ hw \in [Objects -> [cam : {"null", "unlocked"},
                         rec : Qualities \cup {"none"}]]
  /\ fds \in 0 .. FdLimit

DaemonType ==
  /\ mail \subseteq [by : Starters \cup {null}, quality : Qualities \cup {"same"},
                     key : BOOLEAN]
  /\ daemon \in [quality : Qualities, key : BOOLEAN]

HistoryType ==
  /\ failed \in BOOLEAN /\ keySet \in BOOLEAN
  /\ want \in BOOLEAN /\ overtaken \in BOOLEAN /\ muddled \in BOOLEAN
  /\ faulty \in BOOLEAN /\ crashed \in BOOLEAN

(* Every variable keeps its type; no path through the service locks a      *)
(* camera it does not have.                                                *)
TypeOK == UiType /\ StarterType /\ ServiceType /\ DaemonType /\ HistoryType

(* Whoever holds the camera is recording with it and is the service that   *)
(* runs or one that is about to be destroyed, and there is one of them at  *)
(* most: no failure and no order of starts and stops leaves the camera     *)
(* with somebody who will not give it back.                                *)
WillStop(o) == \E i \in DOMAIN inbox : inbox[i] = Message("stop", o)
CameraOwned ==
  /\ \A o \in Objects :
       Holds(o) => hw[o].rec # "none" /\ (running = o \/ WillStop(o))
  /\ \A o, p \in Objects : Holds(o) /\ Holds(p) => o = p

(* The process dies only when another application has the camera or when   *)
(* the thread of onCreate is late with the buttons, never because one of   *)
(* its own services still has the camera.                                  *)
OnlyOthersCrash == crashed => faulty

(* When all is quiet after an order to stop, nothing runs and nobody has   *)
(* the camera, unless a starter thread was so late that it started the     *)
(* service after the stop.                                                 *)
StopWins == Settled /\ ~want /\ ~overtaken =>
              ~isStreamingRunning /\ \A o \in Objects : ~Holds(o)

(* When all is quiet after an order to play, the service that runs records *)
(* unless the recorder failed, whatever was stopped, restarted or late.    *)
PlayWins == Settled /\ want /\ ~failed =>
              isStreamingRunning /\ hw[running].rec # "none"

(* A play that begins while no other is in flight and whose connection is  *)
(* accepted puts things right, whatever was before: the daemon announces   *)
(* mQuality and asks for the key that the activity wants.                  *)
Announced == Settled /\ ~muddled =>
               daemon = [quality |-> mQuality, key |-> bCheckPassword]

(* What the labels "Fullhd(Key 1)", "HD(Key 2)" and "DVD(Key 3)" say: when *)
(* such a play has gone well, the stream has the quality that was chosen.  *)
PlayedAsChosen == Settled /\ want /\ ~muddled /\ ~failed => hw[running].rec = mQuality

=============================================================================
