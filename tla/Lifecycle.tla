------------------------------ MODULE Lifecycle ------------------------------
(***************************************************************************)
(* Who starts, replaces and shuts down the daemon: Util.java, Install.java,*)
(* NativeService.java and BootReceiver.java, with as much of the daemon's  *)
(* main() as they can notice: its name in ps and its sockets.              *)
(*                                                                         *)
(* Services start the daemon on the application's main thread, one after   *)
(* the other; the installation, of which there is one at a time, does it   *)
(* on a thread of its own.  An action is one step of one of these, up to   *)
(* the next process, file or connection it looks at or makes.              *)
(***************************************************************************)
EXTENDS Naturals, FiniteSets

CONSTANTS MaxDaemons,  \* bound: daemons ever started
          MaxInstalls, \* bound: installations ever begun
          Tries        \* 10: how often Install looks whether the daemon is gone

Daemons == 1 .. MaxDaemons

ASSUME LifecycleAssumption == /\ MaxDaemons \in Nat /\ MaxInstalls \in Nat
                              /\ Tries \in Nat \ {0}

VARIABLES forked,    \* number of daemons started so far
          life,      \* of each daemon: "none", "start", "open", "bound", "dead"
          event,     \* its event thread: "none", "base", "loop", "gone"
          told,      \* those sent cmd:shutdown that have not read it yet
          shut,      \* those whose stream socket has been shut down
          image,     \* the version it was started from
          binary,    \* the file: "none", "old", "partial" or "new"
          main,      \* the main thread: "idle", or "exec" in StartNativeService
          install,   \* Install's thread
          tries,     \* times it has looked
          installs,  \* number of installations begun
          overlap,   \* history: the main thread was about to start a daemon
                     \*   while Install took it that none runs
          ioFailed   \* history: this installation could not write a file

daemonVars == <<forked, life, event, told, shut, image>>
installVars == <<install, tries, installs>>
fileVars   == <<binary, ioFailed>>
vars == <<daemonVars, main, installVars, fileVars, overlap>>

Init == /\ forked = 0
        /\ life = [d \in Daemons |-> "none"]
        /\ event = [d \in Daemons |-> "none"]
        /\ told = {}
        /\ shut = {}
        /\ image = [d \in Daemons |-> "none"]
        /\ binary \in {"none", "old"}
        /\ main = "idle" /\ install = "none" /\ tries = 0 /\ installs = 0
        /\ overlap = FALSE /\ ioFailed = FALSE

Alive(d) == life[d] \in {"start", "open", "bound"}
TextBusy == \E d \in Daemons : Alive(d)
Listening(d) == Alive(d) /\ event[d] = "loop"

\* Install has seen no daemon and acts on it.
Believes(i) == i \in {"unzip", "write", "look", "exec"}
Overlapping(m, i) == overlap' = (overlap \/ (m = "exec" /\ Believes(i)))

(***************************************************************************)
(* The daemon, as seen from outside.                                       *)
(***************************************************************************)

\* Runtime.exec returns when the file has been executed, or throws; from then
\* on the daemon has its name in ps, through both forks of init_daemon.
exec == \/ /\ binary \in {"old", "new"}
           /\ forked < MaxDaemons
           /\ forked' = forked + 1
           /\ life' = [life EXCEPT ![forked + 1] = "start"]
           /\ event' = [event EXCEPT ![forked + 1] = "base"]
           /\ image' = [image EXCEPT ![forked + 1] = binary]
        \/ /\ binary \notin {"old", "new"} \/ forked = MaxDaemons
           /\ UNCHANGED <<forked, life, event, image>>

Socket(d) == /\ life[d] = "start"
             /\ life' = [life EXCEPT ![d] = "open"]
             /\ UNCHANGED <<forked, event, told, shut, image, main,
                            installVars, fileVars, overlap>>

\* The stream's port is shared: SO_REUSEADDR on a datagram socket.
Bind(d) == /\ life[d] = "open"
           /\ life' = [life EXCEPT ![d] = "bound"]
           /\ UNCHANGED <<forked, event, told, shut, image, main,
                          installVars, fileVars, overlap>>

\* The listener's port is not, while somebody listens.
Listen(d) == /\ Alive(d) /\ event[d] = "base"
             /\ event' = [event EXCEPT ![d] = IF \E e \in Daemons : Listening(e)
                                              THEN "gone" ELSE "loop"]
             /\ UNCHANGED <<forked, life, told, shut, image, main,
                            installVars, fileVars, overlap>>

\* cmd:shutdown is lost on a daemon that has no socket yet.
NeedsPort(d) == life[d] = "bound"
HasSocket(d) == life[d] # "start"

ReadShutdown(d) == /\ Listening(d) /\ d \in told
                   /\ told' = told \ {d}
                   /\ shut' = IF HasSocket(d) THEN shut \cup {d} ELSE shut
                   /\ UNCHANGED <<forked, life, event, image, main,
                                  installVars, fileVars, overlap>>

\* recvfrom returns 0; an empty datagram or a crash ends it as well.
End(d) == /\ Alive(d)
          /\ life' = [life EXCEPT ![d] = "dead"]
          /\ event' = [event EXCEPT ![d] = "none"]
          /\ told' = told \ {d}
          /\ UNCHANGED <<forked, shut, image, main, installVars, fileVars,
                         overlap>>
ShutdownEnds(d) == life[d] = "bound" /\ d \in shut /\ End(d)

(***************************************************************************)
(* Util.                                                                   *)
(***************************************************************************)

\* CheckServiceExist: "ps | grep NTVService".
SeesOnlyListeners == \E d \in Daemons : Listening(d)
CheckServiceExist == \E d \in Daemons : Alive(d)

\* A connection to port 1234 is refused when nobody listens.
SendShutdownCommand ==
  told' = told \cup {d \in Daemons : Listening(d)}

(***************************************************************************)
(* The main thread: onStartCommand of StreamService and onCreate of        *)
(* NativeService call StartNativeService, which looks and then starts.     *)
(***************************************************************************)

StartNativeService ==
  /\ main = "idle"
  /\ ~CheckServiceExist
  /\ main' = "exec"
  /\ Overlapping("exec", install)
  /\ UNCHANGED <<daemonVars, installVars, fileVars>>

Exec == /\ main = "exec"
        /\ exec
        /\ main' = "idle"
        /\ UNCHANGED <<told, shut, installVars, fileVars, overlap>>

(***************************************************************************)
(* Install.                                                                *)
(***************************************************************************)

BeginInstall ==
  /\ install \in {"none", "done", "reboot"} /\ installs < MaxInstalls
  /\ install' = "check" /\ tries' = 0
  /\ installs' = installs + 1
  /\ ioFailed' = FALSE
  /\ UNCHANGED <<daemonVars, main, binary, overlap>>

\* One turn of the loop: the shutdown is sent on the first only.
OneMore == tries <= Tries
TriesLeft == tries < Tries
Counted == tries + 1

InstallCheck ==
  /\ install = "check" /\ TriesLeft
  /\ \/ /\ ~CheckServiceExist
        /\ install' = "unzip"
        /\ Overlapping(main, "unzip")
        /\ UNCHANGED <<tries, told>>
     \/ /\ CheckServiceExist
        /\ IF tries = 0 THEN SendShutdownCommand ELSE UNCHANGED told
        /\ tries' = Counted
        /\ UNCHANGED <<install, overlap>>
  /\ UNCHANGED <<forked, life, event, shut, image, main, installs, fileVars>>

\* need_reboot stays 1: the user is asked to restart the box.
GoesOn == "unzip"
GivesUp == "reboot"

AskReboot == /\ install = "check" /\ ~TriesLeft
             /\ install' = GivesUp
             /\ UNCHANGED <<daemonVars, main, tries, installs, fileVars, overlap>>

\* unzip: the file cannot be opened while a daemon runs from it, and any of
\* it may fail; what fails is caught and ignored.
OpenFile ==
  /\ install = "unzip"
  /\ \/ /\ ~TextBusy
        /\ install' = "write" /\ binary' = "partial"
        /\ UNCHANGED ioFailed
     \/ /\ install' = "look"
        /\ ioFailed' = (ioFailed \/ ~TextBusy)
        /\ UNCHANGED binary
  /\ UNCHANGED <<daemonVars, main, tries, installs, overlap>>

WriteFile ==
  /\ install = "write"
  /\ install' = "look"
  /\ \/ binary' = "new" /\ UNCHANGED ioFailed
     \/ ioFailed' = TRUE /\ UNCHANGED binary
  /\ UNCHANGED <<daemonVars, main, tries, installs, overlap>>

InstallLooks == /\ install = "look"
                /\ install' = IF CheckServiceExist THEN "done" ELSE "exec"
                /\ UNCHANGED <<daemonVars, main, tries, installs, fileVars, overlap>>

InstallExec == /\ install = "exec"
               /\ exec
               /\ install' = "done"
               /\ UNCHANGED <<told, shut, main, tries, installs, fileVars,
                              overlap>>

(***************************************************************************)
(* The specification.                                                      *)
(***************************************************************************)

DaemonStep(d) == Socket(d) \/ Bind(d) \/ Listen(d) \/ ReadShutdown(d) \/ ShutdownEnds(d)
InstallStep == \/ InstallCheck \/ AskReboot \/ OpenFile \/ WriteFile \/ InstallLooks
               \/ InstallExec
Ends(d) == End(d) /\ d \notin shut

Next == \/ StartNativeService \/ Exec
        \/ BeginInstall \/ InstallStep
        \/ \E d \in Daemons : DaemonStep(d) \/ Ends(d)

Spec == Init /\ [][Next]_vars

FairSpec == /\ Spec
            /\ WF_vars(Exec) /\ WF_vars(InstallStep)
            /\ \A d \in Daemons : WF_vars(DaemonStep(d))

(***************************************************************************)
(* Properties.                                                             *)
(***************************************************************************)

DaemonType ==
  /\ forked \in 0 .. MaxDaemons
  /\ life \in [Daemons -> {"none", "start", "open", "bound", "dead"}]
  /\ event \in [Daemons -> {"none", "base", "loop", "gone"}]
  /\ told \subseteq Daemons /\ shut \subseteq Daemons
  /\ image \in [Daemons -> {"none", "old", "new"}]

StarterType ==
  /\ binary \in {"none", "old", "partial", "new"}
  /\ main \in {"idle", "exec"}
  /\ install \in {"none", "check", "unzip", "write", "look", "exec", "done", "reboot"}
  /\ tries \in 0 .. Tries /\ installs \in 0 .. MaxInstalls

HistoryType == overlap \in BOOLEAN /\ ioFailed \in BOOLEAN

(* Every variable keeps its type: Install never looks more often than it   *)
(* has tries.                                                              *)
TypeOK == DaemonType /\ StarterType /\ HistoryType

(* Two daemons run at the same time, or one that is deaf because another   *)
(* listened when it wanted to, only after the main thread and Install each *)
(* had seen none and were both about to start one.  However often the      *)
(* services look, and whenever a daemon ends, the main thread alone never  *)
(* makes a second one.                                                     *)
TwinsByOverlap ==
  /\ \A d, e \in Daemons : Alive(d) /\ Alive(e) /\ d # e => overlap
  /\ \A d \in Daemons : Alive(d) /\ event[d] = "gone" => overlap

(* An installation that ends without asking for a restart of the box has   *)
(* replaced the file, and no daemon of the old version runs on, unless the *)
(* main thread started one in between or a file could not be written.      *)
InstallTakes ==
  install = "done" /\ ~overlap /\ ~ioFailed =>
    binary = "new" /\ \A d \in Daemons : Alive(d) => image[d] = "new"

(* A daemon that listens and has its socket when it is told to shut down   *)
(* ends, and ps does not show it any more.                                 *)
ShutdownHeard ==
  \A d \in Daemons : (d \in told /\ life[d] \in {"open", "bound"}) ~> ~Alive(d)

=============================================================================
