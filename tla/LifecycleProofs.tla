---------------------------- MODULE LifecycleProofs ----------------------------
(***************************************************************************)
(* Proofs about Lifecycle: when two daemons run at the same time, and what *)
(* an installation leaves behind.                                          *)
(***************************************************************************)
EXTENDS Lifecycle, TLAPS

(* Daemons are started one after the other.                                *)
Fresh == \A d \in Daemons : d > forked => life[d] = "none"

(* Whoever is about to start a daemon is the only one, and none runs.      *)
AboutTo == main = "exec" \/ Believes(install)
Alone ==
  /\ ~(main = "exec" /\ Believes(install))
  /\ AboutTo => ~TextBusy
  /\ \A d, e \in Daemons : Alive(d) /\ Alive(e) => d = e
  /\ \A d \in Daemons : Alive(d) => event[d] # "gone"

(* What an installation has achieved, stage by stage.                      *)
Replaced ==
  /\ install \in {"look", "exec", "done"} => binary = "new"
  /\ install = "done" => \A d \in Daemons : Alive(d) => image[d] = "new"

IInv == /\ TypeOK /\ Fresh
        /\ ~overlap => Alone
        /\ ~overlap /\ ~ioFailed => Replaced

(* At first there is no daemon, and nobody is about to start one.          *)
LEMMA InitIInv == Init => IInv
<1> SUFFICES ASSUME Init PROVE IInv
  OBVIOUS
<1> USE LifecycleAssumption
<1>1. DaemonType /\ Fresh
  BY DEF Init, DaemonType, Fresh
<1>2. StarterType
  BY DEF Init, StarterType
<1>6. HistoryType
  BY DEF Init, HistoryType
<1>3. \A d \in Daemons : ~Alive(d)
  BY DEF Init, Alive
<1>4. Alone /\ Replaced
  BY <1>3 DEF Init, Alone, AboutTo, TextBusy, Believes, Replaced
<1>7. QED
  BY <1>1, <1>2, <1>6, <1>4 DEF IInv, TypeOK

(* A step of a daemon concerns its own entries only.                       *)
LEMMA DaemonTypeStep ==
  ASSUME DaemonType, Fresh, NEW d \in Daemons, DaemonStep(d) \/ Ends(d)
  PROVE  DaemonType' /\ Fresh'
<1> USE LifecycleAssumption DEF DaemonType, Fresh
<1>1. CASE Socket(d) \/ Bind(d)
  BY <1>1 DEF Socket, Bind
<1>2. CASE Listen(d)
  BY <1>2 DEF Listen
<1>3. CASE ReadShutdown(d)
  BY <1>3 DEF ReadShutdown
<1>4. CASE End(d)
  BY <1>4 DEF End, Alive
<1>5. QED
  BY <1>1, <1>2, <1>3, <1>4 DEF DaemonStep, ShutdownEnds, Ends

(* The histories are true or false.                                        *)
LEMMA HistoryTypeStep == HistoryType /\ [Next]_vars => HistoryType'
<1> SUFFICES ASSUME HistoryType, [Next]_vars PROVE HistoryType'
  OBVIOUS
<1> USE DEF HistoryType
<1>1. CASE UNCHANGED vars \/ BeginInstall \/ AskReboot \/ WriteFile
  BY <1>1 DEF vars, BeginInstall, AskReboot, WriteFile, fileVars
<1>2. CASE OpenFile
  BY <1>2 DEF OpenFile
<1>3. CASE StartNativeService \/ InstallCheck \/ InstallLooks
  BY <1>3 DEF StartNativeService, InstallCheck, InstallLooks, Overlapping, fileVars
<1>4. CASE Exec \/ InstallExec
  BY <1>4 DEF Exec, InstallExec, fileVars
<1>5. ASSUME NEW d \in Daemons, DaemonStep(d) \/ Ends(d) PROVE HistoryType'
  BY <1>5 DEF DaemonStep, Ends, Socket, Bind, Listen, ReadShutdown, ShutdownEnds, End,
       fileVars
<1>6. QED
  BY <1>1, <1>2, <1>3, <1>4, <1>5 DEF Next, InstallStep

(* Main thread and Install keep their types.                               *)
LEMMA StarterTypeStep == StarterType /\ [Next]_vars => StarterType'
<1> SUFFICES ASSUME StarterType, [Next]_vars PROVE StarterType'
  OBVIOUS
<1> USE LifecycleAssumption DEF StarterType
<1>1. CASE UNCHANGED vars \/ StartNativeService
  BY <1>1 DEF vars, StartNativeService, installVars, fileVars
<1>2. CASE BeginInstall
  BY <1>2 DEF BeginInstall
<1>3. CASE AskReboot \/ InstallLooks
  BY <1>3 DEF AskReboot, GivesUp, InstallLooks, fileVars
<1>4. CASE InstallCheck
  BY <1>4 DEF InstallCheck, TriesLeft, Counted, fileVars
<1>5. CASE OpenFile \/ WriteFile
  BY <1>5 DEF OpenFile, WriteFile
<1>6. CASE Exec \/ InstallExec
  BY <1>6 DEF Exec, InstallExec, installVars, fileVars
<1>7. ASSUME NEW d \in Daemons, DaemonStep(d) \/ Ends(d) PROVE StarterType'
  BY <1>7 DEF DaemonStep, Ends, Socket, Bind, Listen, ReadShutdown, ShutdownEnds, End,
       installVars, fileVars
<1>8. QED
  BY <1>1, <1>2, <1>3, <1>4, <1>5, <1>6, <1>7 DEF Next, InstallStep

(* Starting a daemon fills the next entry.                                 *)
LEMMA ExecType ==
  ASSUME DaemonType, Fresh, exec, UNCHANGED <<told, shut>>
  PROVE  DaemonType' /\ Fresh'
<1> USE LifecycleAssumption
<1>1. CASE UNCHANGED <<forked, life, event, image>>
  BY <1>1 DEF DaemonType, Fresh
<1>2. CASE ~UNCHANGED <<forked, life, event, image>>
  <2>1. /\ forked' = forked + 1 /\ forked' \in 0 .. MaxDaemons
        /\ binary \in {"none", "old", "new"}
        /\ life' = [life EXCEPT ![forked + 1] = "start"]
        /\ event' = [event EXCEPT ![forked + 1] = "base"]
        /\ image' = [image EXCEPT ![forked + 1] = binary]
    BY <1>2 DEF exec, DaemonType
  <2>2. DaemonType'
    BY <2>1 DEF DaemonType
  <2>3. Fresh'
    BY <2>1 DEF DaemonType, Fresh, Daemons
  <2>4. QED
    BY <2>2, <2>3
<1>3. QED
  BY <1>1, <1>2

(* Every step keeps the types, and daemons start one after the other.      *)
LEMMA TypeStep == IInv /\ [Next]_vars => TypeOK' /\ Fresh'
<1> SUFFICES ASSUME TypeOK, DaemonType, Fresh, [Next]_vars
             PROVE  DaemonType' /\ Fresh'
  BY StarterTypeStep, HistoryTypeStep DEF IInv, TypeOK
<1> USE LifecycleAssumption
<1>1. CASE UNCHANGED daemonVars
  BY <1>1 DEF daemonVars, DaemonType, Fresh
<1>2. CASE InstallCheck
  BY <1>2 DEF InstallCheck, SendShutdownCommand, DaemonType, Fresh
<1>3. CASE Exec \/ InstallExec
  BY <1>3, ExecType DEF Exec, InstallExec
<1>4. ASSUME NEW d \in Daemons, DaemonStep(d) \/ Ends(d)
      PROVE  DaemonType' /\ Fresh'
  BY <1>4, DaemonTypeStep
<1>5. CASE UNCHANGED vars \/ StartNativeService \/ BeginInstall \/ AskReboot
           \/ OpenFile \/ WriteFile \/ InstallLooks
  BY <1>5, <1>1 DEF vars, StartNativeService, BeginInstall, AskReboot, OpenFile,
       WriteFile, InstallLooks
<1>6. QED
  BY <1>2, <1>3, <1>4, <1>5 DEF Next, InstallStep

(* A daemon is started by who was about to, from the file as it is.        *)
LEMMA ExecAlone ==
  ASSUME TypeOK, Fresh, Alone, AboutTo, exec
  PROVE  /\ \A d, e \in Daemons : Alive(d)' /\ Alive(e)' => d = e
         /\ \A d \in Daemons : Alive(d)' => event'[d] # "gone" /\ image'[d] = binary
<1>1. \A d \in Daemons : Alive(d)' => d = forked + 1 /\ forked < MaxDaemons
  BY LifecycleAssumption DEF TypeOK, DaemonType, Alone, TextBusy, Alive, exec, Daemons
<1>2. QED
  BY <1>1, LifecycleAssumption DEF TypeOK, DaemonType, Alive, exec, Daemons, Alone, TextBusy

(* What a daemon does itself makes no daemon.                              *)
LEMMA DaemonsOnly ==
  ASSUME TypeOK, NEW d \in Daemons, DaemonStep(d) \/ Ends(d)
  PROVE  /\ \A e \in Daemons : Alive(e)' => Alive(e)
         /\ UNCHANGED <<main, installVars, fileVars, overlap, image>>
         /\ \A e \in Daemons : event'[e] = "gone" =>
              event[e] = "gone" \/ (e = d /\ Alive(d) /\ event[d] = "base"
                                    /\ \E f \in Daemons : Listening(f))
BY LifecycleAssumption
   DEF TypeOK, DaemonType, DaemonStep, Ends, Socket, Bind, Listen, ReadShutdown, ShutdownEnds,
       End, Alive, Listening, installVars, fileVars

(* Nobody who acts alone makes a second daemon, and an installation that   *)
(* acts alone replaces the file and what ran from it.                      *)
LEMMA AloneStep ==
  ASSUME IInv, [Next]_vars, ~overlap'
  PROVE  Alone' /\ (~ioFailed' => Replaced')
<1> USE DEF IInv
<1>1. ~overlap /\ Alone
  <2>1. overlap => overlap'
    <3>1. CASE UNCHANGED vars \/ BeginInstall \/ AskReboot \/ OpenFile \/ WriteFile
      BY <3>1 DEF vars, BeginInstall, AskReboot, OpenFile, WriteFile
    <3>2. CASE StartNativeService \/ InstallCheck \/ InstallLooks
      BY <3>2 DEF StartNativeService, InstallCheck, InstallLooks, Overlapping
    <3>3. CASE Exec \/ InstallExec
      BY <3>3 DEF Exec, InstallExec
    <3>4. ASSUME NEW d \in Daemons, DaemonStep(d) \/ Ends(d) PROVE overlap => overlap'
      BY <3>4, DaemonsOnly DEF TypeOK
    <3>5. QED
      BY <3>1, <3>2, <3>3, <3>4 DEF Next, InstallStep
  <2>2. QED
    BY <2>1
<1>2. ASSUME UNCHANGED daemonVars
      PROVE  /\ \A d \in Daemons : Alive(d)' <=> Alive(d)
             /\ TextBusy' <=> TextBusy
  BY <1>2 DEF daemonVars, Alive, TextBusy
<1>3. CASE UNCHANGED vars
  BY <1>1, <1>2, <1>3 DEF vars, daemonVars, installVars, fileVars, Alone, AboutTo,
       Believes, Replaced
<1>4. CASE StartNativeService
  BY <1>1, <1>2, <1>4 DEF StartNativeService, Overlapping, CheckServiceExist, Alone,
       AboutTo, TextBusy, Believes, Replaced, daemonVars, installVars, fileVars
<1>5. CASE BeginInstall \/ AskReboot
  BY <1>1, <1>2, <1>5 DEF BeginInstall, AskReboot, GivesUp, Alone, AboutTo,
       Believes, Replaced, daemonVars, fileVars
<1>6. CASE InstallCheck
  <2>1. \A d \in Daemons : Alive(d)' <=> Alive(d)
    BY <1>6 DEF InstallCheck, Alive
  <2>2. QED
    BY <1>1, <1>6, <2>1 DEF InstallCheck, Overlapping, CheckServiceExist, TextBusy,
         Alone, AboutTo, Believes, Replaced, fileVars
<1>7. CASE OpenFile \/ WriteFile \/ InstallLooks
  BY <1>1, <1>2, <1>7 DEF OpenFile, WriteFile, InstallLooks, CheckServiceExist,
       TextBusy, Alone, AboutTo, Believes, Replaced, daemonVars, fileVars, TypeOK, StarterType
<1>8. CASE Exec
  <2>1. AboutTo /\ exec /\ main' = "idle" /\ ~Believes(install)
    BY <1>1, <1>8 DEF Exec, AboutTo, Alone
  <2>2. QED
    BY <1>1, <1>8, <2>1, ExecAlone DEF Exec, Alone, AboutTo, Believes, Replaced,
         installVars, fileVars
<1>9. CASE InstallExec
  <2>1. AboutTo /\ exec /\ install' = "done" /\ main # "exec"
    BY <1>1, <1>9 DEF InstallExec, AboutTo, Believes, Alone
  <2>2. ~Believes(install)' /\ main' # "exec"
    BY <1>9, <2>1 DEF InstallExec, Believes
  <2>3. QED
    BY <1>1, <1>9, <2>1, <2>2, ExecAlone DEF InstallExec, Alone, AboutTo, Replaced,
         fileVars
<1>10. ASSUME NEW d \in Daemons, DaemonStep(d) \/ Ends(d)
       PROVE  Alone' /\ (~ioFailed' => Replaced')
  <2>1. /\ \A e \in Daemons : Alive(e)' => Alive(e)
        /\ UNCHANGED <<main, installVars, fileVars, overlap, image>>
        /\ \A e \in Daemons : event'[e] = "gone" =>
             event[e] = "gone" \/ (e = d /\ Alive(d) /\ event[d] = "base"
                                   /\ \E f \in Daemons : Listening(f))
    BY <1>10, DaemonsOnly
  <2>2. \A e \in Daemons : Alive(e)' => event'[e] # "gone"
    BY <1>1, <2>1 DEF Alone, Listening
  <2>3. QED
    BY <1>1, <2>1, <2>2 DEF Alone, AboutTo, Believes, TextBusy, Replaced, installVars,
         fileVars
<1>11. QED
  BY <1>3, <1>4, <1>5, <1>6, <1>7, <1>8, <1>9, <1>10 DEF Next, InstallStep

(* The invariant is inductive.                                             *)
THEOREM Invariant == Spec => []IInv
<1>1. IInv /\ [Next]_vars => IInv'
  BY TypeStep, AloneStep DEF IInv
<1>2. QED
  BY InitIInv, <1>1, PTL DEF Spec

(* For any number of daemons, installations and tries, every variable      *)
(* keeps its type.                                                         *)
THEOREM TypeCorrect == Spec => []TypeOK
<1>1. IInv => TypeOK
  BY DEF IInv
<1>2. QED
  BY Invariant, <1>1, PTL

(* Two daemons at the same time, or a deaf one, mean that the main thread  *)
(* and Install both saw none and were both about to start one.             *)
THEOREM TwinsNeedTwo == Spec => []TwinsByOverlap
<1>1. IInv => TwinsByOverlap
  BY DEF IInv, Alone, TwinsByOverlap
<1>2. QED
  BY Invariant, <1>1, PTL

(* An installation nobody interferes with either fails openly or leaves    *)
(* the new file and no old daemon.                                         *)
THEOREM InstallationTakes == Spec => []InstallTakes
<1>1. IInv => InstallTakes
  BY DEF IInv, Replaced, InstallTakes
<1>2. QED
  BY Invariant, <1>1, PTL

=============================================================================
