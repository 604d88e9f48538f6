------------------------ MODULE ServiceControl_proofs ------------------------
(***************************************************************************)
(* What the service control manager records, from the phases a process of  *)
(* the service goes through.  The phases say who may have a report under   *)
(* way, and of what.  When no stop comes before RUNNING is recorded, no    *)
(* report comes too late to be true.  When one does, EarlyPhase bounds     *)
(* what can go wrong: ServiceMain may report RUNNING over it, once, and    *)
(* STOP_PENDING may stay the last word only after a second stop.           *)
(***************************************************************************)
EXTENDS ServiceControl, TLAPS

USE ThreadsAssumption

-----------------------------------------------------------------------------
(* Labels of ServiceMain before and after its loop. *)
BeforeLoop == {"register", "starting", "sendStarting", "started", "running", "sendRunning"}
AfterLoop == {"stopping", "stopped", "sendStopped", "returned"}
StopStates == {"STOP_PENDING", "STOPPED"}

NoProcess == pc[Main] = "none" /\ pc[Handler] = "none" /\ recorded = "STOPPED"

(* No stop has come yet; ServiceMain may have ended without a handle. *)
StartPending ==
  /\ pc[Main] \in BeforeLoop \cup {"returned"} /\ pc[Handler] = "idle"
  /\ bRunning /\ recorded = "START_PENDING" /\ stops = 0 /\ ~early
  /\ accepted <=> pc[Main] \in {"started", "running", "sendRunning"}
  /\ pc[Main] \in {"starting", "sendStarting", "started"} => state = "START_PENDING"
  /\ pc[Main] = "sendStarting" => copy[Main] = "START_PENDING"
  /\ pc[Main] \in {"running", "sendRunning"} => state = "RUNNING"
  /\ pc[Main] = "sendRunning" => copy[Main] = "RUNNING"

(* Whatever is reported now is that the service runs. *)
RunningPhase ==
  /\ pc[Main] = "loop" /\ pc[Handler] \in {"idle", "report", "send", "pending"}
  /\ bRunning /\ recorded = "RUNNING" /\ state = "RUNNING" /\ ~early
  /\ stops = IF pc[Handler] = "pending" THEN 1 ELSE 0
  /\ pc[Handler] = "send" => copy[Handler] = "RUNNING"

(* Between the handler's two assignments nothing is reported. *)
Clearing ==
  /\ pc[Main] = "loop" /\ pc[Handler] = "clear"
  /\ bRunning /\ recorded = "RUNNING" /\ state = "STOP_PENDING" /\ stops = 1 /\ ~early

(* Whatever is reported now is that the service stops. *)
StopPhase ==
  /\ pc[Main] \in {"loop"} \cup AfterLoop /\ pc[Handler] \in {"idle", "report", "send"}
  /\ ~bRunning /\ state \in StopStates /\ stops = 1 /\ ~early
  /\ recorded \in {"RUNNING"} \cup StopStates
  /\ pc[Handler] = "idle" => recorded # "RUNNING"
  /\ pc[Handler] = "send" => copy[Handler] \in StopStates
  /\ pc[Main] \in {"stopped", "sendStopped"} => state = "STOPPED"
  /\ pc[Main] = "sendStopped" => copy[Main] = "STOPPED"
  /\ pc[Main] = "returned" => recorded = "STOPPED"

MainSaysStop ==
  \/ pc[Main] \in {"running", "stopped"} /\ state = "STOP_PENDING"
  \/ pc[Main] \in {"sendRunning", "sendStopped"} /\ copy[Main] = "STOP_PENDING"

EarlyMain ==
  /\ pc[Main] \in {"started", "running", "sendRunning", "loop"} \cup AfterLoop
  /\ pc[Main] \in AfterLoop => ~bRunning
  /\ pc[Main] = "started" => recorded \in {"START_PENDING", "STOP_PENDING"}
  /\ pc[Main] = "started" => state \in {"START_PENDING", "STOP_PENDING"}
  /\ pc[Main] = "sendRunning" => copy[Main] \in {"RUNNING", "STOP_PENDING"}
  /\ pc[Main] \in {"loop"} \cup AfterLoop => recorded # "START_PENDING"
  /\ pc[Main] = "sendStopped" => copy[Main] \in StopStates
  /\ state \in {"START_PENDING", "RUNNING"} \cup StopStates
  /\ state = "START_PENDING" => pc[Main] = "started"
  /\ state = "RUNNING" => pc[Main] \in {"running", "sendRunning", "loop", "stopping"}
  /\ state = "STOPPED" => pc[Main] \in AfterLoop \ {"stopping"}

EarlyHandler ==
  /\ pc[Handler] \in {"idle", "pending", "clear", "report", "send"}
  /\ pc[Handler] \in {"clear", "report"} => state # "START_PENDING"
  /\ pc[Handler] = "send" =>
       /\ copy[Handler] \in {"RUNNING"} \cup StopStates
       /\ copy[Handler] = "STOPPED" => pc[Main] \in AfterLoop
       /\ copy[Handler] = "RUNNING" => pc[Main] # "started"
  /\ pc[Handler] # "idle" /\ recorded = "STOP_PENDING" =>
       /\ pc[Main] \in {"loop"} \cup AfterLoop
       /\ state \in StopStates
       /\ pc[Handler] = "send" => copy[Handler] \in StopStates
  /\ MainSaysStop => /\ state \in StopStates
                     /\ pc[Handler] = "send" => copy[Handler] \in StopStates

OneStop ==
  stops = 1 =>
    /\ ~bRunning => pc[Handler] \notin {"pending", "clear"}
    /\ pc[Main] \in {"stopped", "sendStopped", "returned"} => state = "STOPPED"
    /\ pc[Main] = "sendStopped" => copy[Main] = "STOPPED"
    /\ pc[Main] = "returned" => recorded = "STOPPED"

EarlyPhase == early /\ stops \in 1 .. StopCap /\ EarlyMain /\ EarlyHandler /\ OneStop

PhaseTypeOK ==
  /\ pc \in [Threads -> {"none", "loop", "idle", "report", "send", "pending", "clear"}
                         \cup BeforeLoop \cup AfterLoop]
  /\ copy \in [Threads -> States]
  /\ state \in States /\ recorded \in States
  /\ bRunning \in BOOLEAN /\ early \in BOOLEAN /\ accepted \in BOOLEAN

PhaseInv ==
  /\ PhaseTypeOK
  /\ NoProcess \/ StartPending \/ RunningPhase \/ Clearing \/ StopPhase \/ EarlyPhase

(* No process at first. *)
LEMMA InitPhase == Init => PhaseInv
BY DEF Init, PhaseInv, PhaseTypeOK, NoProcess, States

(* Every step keeps every variable in its range. *)
LEMMA NextPhaseType == PhaseTypeOK /\ [Next]_vars => PhaseTypeOK'
<1> SUFFICES ASSUME PhaseTypeOK, [Next]_vars PROVE PhaseTypeOK'
  OBVIOUS
<1> USE DEF PhaseTypeOK, BeforeLoop, AfterLoop, States
<1>1. CASE UNCHANGED vars \/ Admin \/ Remove
  <2>1. UNCHANGED processVars
    BY <1>1 DEF vars, Admin, OpenSCManager, CreateService, OpenService, DeleteService,
                AdminReturns, AdminStep, Remove
  <2> QED
    BY <2>1 DEF processVars, statusVars, managerVars, historyVars
<1> USE DEF statusVars, managerVars, historyVars, Goto
<1>2. CASE Start \/ Exit
  BY <1>2 DEF Start, Exit
<1>3. CASE RegisterFails \/ Register \/ Running \/ Loop \/ Stopped
  BY <1>3 DEF RegisterFails, Register, Running, Loop, Stopped, SetState
<1>4. CASE \/ SetServiceStatus(Main, "starting", "sendStarting")
           \/ SetServiceStatus(Main, "running", "sendRunning")
           \/ SetServiceStatus(Main, "stopped", "sendStopped")
           \/ SetServiceStatus(Handler, "report", "send")
  BY <1>4 DEF SetServiceStatus
<1>5. ASSUME NEW t \in Threads, NEW from, NEW to \in {"started", "loop", "returned", "idle"},
             Arrives(t, from, to)
      PROVE  PhaseTypeOK'
  <2>1. recorded' \in States /\ accepted' = TRUE
    BY <1>5 DEF Arrives
  <2>2. pc' = [pc EXCEPT ![t] = to] /\ UNCHANGED <<state, bRunning, copy, early>>
    BY <1>5 DEF Arrives
  <2> QED
    BY <2>1, <2>2
<1>6. CASE StopPending \/ ClearRunning
  BY <1>6 DEF StopPending, ClearRunning, SetState
<1>7. ASSUME NEW stop \in BOOLEAN, Deliver(stop) PROVE PhaseTypeOK'
  <2>1. early' \in BOOLEAN
    BY <1>7 DEF Deliver
  <2> QED
    BY <1>7, <2>1 DEF Deliver
<1> QED
  BY <1>1, <1>2, <1>3, <1>4, <1>5, <1>6, <1>7
     DEF Next, ServiceMain, ServiceHandler, ReportStarting, ReportRunning, ReportStopped, ReportControl

(* As long as no stop came early, every step keeps the phase, goes on to   *)
(* the next one, or is an early stop.                                      *)
LEMMA NextInTime ==
  ASSUME PhaseTypeOK, NoProcess \/ StartPending \/ RunningPhase \/ Clearing \/ StopPhase, Next
  PROVE  (NoProcess \/ StartPending \/ RunningPhase \/ Clearing \/ StopPhase \/ EarlyPhase)'
<1> DEFINE Goal == (NoProcess \/ StartPending \/ RunningPhase \/ Clearing \/ StopPhase \/ EarlyPhase)'
<1> USE DEF PhaseTypeOK, BeforeLoop, AfterLoop, StopStates, States
<1>1. CASE Admin \/ Remove
  <2>1. UNCHANGED processVars
    BY <1>1 DEF Admin, OpenSCManager, CreateService, OpenService, DeleteService,
                AdminReturns, AdminStep, Remove
  <2> QED
    BY <2>1 DEF processVars, statusVars, managerVars, historyVars,
                NoProcess, StartPending, RunningPhase, Clearing, StopPhase
<1> USE DEF statusVars, managerVars, historyVars, Goto
<1>2. CASE Start
  BY <1>2 DEF Start, StartPending
<1>3. CASE Exit
  BY <1>3 DEF Exit, NoProcess
<1>4. CASE RegisterFails \/ Register \/ Running
  BY <1>4 DEF RegisterFails, Register, Running, SetState,
              NoProcess, StartPending, RunningPhase, Clearing, StopPhase
<1>5. CASE ReportStarting
  BY <1>5 DEF ReportStarting, SetServiceStatus, Arrives,
              NoProcess, StartPending, RunningPhase, Clearing, StopPhase
<1>6. CASE ReportRunning
  BY <1>6 DEF ReportRunning, SetServiceStatus, Arrives,
              NoProcess, StartPending, RunningPhase, Clearing, StopPhase
<1>7. CASE Loop \/ Stopped
  BY <1>7 DEF Loop, Stopped, SetState, NoProcess, StartPending, RunningPhase, Clearing, StopPhase
<1>8. CASE ReportStopped
  BY <1>8 DEF ReportStopped, SetServiceStatus, Arrives,
              NoProcess, StartPending, RunningPhase, Clearing, StopPhase
<1>9. ASSUME NEW stop \in BOOLEAN, Deliver(stop) PROVE Goal
  <2>1. CASE StartPending
    <3>1. stop = TRUE /\ pc[Main] \in {"started", "running", "sendRunning"}
      BY <1>9, <2>1 DEF Deliver, StartPending
    <3>2. early'
      BY <1>9, <2>1 DEF Deliver, StartPending
    <3>3. stops' = 1 /\ pc' = [pc EXCEPT ![Handler] = "pending"]
      BY <1>9, <2>1, <3>1 DEF Deliver, StartPending, StopCap
    <3>4. UNCHANGED <<state, bRunning, copy, recorded, accepted>>
      BY <1>9 DEF Deliver
    <3>5. EarlyPhase'
      BY <2>1, <3>1, <3>2, <3>3, <3>4
         DEF StartPending, StopCap, EarlyPhase, EarlyMain, EarlyHandler, MainSaysStop, OneStop
    <3> QED
      BY <3>5
  <2>2. CASE ~StartPending
    BY <1>9, <2>2 DEF Deliver, StopCap, NoProcess, RunningPhase, Clearing, StopPhase
  <2> QED
    BY <2>1, <2>2
<1>10. CASE StopPending \/ ClearRunning
  BY <1>10 DEF StopPending, ClearRunning, SetState,
               NoProcess, StartPending, RunningPhase, Clearing, StopPhase
<1>11. CASE ReportControl
  BY <1>11 DEF ReportControl, SetServiceStatus, Arrives,
               NoProcess, StartPending, RunningPhase, Clearing, StopPhase
<1> QED
  BY <1>1, <1>2, <1>3, <1>4, <1>5, <1>6, <1>7, <1>8, <1>9, <1>10, <1>11
     DEF Next, ServiceMain, ServiceHandler

(* After an early stop the process stays in EarlyPhase until it exits. *)
LEMMA NextEarly ==
  ASSUME PhaseTypeOK, EarlyPhase, Next
  PROVE  (NoProcess \/ EarlyPhase)'
<1> USE DEF PhaseTypeOK, EarlyPhase, EarlyMain, EarlyHandler, MainSaysStop, OneStop,
            AfterLoop, StopStates, StopCap
<1>1. CASE Admin \/ Remove
  <2>1. UNCHANGED processVars
    BY <1>1 DEF Admin, OpenSCManager, CreateService, OpenService, DeleteService,
                AdminReturns, AdminStep, Remove
  <2> QED
    BY <2>1 DEF processVars, statusVars, managerVars, historyVars
<1> USE DEF statusVars, managerVars, historyVars, Goto
<1>2. CASE Start \/ RegisterFails \/ Register \/ ReportStarting
  BY <1>2 DEF Start, RegisterFails, Register, ReportStarting, SetState, SetServiceStatus, Arrives
<1>3. CASE Exit
  BY <1>3 DEF Exit, NoProcess
<1>4. CASE Running
  BY <1>4 DEF Running, SetState
<1>5. CASE SetServiceStatus(Main, "running", "sendRunning")
  BY <1>5 DEF SetServiceStatus
<1>6. CASE Arrives(Main, "sendRunning", "loop")
  BY <1>6 DEF Arrives
<1>7. CASE Loop
  BY <1>7 DEF Loop
<1>8. CASE Stopped
  BY <1>8 DEF Stopped, SetState
<1>9. CASE SetServiceStatus(Main, "stopped", "sendStopped")
  BY <1>9 DEF SetServiceStatus
<1>10. CASE Arrives(Main, "sendStopped", "returned")
  BY <1>10 DEF Arrives
<1>11. ASSUME NEW stop \in BOOLEAN, Deliver(stop) PROVE EarlyPhase'
  <2>1. early'
    BY <1>11 DEF Deliver
  <2>2. pc' = [pc EXCEPT ![Handler] = IF stop THEN "pending" ELSE "report"]
    BY <1>11 DEF Deliver
  <2>3. recorded = "RUNNING" \/ (stop = TRUE /\ recorded = "START_PENDING")
    BY <1>11 DEF Deliver
  <2>4. UNCHANGED <<state, bRunning, copy, recorded>> /\ pc[Handler] = "idle"
    BY <1>11 DEF Deliver
  <2>5. stops' \in 1 .. StopCap
    BY <1>11 DEF Deliver
  <2>6. stops' = 1 => stop = FALSE /\ stops = 1
    BY <1>11 DEF Deliver
  <2>7. EarlyMain'
    BY <2>2, <2>4
  <2>8. EarlyHandler'
    BY <2>2, <2>3, <2>4
  <2>9. OneStop'
    BY <2>2, <2>4, <2>6
  <2> QED
    BY <2>1, <2>5, <2>7, <2>8, <2>9
<1>12. CASE StopPending
  BY <1>12 DEF StopPending, SetState
<1>13. CASE ClearRunning
  BY <1>13 DEF ClearRunning
<1>14. CASE SetServiceStatus(Handler, "report", "send")
  BY <1>14 DEF SetServiceStatus
<1>15. CASE Arrives(Handler, "send", "idle")
  BY <1>15 DEF Arrives
<1> QED
  BY <1>1, <1>2, <1>3, <1>4, <1>5, <1>6, <1>7, <1>8, <1>9, <1>10, <1>11, <1>12, <1>13, <1>14, <1>15
     DEF Next, ServiceMain, ServiceHandler, ReportRunning, ReportStopped, ReportControl

(* So the phases are inductive, *)
LEMMA NextPhase == PhaseInv /\ [Next]_vars => PhaseInv'
<1> SUFFICES ASSUME PhaseInv, [Next]_vars PROVE PhaseInv'
  OBVIOUS
<1>1. PhaseTypeOK'
  BY NextPhaseType DEF PhaseInv
<1>2. CASE UNCHANGED vars
  BY <1>1, <1>2
     DEF PhaseInv, vars, processVars, statusVars, managerVars, historyVars, NoProcess, StartPending,
         RunningPhase, Clearing, StopPhase, EarlyPhase, EarlyMain, EarlyHandler, MainSaysStop, OneStop
<1>3. CASE Next /\ EarlyPhase
  <2>1. (NoProcess \/ EarlyPhase)'
    BY <1>3, NextEarly DEF PhaseInv
  <2> QED
    BY <1>1, <2>1 DEF PhaseInv
<1>4. CASE Next /\ ~EarlyPhase
  <2>1. (NoProcess \/ StartPending \/ RunningPhase \/ Clearing \/ StopPhase \/ EarlyPhase)'
    BY <1>4, NextInTime DEF PhaseInv
  <2> QED
    BY <1>1, <2>1 DEF PhaseInv
<1> QED
  BY <1>2, <1>3, <1>4

(* and hold in every state. *)
LEMMA PhaseCorrect == Spec => []PhaseInv
BY InitPhase, NextPhase, PTL DEF Spec

(* Only the reports of the two threads, and a new process, change what is  *)
(* recorded.                                                               *)
LEMMA OnlyReportsRecord ==
  ASSUME [Next]_vars, ~ReportStarting, ~ReportRunning, ~ReportStopped, ~ReportControl, ~Start
  PROVE  recorded' = recorded
BY DEF vars, processVars, managerVars, Next, ServiceMain, ServiceHandler, RegisterFails, Register,
       Running, Loop, Stopped, StopPending, ClearRunning, Deliver, SetState, Exit, Admin,
       OpenSCManager, CreateService, OpenService, DeleteService, AdminReturns, AdminStep, Remove

-----------------------------------------------------------------------------
(* Theorems.                                                               *)

(* A stop that is recorded is undone only by ServiceMain's report that it  *)
(* has started, and only if a stop came before RUNNING was recorded: no    *)
(* late report of ServiceHandler undoes one.                               *)
THEOREM UndoneOnlyByStartCorrect == Spec => UndoneOnlyByStart
<1>1. PhaseInv /\ [Next]_vars =>
        [(recorded \in {"STOP_PENDING", "STOPPED"} /\ recorded' = "RUNNING") =>
           early /\ pc[Main] = "sendRunning"]_vars
  <2> SUFFICES ASSUME PhaseInv, Next, recorded \in {"STOP_PENDING", "STOPPED"}, recorded' = "RUNNING"
               PROVE  early /\ pc[Main] = "sendRunning"
    OBVIOUS
  <2> USE DEF PhaseInv, BeforeLoop, AfterLoop, StopStates, NoProcess, StartPending, RunningPhase,
              Clearing, StopPhase, EarlyPhase
  <2>1. CASE ReportStarting
    BY <2>1 DEF ReportStarting, SetServiceStatus, Arrives, managerVars, EarlyMain
  <2>2. CASE ReportRunning
    BY <2>2 DEF ReportRunning, SetServiceStatus, Arrives, managerVars
  <2>3. CASE ReportStopped
    BY <2>3 DEF ReportStopped, SetServiceStatus, Arrives, managerVars, EarlyMain
  <2>4. CASE ReportControl
    BY <2>4 DEF ReportControl, SetServiceStatus, Arrives, managerVars, EarlyHandler
  <2>5. CASE Start
    BY <2>5 DEF Start
  <2> QED
    BY <2>1, <2>2, <2>3, <2>4, <2>5, OnlyReportsRecord
<1> QED
  BY <1>1, PhaseCorrect, PTL DEF Spec, UndoneOnlyByStart

(* When ServiceMain has returned after one stop, the service is recorded   *)
(* as stopped, also when that stop came while it started: it is not left   *)
(* at the handler's STOP_PENDING.                                          *)
StopRecorded == stops = 1 /\ pc[Main] = "returned" => recorded = "STOPPED"

(* A single stop is recorded by the time ServiceMain has returned. *)
THEOREM StopRecordedCorrect == Spec => []StopRecorded
<1>1. PhaseInv => StopRecorded
  BY DEF PhaseInv, StopRecorded, NoProcess, StartPending, RunningPhase, Clearing, StopPhase,
         EarlyPhase, OneStop
<1> QED
  BY <1>1, PhaseCorrect, PTL

(* Only a process whose first stop came while it started takes a second:   *)
(* so StoppedTwice is no more than what its comment says, and any other    *)
(* process takes one stop and reports it (svc.cpp:19 and 65).              *)
SecondStopNeedsEarly == pc[Main] # "none" /\ stops > 1 => early

(* A second stop follows only on an early one. *)
THEOREM SecondStopNeedsEarlyCorrect == Spec => []SecondStopNeedsEarly
<1>1. PhaseInv => SecondStopNeedsEarly
  BY DEF PhaseInv, SecondStopNeedsEarly, NoProcess, StartPending, RunningPhase, Clearing, StopPhase,
         EarlyPhase
<1> QED
  BY <1>1, PhaseCorrect, PTL

(* The recorded state follows the life of a service: it leaves RUNNING     *)
(* only after a stop or shutdown, and takes a step out of order only if    *)
(* one came while the service started (ServiceMain and ServiceHandler).    *)
PathStep ==
  /\ recorded = "STOPPED" => recorded' \in {"STOPPED", "START_PENDING"}
  /\ recorded = "START_PENDING" => \/ recorded' \in {"START_PENDING", "RUNNING"}
                                   \/ early /\ recorded' = "STOP_PENDING"
  /\ recorded = "RUNNING" => recorded' = "RUNNING" \/ (stops > 0 /\ recorded' \in StopStates)
  /\ recorded = "STOP_PENDING" => \/ recorded' \in StopStates
                                  \/ early /\ recorded' = "RUNNING"

(* Every step of the service control manager's record is one of those. *)
StatusPath == [][PathStep]_vars

(* The record takes the path of a service's life, also under an early stop *)
(* but for the two steps that one allows.                                  *)
THEOREM StatusPathCorrect == Spec => StatusPath
<1>1. PhaseInv /\ [Next]_vars => [PathStep]_vars
  <2> SUFFICES ASSUME PhaseInv, Next PROVE PathStep
    OBVIOUS
  <2> USE DEF PhaseInv, PathStep, BeforeLoop, AfterLoop, StopStates, NoProcess, StartPending,
              RunningPhase, Clearing, StopPhase, EarlyPhase, StopCap
  <2>1. CASE ReportStarting
    BY <2>1 DEF ReportStarting, SetServiceStatus, Arrives, managerVars, EarlyMain
  <2>2. CASE ReportRunning
    BY <2>2 DEF ReportRunning, SetServiceStatus, Arrives, managerVars, EarlyMain
  <2>3. CASE ReportStopped
    BY <2>3 DEF ReportStopped, SetServiceStatus, Arrives, managerVars, EarlyMain
  <2>4. CASE ReportControl
    BY <2>4 DEF ReportControl, SetServiceStatus, Arrives, managerVars, EarlyMain, EarlyHandler
  <2>5. CASE Start
    BY <2>5 DEF Start
  <2>6. CASE recorded' = recorded
    BY <2>6 DEF PhaseTypeOK, States
  <2> QED
    BY <2>1, <2>2, <2>3, <2>4, <2>5, <2>6, OnlyReportsRecord
<1> QED
  BY <1>1, PhaseCorrect, PTL DEF Spec, StatusPath
=============================================================================
