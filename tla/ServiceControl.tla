---------------------------- MODULE ServiceControl ----------------------------
(***************************************************************************)
(* The Windows service (STUNsvc/svc.cpp, started by STUNsvc/main.cpp):     *)
(* ServiceMain on one thread, ServiceHandler on the thread of the control  *)
(* dispatcher, both writing serviceStatus and bRunning without a lock and  *)
(* reporting the status to the service control manager; and InstallService *)
(* and UninstallService, called by an administrator's process meanwhile.   *)
(*                                                                         *)
(* SetServiceStatus takes a copy of the status and sends it: two steps, so *)
(* that the copies of two threads may arrive in either order.              *)
(***************************************************************************)

EXTENDS Naturals

CONSTANTS
  Threads,  \* the two threads: Main and Handler
  Main,     \* runs ServiceMain
  Handler   \* runs the dispatcher, and ServiceHandler for one control at a time

ASSUME ThreadsAssumption == Threads = {Main, Handler} /\ Main # Handler

VARIABLES
  pc,        \* where each thread is; "none" when there is no process
  state,     \* serviceStatus.dwCurrentState
  bRunning,
  copy,      \* the state in each thread's call of SetServiceStatus
  recorded,  \* the state the service control manager has recorded
  accepted,  \* and whether it has recorded dwControlsAccepted
  stops,     \* history: stops delivered to this process, counted up to StopCap
  early,     \* history: one of them came before RUNNING was first recorded
  entry,     \* the service in the manager's database
  admin,     \* where InstallService or UninstallService is
  handles    \* handles that call has open

statusVars == <<state, bRunning, copy>>
managerVars == <<recorded, accepted>>
historyVars == <<stops, early>>
processVars == <<pc, statusVars, managerVars, historyVars>>
adminVars == <<entry, admin, handles>>
vars == <<processVars, adminVars>>

StopCap == 2  \* bound: the code does not tell more stops apart

States == {"none", "START_PENDING", "RUNNING", "STOP_PENDING", "STOPPED"}

Init ==
  /\ pc = [t \in Threads |-> "none"]
  /\ state = "none"
  /\ bRunning = TRUE
  /\ copy = [t \in Threads |-> "none"]
  /\ recorded = "STOPPED" /\ accepted = FALSE
  /\ stops = 0 /\ early = FALSE
  /\ entry = "absent" /\ admin = "idle" /\ handles = {}

Goto(t, label) == pc' = [pc EXCEPT ![t] = label]

-----------------------------------------------------------------------------
(* SetServiceStatus: at from the status is copied, at sending it arrives.  *)
(* Once STOPPED has arrived the handle is closed and nothing else counts.  *)

SetServiceStatus(t, from, sending) ==
  /\ pc[t] = from
  /\ copy' = [copy EXCEPT ![t] = state]
  /\ Goto(t, sending)
  /\ UNCHANGED <<state, bRunning, managerVars, historyVars, adminVars>>

Arrives(t, sending, next) ==
  /\ pc[t] = sending
  /\ recorded' = IF recorded = "STOPPED" THEN recorded ELSE copy[t]
  /\ accepted' = TRUE
  /\ Goto(t, next)
  /\ UNCHANGED <<statusVars, historyVars, adminVars>>

SetState(t, from, value, next) ==
  /\ pc[t] = from
  /\ state' = value
  /\ Goto(t, next)
  /\ UNCHANGED <<bRunning, copy, managerVars, historyVars, adminVars>>

-----------------------------------------------------------------------------
(* The process: wmain enters the dispatcher, which runs ServiceMain on a   *)
(* thread of its own and returns once the service has stopped.             *)

Start ==
  /\ entry = "installed" /\ recorded = "STOPPED" /\ pc[Main] = "none"
  /\ pc' = [t \in Threads |-> IF t = Main THEN "register" ELSE "idle"]
  /\ state' = "none" /\ bRunning' = TRUE
  /\ copy' = [t \in Threads |-> "none"]
  /\ recorded' = "START_PENDING" /\ accepted' = FALSE
  /\ stops' = 0 /\ early' = FALSE
  /\ UNCHANGED adminVars

Exit ==
  /\ recorded = "STOPPED" /\ pc[Main] = "returned" /\ pc[Handler] = "idle"
  /\ pc' = [t \in Threads |-> "none"]
  /\ UNCHANGED <<statusVars, managerVars, historyVars, adminVars>>

-----------------------------------------------------------------------------
(* ServiceMain. *)

(* Without a handle it returns at once, and reports nothing. *)
RegisterFails ==
  /\ pc[Main] = "register"
  /\ Goto(Main, "returned")
  /\ UNCHANGED <<statusVars, managerVars, historyVars, adminVars>>

(* The status is filled in.  It already says that stops are accepted. *)
Register == SetState(Main, "register", "START_PENDING", "starting")
ReportStarting ==
  \/ SetServiceStatus(Main, "starting", "sendStarting")
  \/ Arrives(Main, "sendStarting", "started")

(* Mutant: ServiceMain sets bRunning, instead of its initialisation. *)
BuggyRunning ==
  /\ pc[Main] = "started"
  /\ state' = "RUNNING" /\ bRunning' = TRUE
  /\ Goto(Main, "running")
  /\ UNCHANGED <<copy, managerVars, historyVars, adminVars>>

(* Whatever the handler wrote in the meantime is overwritten. *)
Running == SetState(Main, "started", "RUNNING", "running")
ReportRunning ==
  \/ SetServiceStatus(Main, "running", "sendRunning")
  \/ Arrives(Main, "sendRunning", "loop")

(* Mutant: each turn of the loop reports that the service runs. *)
BuggyLoop ==
  /\ pc[Main] = "loop"
  /\ Goto(Main, IF bRunning THEN "started" ELSE "stopping")
  /\ UNCHANGED <<statusVars, managerVars, historyVars, adminVars>>

(* while (bRunning) Sleep(1000): a turn of the loop changes nothing. *)
Loop ==
  /\ pc[Main] = "loop" /\ ~bRunning
  /\ Goto(Main, "stopping")
  /\ UNCHANGED <<statusVars, managerVars, historyVars, adminVars>>

Stopped == SetState(Main, "stopping", "STOPPED", "stopped")
ReportStopped ==
  \/ SetServiceStatus(Main, "stopped", "sendStopped")
  \/ Arrives(Main, "sendStopped", "returned")

ServiceMain ==
  \/ RegisterFails \/ Register \/ ReportStarting \/ Running \/ ReportRunning
  \/ Loop \/ Stopped \/ ReportStopped

-----------------------------------------------------------------------------
(* ServiceHandler.  The service control manager delivers one control at a  *)
(* time: a stop also to a service that starts, from the first report on,   *)
(* since that says that stops are accepted; others once RUNNING is         *)
(* recorded.                                                               *)

Deliver(stop) ==
  /\ pc[Handler] = "idle"
  /\ \/ recorded = "RUNNING"
     \/ stop /\ recorded = "START_PENDING" /\ accepted
  /\ Goto(Handler, IF stop THEN "pending" ELSE "report")
  /\ stops' = IF stop /\ stops < StopCap THEN stops + 1 ELSE stops
  /\ early' = (early \/ recorded = "START_PENDING")
  /\ UNCHANGED <<statusVars, managerVars, adminVars>>

(* SERVICE_CONTROL_STOP and SERVICE_CONTROL_SHUTDOWN. *)
StopPending == SetState(Handler, "pending", "STOP_PENDING", "clear")
ClearRunning ==
  /\ pc[Handler] = "clear"
  /\ bRunning' = FALSE
  /\ Goto(Handler, "report")
  /\ UNCHANGED <<state, copy, managerVars, historyVars, adminVars>>

(* Every control ends with a report of the status as it is now. *)
ReportControl ==
  \/ SetServiceStatus(Handler, "report", "send")
  \/ Arrives(Handler, "send", "idle")

ServiceHandler == StopPending \/ ClearRunning \/ ReportControl

-----------------------------------------------------------------------------
(* InstallService and UninstallService: a handle to the manager, then one  *)
(* to the service.  Either may be refused; what was opened is closed.      *)

AdminStep(from, to) ==
  /\ admin = from /\ admin' = to
  /\ UNCHANGED processVars

OpenSCManager ==
  /\ \E call \in {"create", "open"} : AdminStep("idle", call)
  /\ handles' = {"manager"}
  /\ UNCHANGED entry

(* CreateService succeeds only for a name that is not in the database. *)
CreateService ==
  /\ AdminStep("create", "close")
  /\ \/ /\ entry = "absent"
        /\ entry' = "installed" /\ handles' = handles \cup {"service"}
     \/ UNCHANGED <<entry, handles>>

OpenService ==
  \/ /\ AdminStep("open", "delete") /\ entry # "absent"
     /\ handles' = handles \cup {"service"} /\ UNCHANGED entry
  \/ AdminStep("open", "close") /\ UNCHANGED <<entry, handles>>

(* DeleteService only marks the service for deletion. *)
DeleteService ==
  /\ AdminStep("delete", "close")
  /\ entry' \in {entry, "marked"}
  /\ UNCHANGED handles

(* Mutant: only the manager's handle is closed. *)
BuggyCloseServiceHandle == handles' = handles \ {"manager"}
CloseServiceHandle == handles' = {}

AdminReturns ==
  /\ AdminStep("close", "idle")
  /\ CloseServiceHandle
  /\ UNCHANGED entry

Admin == OpenSCManager \/ CreateService \/ OpenService \/ DeleteService \/ AdminReturns

(* The manager removes a service that is marked, stopped and not open. *)
Remove ==
  /\ entry = "marked" /\ recorded = "STOPPED" /\ "service" \notin handles
  /\ entry' = "absent"
  /\ UNCHANGED <<processVars, admin, handles>>

-----------------------------------------------------------------------------
Next ==
  \/ Start \/ Exit \/ ServiceMain \/ ServiceHandler
  \/ \E stop \in BOOLEAN : Deliver(stop)
  \/ Admin \/ Remove

Spec == Init /\ [][Next]_vars

(* Both threads are scheduled, calls of the administrator go on and the    *)
(* manager does its part.  No control and no call need be made.            *)
Fairness ==
  /\ WF_vars(ServiceMain) /\ WF_vars(ServiceHandler) /\ WF_vars(Exit)
  /\ WF_vars(Admin /\ admin # "idle") /\ SF_vars(Remove)

FairSpec == Spec /\ Fairness

-----------------------------------------------------------------------------
(* Properties.                                                             *)

(* A service that is recorded as stopping, or stopped, is recorded as      *)
(* running again only by ServiceMain's report that it has started, and     *)
(* only if a stop came before that: no late report of the handler undoes a *)
(* stop, and nothing undoes one that came when the service ran.            *)
UndoneOnlyByStart ==
  [][(recorded \in {"STOP_PENDING", "STOPPED"} /\ recorded' = "RUNNING") =>
       early /\ pc[Main] = "sendRunning"]_vars

(* A stop undone like that leaves the way open for another, which may      *)
(* overwrite STOPPED before ServiceMain reports it (svc.cpp:19 and 65).    *)
StoppedTwice == early /\ stops = StopCap

(* A stop is not lost, whether it came while ServiceMain started or when   *)
(* it was in its loop: the service is recorded as stopped.                 *)
StopEndsStopped == stops > 0 ~> recorded = "STOPPED" \/ StoppedTwice

(* A service that was uninstalled while it ran goes away once it is        *)
(* stopped: neither call keeps a handle to it, whichever step failed.      *)
UninstallCompletes == entry = "marked" /\ stops > 0 ~> entry = "absent" \/ StoppedTwice
=============================================================================
