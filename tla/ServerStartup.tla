----------------------------- MODULE ServerStartup ----------------------------
(***************************************************************************)
(* main() of the STUN server (STUNsvc/server/main.cpp): a server for each  *)
(* entry of the configuration, started one after the other; a wait for a   *)
(* signal; the end of all servers.                                         *)
(*                                                                         *)
(* The i-th server is known by i.  A server object is destroyed when the   *)
(* last pointer to it goes: cur, the pointer of the loop's body, or the    *)
(* list it was pushed to.                                                  *)
(***************************************************************************)
EXTENDS ServerConfig, Sequences

CONSTANTS
  CommandLines,  \* what the options of the command line may be
  Files,         \* what a configuration file may hold: sequences of options
  MaxServers,    \* bound: entries of a configuration file
  Taken,         \* addresses other programs have bound, in both families
  Faults         \* "init" and "start", the server's calls that may fail

ASSUME StartupAssumption ==
  /\ CommandLines \subseteq Args /\ Files \subseteq Seq(Args)
  /\ MaxServers \in Nat \ {0}
  /\ \A f \in Files : Len(f) <= MaxServers
  /\ Faults \subseteq {"init", "start"}

MayFail(f) == f \in Faults
ExitSignals == {"SIGINT", "SIGTERM"}
Servers == 1 .. MaxServers
None == 0
NoConfig == [fTCP |-> FALSE, nMaxConnections |-> 0, family |-> "4", addr |-> <<>>,
             fReuseAddr |-> FALSE]

VARIABLES
  pc,          \* where main() is
  argsVector,  \* the configurations to start
  itor,        \* the one the loop is at
  hr,          \* SUCCEEDED(hr)
  cur,         \* the server the loop's own pointer holds
  config,      \* each server's configuration
  stage,       \* and its stage
  udpServers,  \* the servers that were started, in this order
  tcpServers,
  todo,        \* those the current loop has yet to stop
  signal,      \* the signal sent: "none", one of ExitSignals, or "taken"
  code         \* what main() returns

progVars == <<argsVector, itor, hr>>
servVars == <<cur, config, stage>>
listVars == <<udpServers, tcpServers, todo>>
vars == <<pc, progVars, servVars, listVars, signal, code>>

Init ==
  /\ pc = "parse" /\ argsVector = <<>> /\ itor = 1 /\ hr = TRUE
  /\ cur = None
  /\ config = [i \in Servers |-> NoConfig]
  /\ stage = [i \in Servers |-> "none"]
  /\ udpServers = {} /\ tcpServers = {} /\ todo = {}
  /\ signal = "none" /\ code = None

Goto(where) == pc' = where
SetStage(i, s) == stage' = [stage EXCEPT ![i] = s]

(* Servers with open sockets. *)
Open == {i \in Servers : stage[i] \in {"bound", "running", "stopped"}}

(* Two sockets of a protocol and a family cannot have the same port of the *)
(* same address, or of one address and all of them, unless both are UDP    *)
(* sockets that allow it.                                                  *)
Clash(c, d) ==
  /\ c.fTCP = d.fTCP /\ c.family = d.family
  /\ c.fTCP \/ ~c.fReuseAddr \/ ~d.fReuseAddr
  /\ \E r \in DOMAIN c.addr, q \in DOMAIN d.addr :
       /\ c.addr[r][2] = d.addr[q][2]
       /\ c.addr[r][1] = d.addr[q][1] \/ Any \in {c.addr[r][1], d.addr[q][1]}

Available(c) ==
  /\ \A i \in Open : ~Clash(c, config[i])
  /\ \A r \in DOMAIN c.addr : c.addr[r] \notin Taken

-----------------------------------------------------------------------------
(* Options, or the configuration file (ParseCommandLineArgs,               *)
(* LoadConfigsFromFile), or neither.                                       *)
Return(n) ==
  /\ Goto("exited") /\ code' = n
  /\ UNCHANGED <<progVars, servVars, listVars, signal>>

UsageOrBadFile == pc = "parse" /\ \E n \in {-1, -2, -3} : Return(n)

Configured ==
  /\ pc = "parse"
  /\ argsVector' \in {<<args>> : args \in CommandLines} \cup (Files \ {<<>>})
  /\ Goto("loop")
  /\ UNCHANGED <<itor, hr, servVars, listVars, signal, code>>

(* The loop: BuildServerConfigurationFromArgs for the next entry.          *)
Build ==
  /\ pc = "loop" /\ itor <= Len(argsVector)
  /\ \E c \in BuildServerConfigurationFromArgs(argsVector[itor]) :
       config' = [config EXCEPT ![itor] = c]
  /\ Goto("create")
  /\ UNCHANGED <<progVars, cur, stage, listVars, signal, code>>

BuildFails ==
  /\ pc = "loop" /\ itor <= Len(argsVector)
  /\ BuildServerConfigurationFromArgs(argsVector[itor]) = {}
  /\ hr' = FALSE /\ Goto("started")
  /\ UNCHANGED <<argsVector, itor, servVars, listVars, signal, code>>

(* CreateInstance: the server's sockets are bound, all or none. *)
CreateInstance ==
  /\ pc = "create"
  /\ Available(config[itor]) /\ (config[itor].fTCP => InitAccepts(config[itor]))
  /\ cur' = itor /\ SetStage(itor, "bound") /\ Goto("start")
  /\ UNCHANGED <<progVars, config, listVars, signal, code>>

(* It fails: what was bound is closed again, the object is released. *)
CreateFails ==
  /\ pc = "create"
  /\ \/ ~Available(config[itor]) \/ MayFail("init")
     \/ config[itor].fTCP /\ ~InitAccepts(config[itor])
  /\ hr' = FALSE /\ Goto("started")
  /\ UNCHANGED <<argsVector, itor, servVars, listVars, signal, code>>

(* Start: one thread, since main() leaves fMultiThreadedMode false. *)
StartServer ==
  /\ pc = "start"
  /\ SetStage(itor, "running") /\ Goto("push")
  /\ UNCHANGED <<progVars, cur, config, listVars, signal, code>>

StartFails ==
  /\ pc = "start" /\ MayFail("start")
  /\ hr' = FALSE /\ Goto("release")
  /\ UNCHANGED <<argsVector, itor, servVars, listVars, signal, code>>

(* Mutant: the server is not put on a list. *)
BuggyPush ==
  /\ pc = "push"
  /\ Goto("release")
  /\ UNCHANGED <<progVars, servVars, listVars, signal, code>>

Push ==
  /\ pc = "push"
  /\ IF config[itor].fTCP
     THEN tcpServers' = tcpServers \cup {itor} /\ UNCHANGED udpServers
     ELSE udpServers' = udpServers \cup {itor} /\ UNCHANGED tcpServers
  /\ Goto("release")
  /\ UNCHANGED <<progVars, servVars, todo, signal, code>>

Held(i) == i \in udpServers \cup tcpServers

(* Mutant: a server that failed to start is not released. *)
BuggyRelease == UNCHANGED stage

(* The pointer of the loop's body goes, and with it a server of no list. *)
Release ==
  IF Held(cur) THEN UNCHANGED stage ELSE SetStage(cur, "destroyed")

(* Mutant: a failed server is passed over. *)
BuggyAfter == IF hr THEN "loop" ELSE "wait"
(* break, or the next entry *)
After == IF hr THEN "loop" ELSE "started"

EndOfBody ==
  /\ pc = "release"
  /\ Release /\ cur' = None
  /\ itor' = itor + 1
  /\ Goto(After)
  /\ UNCHANGED <<argsVector, hr, config, listVars, signal, code>>

LoopDone ==
  /\ pc = "loop" /\ itor > Len(argsVector)
  /\ Goto("started")
  /\ UNCHANGED <<progVars, servVars, listVars, signal, code>>

-----------------------------------------------------------------------------
(* Success: wait for a signal (WaitForAppExitSignal).  Then, or at once    *)
(* after a failure, stop the UDP servers and then the TCP servers.         *)
BeginWait ==
  /\ pc = "started" /\ hr
  /\ Goto("wait")
  /\ UNCHANGED <<progVars, servVars, listVars, signal, code>>

(* Mutant: the first loop goes through both lists. *)
BuggyStopAll == Goto("stopUdp") /\ todo' = udpServers \cup tcpServers
StopAll == Goto("stopUdp") /\ todo' = udpServers

GiveUp ==
  /\ pc = "started" /\ ~hr
  /\ StopAll
  /\ UNCHANGED <<progVars, servVars, udpServers, tcpServers, signal, code>>

(* Mutant: the loop goes on after SIGTERM. *)
BuggyAppExitSignal == signal = "SIGINT" /\ signal' = "taken"
(* sigwait takes the signal, pending since before the wait or not. *)
AppExitSignal == signal \in ExitSignals /\ signal' = "taken"

WaitForAppExitSignal ==
  /\ pc = "wait" /\ AppExitSignal
  /\ StopAll
  /\ UNCHANGED <<progVars, servVars, udpServers, tcpServers, code>>

First(S) == CHOOSE i \in S : \A j \in S : i <= j

(* CStunServer::Stop() ends the threads and keeps the sockets;             *)
(* CTCPServer::Stop() is Shutdown().                                       *)
StopServer(i) ==
  /\ pc \in {"stopUdp", "stopTcp"} /\ i \in todo /\ i = First(todo)
  /\ SetStage(i, IF config[i].fTCP THEN "closed" ELSE "stopped")
  /\ todo' = todo \ {i}
  /\ UNCHANGED <<pc, progVars, cur, config, udpServers, tcpServers, signal, code>>

StopTCP ==
  /\ pc = "stopUdp" /\ todo = {}
  /\ Goto("stopTcp") /\ todo' = tcpServers
  /\ UNCHANGED <<progVars, servVars, udpServers, tcpServers, signal, code>>

(* Mutant: only the UDP servers are destroyed. *)
BuggyDestroyed == udpServers
Destroyed == udpServers \cup tcpServers

(* return 0 destroys the lists, and with them the servers. *)
ReturnFromMain ==
  /\ pc = "stopTcp" /\ todo = {}
  /\ Goto("exited") /\ code' = 0
  /\ stage' = [i \in Servers |-> IF i \in Destroyed THEN "destroyed" ELSE stage[i]]
  /\ udpServers' = {} /\ tcpServers' = {}
  /\ UNCHANGED <<progVars, cur, config, todo, signal>>

(* SIGINT or SIGTERM, blocked in every thread. *)
Signal ==
  /\ pc # "exited" /\ signal = "none"
  /\ signal' \in ExitSignals
  /\ UNCHANGED <<pc, progVars, servVars, listVars, code>>

-----------------------------------------------------------------------------
Main ==
  \/ UsageOrBadFile \/ Configured
  \/ Build \/ BuildFails \/ CreateInstance \/ CreateFails \/ StartServer \/ StartFails
  \/ Push \/ EndOfBody \/ LoopDone
  \/ BeginWait \/ GiveUp \/ WaitForAppExitSignal
  \/ (\E i \in Servers : StopServer(i)) \/ StopTCP \/ ReturnFromMain

Next == Main \/ Signal

Spec == Init /\ [][Next]_vars

(* main() runs: nothing is assumed of signals. *)
FairSpec == Spec /\ WF_vars(Main)

-----------------------------------------------------------------------------
(* Properties.                                                             *)

(* Every variable keeps its type; the loop's pointer holds a server only   *)
(* in the loop's body.                                                     *)
TypeOK ==
  /\ pc \in {"parse", "loop", "create", "start", "push", "release", "started", "wait",
             "stopUdp", "stopTcp", "exited"}
  /\ argsVector \in Seq(Args) /\ Len(argsVector) <= MaxServers
  /\ itor \in 1 .. MaxServers + 1 /\ hr \in BOOLEAN
  /\ pc \in {"create", "start", "push", "release"} => itor <= Len(argsVector)
  /\ cur = IF pc \in {"start", "push", "release"} THEN itor ELSE None
  /\ stage \in [Servers -> {"none", "bound", "running", "stopped", "closed", "destroyed"}]
  /\ udpServers \subseteq Servers /\ tcpServers \subseteq Servers
  /\ todo \subseteq IF pc = "stopUdp" THEN udpServers ELSE tcpServers
  /\ signal \in {"none", "taken"} \cup ExitSignals
  /\ code \in {None, -1, -2, -3}

(* A server exists while main() has a pointer to it, and only then: none   *)
(* runs that could not be stopped.                                         *)
ServersHeld ==
  \A i \in Servers : (stage[i] \notin {"none", "destroyed"}) = (i = cur \/ Held(i))

(* main() waits only when there is a running server for every entry of the *)
(* configuration.                                                          *)
WaitsServing == pc = "wait" => \A i \in 1 .. Len(argsVector) : stage[i] = "running"

(* Whatever failed on the way, nothing is left when main() returns: every  *)
(* server that ran was stopped first.                                      *)
ExitStopsAll ==
  pc = "exited" => \A i \in Servers : stage[i] \in {"none", "destroyed"}

(* A server is stopped only by a signal or by the failure of a later one,  *)
(* and is stopped before it is destroyed.                                  *)
RunsUntilTold ==
  [][\A i \in Servers : stage[i] = "running" /\ stage'[i] # "running" =>
       /\ signal = "taken" \/ ~hr
       /\ stage'[i] \in {"stopped", "closed"}]_vars

(* "Full mode requires two IP addresses that are unique", and two ports:   *)
(* the sockets of a server are those of its options and all differ.        *)
SocketsDiffer ==
  \A i \in Servers : stage[i] # "none" =>
    \A r, q \in DOMAIN config[i].addr : r # q =>
      config[i].addr[r] # config[i].addr[q]

(* A signal ends the program whenever it comes, and so does a failure.     *)
EndsWhenTold == signal \in ExitSignals \/ ~hr ~> pc = "exited"

(* "Max connections must be between 1-100000": the server takes what the   *)
(* validation of the options accepts (ChkIfA in CTCPStunThread::Init).     *)
AcceptedMaxConnections ==
  pc = "create" /\ config[itor].fTCP => InitAccepts(config[itor])
=============================================================================
