-------------------------- MODULE ServerStartup_proofs -------------------------
(***************************************************************************)
(* Theorems about ServerStartup, for every host, command line, file and    *)
(* set of faults: main() owns the servers that exist, waits only with all  *)
(* of them running, stops one only when told to or after a failure, and    *)
(* leaves none behind; no server is started or stopped twice.  The sockets *)
(* of a server all differ, and one maximum of connections is refused.      *)
(***************************************************************************)
EXTENDS ServerStartup, TLAPS

Body == {"start", "push", "release"}
Stops == {"stopUdp", "stopTcp", "exited"}

(* Every configuration there may be. *)
Configurations == {NoConfig} \cup UNION {BuildServerConfigurationFromArgs(a) : a \in Args}

ConfigType == config \in [Servers -> Configurations]

(* No server exists beyond the loop's entry; the entry's own server is as  *)
(* far as pc says, and on a list only if it was started.                   *)
LoopProgress ==
  /\ pc = "parse" => itor = 1
  /\ pc \in {"parse", "exited"} => udpServers \cup tcpServers = {}
  /\ pc \in {"parse", "loop", "create"} =>
       \A i \in Servers : i >= itor => stage[i] = "none" /\ ~Held(i)
  /\ pc \in Body => \A i \in Servers : i > itor => stage[i] = "none" /\ ~Held(i)
  /\ pc = "start" => stage[itor] = "bound" /\ ~Held(itor)
  /\ pc = "push" => stage[itor] = "running" /\ ~Held(itor)
  /\ pc = "release" /\ hr => Held(itor)
  /\ pc = "release" /\ ~hr => stage[itor] = "bound" /\ ~Held(itor)

(* Until the servers are stopped, those on a list run.  As long as nothing *)
(* failed, every entry the loop has done has its server.                   *)
Serving ==
  /\ pc \in {"parse", "loop", "create", "start", "push", "wait"} => hr
  /\ pc \notin Stops => \A i \in Servers : Held(i) => stage[i] = "running"
  /\ pc \notin Stops /\ hr => \A i \in Servers : i < itor => Held(i)
  /\ pc \in {"started", "wait"} /\ hr => itor > Len(argsVector)

(* Servers are stopped only after a signal or a failure; one that still    *)
(* runs is in the current loop, or in the one after it.                    *)
Stopping ==
  pc \in Stops =>
    /\ pc # "exited" => signal = "taken" \/ ~hr
    /\ \A i \in Servers : stage[i] = "running" => i \in todo \/ (pc = "stopUdp" /\ i \in tcpServers)

Inv == TypeOK /\ ServersHeld /\ LoopProgress /\ Serving /\ Stopping

-----------------------------------------------------------------------------
(* The sockets of a configuration.                                         *)

(* What the validation of a number promises. *)
LEMMA NumberInRange ==
  ASSUME NEW min \in Int, NEW max \in Int, NEW str, ValidNumber(str, min, max)
  PROVE  str \in Int /\ min <= str /\ str <= max
BY DEF ValidNumber

(* The conversion of a port keeps it. *)
LEMMA PortKept ==
  ASSUME NEW n \in Int, 1 <= n, n <= 65535
  PROVE  Port(n) = n
BY DEF Port, Int16

(* No two roles of a configuration have the same address and port. *)
LEMMA AddressesDiffer ==
  ASSUME NEW args, PortsValid(args), NEW a \in Addresses(args),
         NEW r \in DOMAIN a, NEW q \in DOMAIN a, r # q
  PROVE  a[r] # a[q]
<1> DEFINE P == PrimaryPort(args)
           A == AltPort(args)
<1>1. ValidNumber(P, 1, 65535) /\ ValidNumber(A, 1, 65535) /\ P # A
  BY DEF PortsValid
<1> HIDE DEF P, A
<1>2. Port(P) # Port(A)
  BY <1>1, NumberInRange, PortKept
<1>3. CASE Basic(args)
  <2>1. a \in BasicAddresses(args)
    BY <1>3 DEF Addresses
  <2>2. PICK ip : a = [u \in {RolePP} |-> <<ip, Port(P)>>]
    BY <2>1 DEF BasicAddresses, P
  <2> QED BY <2>2
<1>4. CASE ~Basic(args)
  <2>1. a \in FullAddresses(args)
    BY <1>4 DEF Addresses
  <2>2. PICK p \in InterfacePairs(args) :
          a = [u \in {RolePP, RolePA, RoleAP, RoleAA} |->
                 << IF u \in {RolePP, RolePA} THEN p[1] ELSE p[2],
                    Port(IF u \in {RolePP, RoleAP} THEN P ELSE A) >>]
    BY <2>1 DEF FullAddresses, P, A
  <2>3. p[1] # p[2]
    BY DEF InterfacePairs
  <2>4. r \in 0..3 /\ q \in 0..3
    BY <2>2 DEF RolePP, RolePA, RoleAP, RoleAA
  <2> DEFINE Ip(u) == IF u \in {0, 1} THEN p[1] ELSE p[2]
             Pt(u) == IF u \in {0, 2} THEN Port(P) ELSE Port(A)
  <2>5. \A u \in 0..3 : a[u] = <<Ip(u), Pt(u)>>
    BY <2>2 DEF RolePP, RolePA, RoleAP, RoleAA
  <2>6. Ip(r) # Ip(q) \/ Pt(r) # Pt(q)
    BY <1>2, <2>3, <2>4
  <2> HIDE DEF Ip, Pt
  <2> QED BY <2>4, <2>5, <2>6
<1> QED BY <1>3, <1>4

(* So it is for every configuration. *)
LEMMA ConfigurationsDiffer ==
  ASSUME NEW c \in Configurations, NEW r \in DOMAIN c.addr, NEW q \in DOMAIN c.addr, r # q
  PROVE  c.addr[r] # c.addr[q]
<1>1. c # NoConfig
  <2> SUFFICES ASSUME c = NoConfig PROVE FALSE
    OBVIOUS
  <2> QED BY DEF NoConfig
<1>2. PICK args \in Args : c \in BuildServerConfigurationFromArgs(args)
  BY <1>1 DEF Configurations
<1>3. PortsValid(args) /\ c.addr \in Addresses(args)
  BY <1>2 DEF BuildServerConfigurationFromArgs
<1> QED BY <1>3, AddressesDiffer

(* Every server's configuration is one of them: only Build sets it. *)
LEMMA ConfigInit == Init => ConfigType
BY DEF Init, ConfigType, Configurations

(* Build takes it from BuildServerConfigurationFromArgs. *)
LEMMA ConfigNext == TypeOK /\ ConfigType /\ [Next]_vars => ConfigType'
<1> SUFFICES ASSUME TypeOK, ConfigType, [Next]_vars PROVE ConfigType'
  OBVIOUS
<1>1. CASE Build
  <2>1. argsVector[itor] \in Args
    <3>1. argsVector \in Seq(Args) /\ itor \in 1 .. Len(argsVector)
      BY <1>1 DEF Build, TypeOK
    <3> QED BY <3>1
  <2>2. PICK c \in BuildServerConfigurationFromArgs(argsVector[itor]) :
          config' = [config EXCEPT ![itor] = c]
    BY <1>1 DEF Build
  <2>3. c \in Configurations
    BY <2>1, <2>2 DEF Configurations
  <2> QED BY <2>2, <2>3 DEF ConfigType
<1>2. CASE UNCHANGED config
  BY <1>2 DEF ConfigType
<1> QED
  BY <1>1, <1>2 DEF Next, Main, Signal, UsageOrBadFile, Return, Configured, BuildFails,
     CreateInstance, CreateFails, StartServer, StartFails, Push, EndOfBody, LoopDone,
     BeginWait, GiveUp, WaitForAppExitSignal, StopServer, StopTCP, ReturnFromMain,
     vars, servVars

-----------------------------------------------------------------------------
(* The invariant.                                                          *)

(* It holds in the initial state. *)
LEMMA InitInv == Init => Inv
<1> SUFFICES ASSUME Init PROVE Inv
  OBVIOUS
<1>1. TypeOK
  BY StartupAssumption DEF Init, TypeOK, Servers, None
<1>2. ServersHeld
  BY DEF Init, ServersHeld, Held, Servers, None
<1>3. LoopProgress /\ Serving /\ Stopping
  BY DEF Init, LoopProgress, Serving, Stopping, Held, Servers, Body, Stops
<1> QED BY <1>1, <1>2, <1>3 DEF Inv

(* Every step of main(), and a signal, preserves it. *)
LEMMA NextInv == Inv /\ [Next]_vars => Inv'
<1> SUFFICES ASSUME Inv, [Next]_vars PROVE Inv'
  OBVIOUS
<1> USE DEF Goto, progVars, servVars, listVars
<1>0. MaxServers \in Nat \ {0} /\ Len(argsVector) \in Nat
  BY StartupAssumption DEF Inv, TypeOK
<1>1. CASE UsageOrBadFile
  <2>1. TypeOK'
    BY <1>1 DEF Inv, TypeOK, UsageOrBadFile, Return
  <2>2. ServersHeld'
    BY <1>1 DEF Inv, ServersHeld, Held, UsageOrBadFile, Return
  <2>3. LoopProgress'
    BY <1>1 DEF Inv, TypeOK, LoopProgress, Serving, Held, UsageOrBadFile, Return
  <2>4. Serving'
    BY <1>1 DEF Serving, Stops, UsageOrBadFile, Return
  <2>5. Stopping'
    BY <1>1 DEF Inv, TypeOK, ServersHeld, LoopProgress, Stopping, UsageOrBadFile, Return
  <2> QED BY <2>1, <2>2, <2>3, <2>4, <2>5 DEF Inv
<1>2. CASE Configured
  <2>1. TypeOK'
    <3>1. argsVector' \in Seq(Args) /\ Len(argsVector') <= MaxServers
      <4>1. CASE argsVector' \in Files \ {<<>>}
        <5>1. argsVector' \in Files
          BY <4>1
        <5> QED BY <5>1, StartupAssumption
      <4>2. CASE argsVector' \in {<<args>> : args \in CommandLines}
        <5>1. PICK args \in CommandLines : argsVector' = <<args>>
          BY <4>2
        <5>2. args \in Args
          BY StartupAssumption
        <5>3. <<args>> \in Seq(Args) /\ Len(<<args>>) = 1
          BY <5>2
        <5> QED BY <1>0, <5>1, <5>3
      <4> QED BY <1>2, <4>1, <4>2 DEF Configured
    <3> QED BY <1>2, <3>1 DEF Inv, TypeOK, Configured
  <2>2. ServersHeld'
    BY <1>2 DEF Inv, ServersHeld, Held, Configured
  <2>3. LoopProgress'
    BY <1>2 DEF Inv, LoopProgress, Held, Body, Configured
  <2>4. Serving'
    BY <1>2 DEF Inv, TypeOK, LoopProgress, Serving, Held, Configured
  <2>5. Stopping'
    BY <1>2 DEF Stopping, Stops, Configured
  <2> QED BY <2>1, <2>2, <2>3, <2>4, <2>5 DEF Inv
<1>3. CASE Build
  <2>1. TypeOK'
    BY <1>3 DEF Inv, TypeOK, Build
  <2>2. ServersHeld'
    BY <1>3 DEF Inv, ServersHeld, Held, Build
  <2>3. LoopProgress'
    BY <1>3 DEF Inv, LoopProgress, Held, Body, Build
  <2>4. Serving'
    BY <1>3 DEF Inv, Serving, Held, Stops, Build
  <2>5. Stopping'
    BY <1>3 DEF Stopping, Stops, Build
  <2> QED BY <2>1, <2>2, <2>3, <2>4, <2>5 DEF Inv
<1>4. CASE BuildFails
  <2>1. TypeOK'
    BY <1>4 DEF Inv, TypeOK, BuildFails
  <2>2. ServersHeld'
    BY <1>4 DEF Inv, ServersHeld, Held, BuildFails
  <2>3. LoopProgress'
    BY <1>4 DEF LoopProgress, Body, BuildFails
  <2>4. Serving'
    BY <1>4 DEF Inv, Serving, Held, Stops, BuildFails
  <2>5. Stopping'
    BY <1>4 DEF Stopping, Stops, BuildFails
  <2> QED BY <2>1, <2>2, <2>3, <2>4, <2>5 DEF Inv
<1>5. CASE CreateInstance
  <2>1. TypeOK'
    BY <1>5 DEF Inv, TypeOK, CreateInstance, SetStage
  <2>2. ServersHeld'
    BY <1>5 DEF Inv, TypeOK, ServersHeld, Held, None, CreateInstance, SetStage
  <2>3. LoopProgress'
    BY <1>0, <1>5 DEF Inv, TypeOK, LoopProgress, Held, Servers, CreateInstance, SetStage
  <2>4. Serving'
    BY <1>5 DEF Inv, TypeOK, LoopProgress, Serving, Held, Stops, CreateInstance, SetStage
  <2>5. Stopping'
    BY <1>5 DEF Stopping, Stops, CreateInstance
  <2> QED BY <2>1, <2>2, <2>3, <2>4, <2>5 DEF Inv
<1>6. CASE CreateFails
  <2>1. TypeOK'
    BY <1>6 DEF Inv, TypeOK, CreateFails
  <2>2. ServersHeld'
    BY <1>6 DEF Inv, ServersHeld, Held, CreateFails
  <2>3. LoopProgress'
    BY <1>6 DEF LoopProgress, Body, CreateFails
  <2>4. Serving'
    BY <1>6 DEF Inv, Serving, Held, Stops, CreateFails
  <2>5. Stopping'
    BY <1>6 DEF Stopping, Stops, CreateFails
  <2> QED BY <2>1, <2>2, <2>3, <2>4, <2>5 DEF Inv
<1>7. CASE StartServer
  <2>1. TypeOK'
    BY <1>7 DEF Inv, TypeOK, StartServer, SetStage
  <2>2. ServersHeld'
    BY <1>7 DEF Inv, ServersHeld, LoopProgress, Held, StartServer, SetStage
  <2>3. LoopProgress'
    BY <1>0, <1>7 DEF Inv, TypeOK, LoopProgress, Held, Body, Servers, StartServer, SetStage
  <2>4. Serving'
    BY <1>7 DEF Inv, Serving, Held, Stops, StartServer, SetStage
  <2>5. Stopping'
    BY <1>7 DEF Stopping, Stops, StartServer
  <2> QED BY <2>1, <2>2, <2>3, <2>4, <2>5 DEF Inv
<1>8. CASE StartFails
  <2>1. TypeOK'
    BY <1>8 DEF Inv, TypeOK, StartFails
  <2>2. ServersHeld'
    BY <1>8 DEF Inv, ServersHeld, Held, StartFails
  <2>3. LoopProgress'
    BY <1>8 DEF Inv, LoopProgress, Held, Body, StartFails
  <2>4. Serving'
    BY <1>8 DEF Inv, Serving, Held, Stops, StartFails
  <2>5. Stopping'
    BY <1>8 DEF Stopping, Stops, StartFails
  <2> QED BY <2>1, <2>2, <2>3, <2>4, <2>5 DEF Inv
<1>9. CASE Push
  <2>1. TypeOK'
    <3>1. itor \in Servers
      BY <1>0, <1>9 DEF Inv, TypeOK, Servers, Push
    <3>2. CASE config[itor].fTCP
      BY <1>9, <3>1, <3>2 DEF Inv, TypeOK, Push
    <3>3. CASE ~config[itor].fTCP
      BY <1>9, <3>1, <3>3 DEF Inv, TypeOK, Push
    <3> QED BY <3>2, <3>3
  <2>2. ServersHeld'
    BY <1>9 DEF Inv, ServersHeld, LoopProgress, Held, Push
  <2>3. LoopProgress'
    BY <1>9 DEF Inv, LoopProgress, Serving, Held, Body, Push
  <2>4. Serving'
    BY <1>9 DEF Inv, LoopProgress, Serving, Held, Stops, Push
  <2>5. Stopping'
    BY <1>9 DEF Stopping, Stops, Push
  <2> QED BY <2>1, <2>2, <2>3, <2>4, <2>5 DEF Inv
<1>10. CASE EndOfBody
  <2>1. TypeOK'
    BY <1>0, <1>10 DEF Inv, TypeOK, EndOfBody, Release, After, SetStage
  <2>2. ServersHeld'
    BY <1>0, <1>10 DEF Inv, TypeOK, ServersHeld, Held, None, EndOfBody, Release, SetStage
  <2>3. LoopProgress'
    BY <1>0, <1>10 DEF Inv, TypeOK, LoopProgress, Held, Body, EndOfBody, Release, After
  <2>4. Serving'
    BY <1>0, <1>10 DEF Inv, TypeOK, LoopProgress, Serving, Held, Stops, EndOfBody,
       Release, After, SetStage
  <2>5. Stopping'
    BY <1>10 DEF Stopping, Stops, EndOfBody, After
  <2> QED BY <2>1, <2>2, <2>3, <2>4, <2>5 DEF Inv
<1>11. CASE LoopDone
  <2>1. TypeOK'
    BY <1>11 DEF Inv, TypeOK, LoopDone
  <2>2. ServersHeld'
    BY <1>11 DEF Inv, ServersHeld, Held, LoopDone
  <2>3. LoopProgress'
    BY <1>11 DEF LoopProgress, Body, LoopDone
  <2>4. Serving'
    BY <1>11 DEF Inv, Serving, Held, Stops, LoopDone
  <2>5. Stopping'
    BY <1>11 DEF Stopping, Stops, LoopDone
  <2> QED BY <2>1, <2>2, <2>3, <2>4, <2>5 DEF Inv
<1>12. CASE BeginWait
  <2>1. TypeOK'
    BY <1>12 DEF Inv, TypeOK, BeginWait
  <2>2. ServersHeld'
    BY <1>12 DEF Inv, ServersHeld, Held, BeginWait
  <2>3. LoopProgress'
    BY <1>12 DEF LoopProgress, Body, BeginWait
  <2>4. Serving'
    BY <1>12 DEF Inv, Serving, Held, Stops, BeginWait
  <2>5. Stopping'
    BY <1>12 DEF Stopping, Stops, BeginWait
  <2> QED BY <2>1, <2>2, <2>3, <2>4, <2>5 DEF Inv
<1>13. CASE GiveUp
  <2>1. TypeOK'
    BY <1>13 DEF Inv, TypeOK, GiveUp, StopAll
  <2>2. ServersHeld'
    BY <1>13 DEF Inv, ServersHeld, Held, GiveUp
  <2>3. LoopProgress'
    BY <1>13 DEF LoopProgress, Body, GiveUp, StopAll
  <2>4. Serving'
    BY <1>13 DEF Serving, Stops, GiveUp, StopAll
  <2>5. Stopping'
    BY <1>13 DEF Inv, TypeOK, ServersHeld, Stopping, Held, Servers, None, GiveUp, StopAll
  <2> QED BY <2>1, <2>2, <2>3, <2>4, <2>5 DEF Inv
<1>14. CASE WaitForAppExitSignal
  <2>1. TypeOK'
    BY <1>14 DEF Inv, TypeOK, WaitForAppExitSignal, AppExitSignal, StopAll
  <2>2. ServersHeld'
    BY <1>14 DEF Inv, ServersHeld, Held, WaitForAppExitSignal
  <2>3. LoopProgress'
    BY <1>14 DEF LoopProgress, Body, WaitForAppExitSignal, StopAll
  <2>4. Serving'
    BY <1>14 DEF Serving, Stops, WaitForAppExitSignal, StopAll
  <2>5. Stopping'
    BY <1>14 DEF Inv, TypeOK, ServersHeld, Stopping, Held, None, WaitForAppExitSignal,
       AppExitSignal, StopAll
  <2> QED BY <2>1, <2>2, <2>3, <2>4, <2>5 DEF Inv
<1>15. CASE StopTCP
  <2>1. TypeOK'
    BY <1>15 DEF Inv, TypeOK, StopTCP
  <2>2. ServersHeld'
    BY <1>15 DEF Inv, ServersHeld, Held, StopTCP
  <2>3. LoopProgress'
    BY <1>15 DEF LoopProgress, Body, StopTCP
  <2>4. Serving'
    BY <1>15 DEF Serving, Stops, StopTCP
  <2>5. Stopping'
    BY <1>15 DEF Inv, Stopping, Stops, StopTCP
  <2> QED BY <2>1, <2>2, <2>3, <2>4, <2>5 DEF Inv
<1>16. CASE ReturnFromMain
  <2>1. TypeOK'
    BY <1>16 DEF Inv, TypeOK, None, ReturnFromMain, Destroyed
  <2>2. ServersHeld'
    BY <1>16 DEF Inv, TypeOK, ServersHeld, Held, None, ReturnFromMain, Destroyed
  <2>3. LoopProgress'
    BY <1>16 DEF LoopProgress, Body, ReturnFromMain, Destroyed
  <2>4. Serving'
    BY <1>16 DEF Serving, Stops, ReturnFromMain, Destroyed
  <2>5. Stopping'
    BY <1>16 DEF Inv, Stopping, Stops, ReturnFromMain, Destroyed
  <2> QED BY <2>1, <2>2, <2>3, <2>4, <2>5 DEF Inv
<1>17. CASE Signal
  <2>1. TypeOK'
    BY <1>17 DEF Inv, TypeOK, Signal
  <2>2. ServersHeld'
    BY <1>17 DEF Inv, ServersHeld, Held, Signal
  <2>3. LoopProgress'
    BY <1>17 DEF Inv, LoopProgress, Held, Signal
  <2>4. Serving'
    BY <1>17 DEF Inv, Serving, Held, Signal
  <2>5. Stopping'
    BY <1>17 DEF Inv, Stopping, Signal
  <2> QED BY <2>1, <2>2, <2>3, <2>4, <2>5 DEF Inv
<1>18. CASE \E i \in Servers : StopServer(i)
  <2> PICK i \in Servers : StopServer(i)
    BY <1>18
  <2>1. TypeOK'
    BY <1>0 DEF Inv, TypeOK, StopServer, SetStage
  <2>2. ServersHeld'
    BY <1>0 DEF Inv, TypeOK, ServersHeld, Held, StopServer, SetStage
  <2>3. LoopProgress'
    BY <1>0 DEF LoopProgress, Body, StopServer
  <2>4. Serving'
    BY <1>0 DEF Serving, Stops, StopServer
  <2>5. Stopping'
    BY <1>0 DEF Inv, TypeOK, Stopping, StopServer, SetStage
  <2> QED BY <2>1, <2>2, <2>3, <2>4, <2>5 DEF Inv
<1>19. CASE UNCHANGED vars
  BY <1>19 DEF vars, Inv, TypeOK, ServersHeld, LoopProgress, Serving, Stopping, Held
<1> QED
  BY <1>1, <1>2, <1>3, <1>4, <1>5, <1>6, <1>7, <1>8, <1>9, <1>10, <1>11, <1>12, <1>13,
     <1>14, <1>15, <1>16, <1>17, <1>18, <1>19 DEF Next, Main

(* The invariant holds in every state of main(). *)
THEOREM InvCorrect == Spec => []Inv
BY InitInv, NextInv, PTL DEF Spec

(* In every state, configurations are those the options may give. *)
THEOREM ConfigCorrect == Spec => []ConfigType
<1>1. Inv /\ ConfigType /\ [Next]_vars => ConfigType'
  BY ConfigNext DEF Inv
<1> QED
  BY <1>1, InvCorrect, ConfigInit, PTL DEF Spec

-----------------------------------------------------------------------------
(* The properties.                                                         *)

(* Every variable keeps its type (main). *)
THEOREM TypeCorrect == Spec => []TypeOK
<1>1. Inv => TypeOK
  BY DEF Inv
<1> QED
  BY <1>1, InvCorrect, PTL

(* main() has a pointer to every server there is, and to no other. *)
THEOREM ServersHeldCorrect == Spec => []ServersHeld
<1>1. Inv => ServersHeld
  BY DEF Inv
<1> QED
  BY <1>1, InvCorrect, PTL

(* It waits for a signal only with all configured servers running. *)
THEOREM WaitsServingCorrect == Spec => []WaitsServing
<1>1. Inv => WaitsServing
  <2> SUFFICES ASSUME Inv, pc = "wait", NEW i \in 1 .. Len(argsVector)
               PROVE  stage[i] = "running"
    BY DEF WaitsServing
  <2>1. i \in Servers /\ i < itor
    BY StartupAssumption DEF Inv, TypeOK, Serving, Servers
  <2> QED BY <2>1 DEF Inv, Serving, Stops
<1> QED
  BY <1>1, InvCorrect, PTL

(* Nothing is left when it returns, whatever failed. *)
THEOREM ExitStopsAllCorrect == Spec => []ExitStopsAll
<1>1. Inv => ExitStopsAll
  BY DEF Inv, TypeOK, ServersHeld, LoopProgress, ExitStopsAll, Held, Servers, None
<1> QED
  BY <1>1, InvCorrect, PTL

(* A running server is stopped, and only after a signal or a failure. *)
THEOREM RunsUntilToldCorrect == Spec => RunsUntilTold
<1>1. Inv /\ [Next]_vars =>
        [\A i \in Servers : stage[i] = "running" /\ stage'[i] # "running" =>
           /\ signal = "taken" \/ ~hr
           /\ stage'[i] \in {"stopped", "closed"}]_vars
  <2> SUFFICES ASSUME Inv, Next, NEW i \in Servers,
                      stage[i] = "running", stage'[i] # "running"
               PROVE  (signal = "taken" \/ ~hr) /\ stage'[i] \in {"stopped", "closed"}
    OBVIOUS
  <2>1. PICK j \in Servers : StopServer(j)
    <3>1. ~CreateInstance /\ ~StartServer
      <4>1. ~CreateInstance
        BY DEF Inv, TypeOK, LoopProgress, CreateInstance, SetStage
      <4>2. ~StartServer
        BY DEF Inv, TypeOK, StartServer, SetStage
      <4> QED BY <4>1, <4>2
    <3>2. ~EndOfBody
      BY DEF Inv, TypeOK, LoopProgress, EndOfBody, Release, SetStage
    <3>3. ~ReturnFromMain
      BY DEF Inv, Stopping, Stops, ReturnFromMain
    <3> QED
      BY <3>1, <3>2, <3>3 DEF Next, Main, Signal, UsageOrBadFile, Return, Configured, Build,
         BuildFails, CreateFails, StartFails, Push, LoopDone, BeginWait, GiveUp,
         WaitForAppExitSignal, StopTCP, servVars
  <2> QED
    BY <2>1 DEF Inv, TypeOK, Stopping, Stops, StopServer, SetStage
<1> QED
  BY <1>1, InvCorrect, PTL DEF Spec, RunsUntilTold

(* The sockets of a server all differ (BuildServerConfigurationFromArgs). *)
THEOREM SocketsDifferCorrect == Spec => []SocketsDiffer
<1>1. ConfigType => SocketsDiffer
  <2> SUFFICES ASSUME ConfigType, NEW i \in Servers,
                      NEW r \in DOMAIN config[i].addr, NEW q \in DOMAIN config[i].addr, r # q
               PROVE  config[i].addr[r] # config[i].addr[q]
    BY DEF SocketsDiffer
  <2>1. config[i] \in Configurations
    BY DEF ConfigType
  <2> QED BY <2>1, ConfigurationsDiffer
<1> QED
  BY <1>1, ConfigCorrect, PTL

-----------------------------------------------------------------------------
(* What becomes of a server. *)

(* The stages a server may go through: it is started once and stopped      *)
(* once; what was stopped is never started again, and what is destroyed    *)
(* stays so (the loops of main, Start and Stop of the two servers).        *)
Onward ==
  {<<"none", "bound">>, <<"bound", "running">>, <<"bound", "destroyed">>,
   <<"running", "stopped">>, <<"running", "closed">>,
   <<"stopped", "destroyed">>, <<"closed", "destroyed">>}

StageOrder ==
  [][\A i \in Servers : stage'[i] # stage[i] => <<stage[i], stage'[i]>> \in Onward]_vars

(* A server is on one list at most, and there because it ran; the current  *)
(* loop has yet to stop only servers that run.                             *)
ListInv ==
  /\ udpServers \cap tcpServers = {}
  /\ \A i \in Servers : Held(i) => stage[i] \in {"running", "stopped", "closed"}
  /\ pc \in {"stopUdp", "stopTcp"} => \A i \in todo : stage[i] = "running"
  /\ pc = "stopUdp" => \A i \in tcpServers : stage[i] = "running"

(* Servers join a list when they start and are stopped from it in turn. *)
LEMMA NextList == Inv /\ ListInv /\ [Next]_vars => ListInv'
<1> SUFFICES ASSUME Inv, ListInv, [Next]_vars PROVE ListInv'
  OBVIOUS
<1> USE DEF Goto, progVars, servVars, listVars
<1>0. MaxServers \in Nat \ {0} /\ Len(argsVector) \in Nat
  BY StartupAssumption DEF Inv, TypeOK
<1>1. CASE UsageOrBadFile
  BY <1>1 DEF UsageOrBadFile, Return, ListInv, Held
<1>2. CASE \/ Configured \/ Build \/ BuildFails \/ CreateFails \/ StartFails \/ LoopDone
           \/ BeginWait
  <2>1. UNCHANGED <<stage, udpServers, tcpServers>> /\ pc' \notin {"stopUdp", "stopTcp"}
    BY <1>2 DEF Configured, Build, BuildFails, CreateFails, StartFails, LoopDone, BeginWait
  <2> QED
    BY <2>1 DEF ListInv, Held
<1>3. CASE CreateInstance
  <2>1. ~Held(itor) /\ SetStage(itor, "bound") /\ pc' = "start" /\ UNCHANGED listVars
    BY <1>0, <1>3 DEF CreateInstance, Inv, TypeOK, LoopProgress, Servers
  <2> QED
    BY <2>1 DEF SetStage, ListInv, Held, Inv, TypeOK
<1>4. CASE StartServer
  <2>1. SetStage(itor, "running") /\ pc' = "push" /\ UNCHANGED listVars
    BY <1>4 DEF StartServer
  <2> QED
    BY <2>1 DEF SetStage, ListInv, Held, Inv, TypeOK
<1>5. CASE Push
  <2>1. /\ ~Held(itor) /\ stage[itor] = "running" /\ pc' = "release" /\ UNCHANGED stage
        /\ \/ udpServers' = udpServers \cup {itor} /\ tcpServers' = tcpServers
           \/ tcpServers' = tcpServers \cup {itor} /\ udpServers' = udpServers
    BY <1>5 DEF Push, Inv, LoopProgress, Body
  <2> QED
    BY <2>1 DEF ListInv, Held
<1>6. CASE EndOfBody
  <2>1. Release /\ UNCHANGED listVars /\ pc' \notin {"stopUdp", "stopTcp"}
    BY <1>6 DEF EndOfBody, After
  <2> QED
    BY <2>1 DEF Release, SetStage, ListInv, Held, Inv, TypeOK
<1>7. CASE GiveUp \/ WaitForAppExitSignal
  <2>1. /\ pc \in {"started", "wait"} /\ pc' = "stopUdp" /\ todo' = udpServers
        /\ UNCHANGED <<stage, udpServers, tcpServers>>
    BY <1>7 DEF GiveUp, WaitForAppExitSignal, StopAll
  <2>2. \A i \in Servers : Held(i) => stage[i] = "running"
    BY <2>1 DEF Inv, Serving, Stops
  <2> QED
    BY <2>1, <2>2 DEF ListInv, Held, Inv, TypeOK
<1>8. CASE \E i \in Servers : StopServer(i)
  <2>1. PICK i \in Servers : StopServer(i)
    BY <1>8
  <2>2. /\ pc \in {"stopUdp", "stopTcp"} /\ i \in todo /\ todo' = todo \ {i}
        /\ UNCHANGED <<pc, udpServers, tcpServers>>
        /\ stage'[i] \in {"stopped", "closed"} /\ \A j \in Servers \ {i} : stage'[j] = stage[j]
    BY <2>1 DEF StopServer, SetStage, Inv, TypeOK
  <2>3. pc = "stopUdp" => i \notin tcpServers
    BY <2>2 DEF ListInv, Inv, TypeOK
  <2>4. todo \subseteq Servers /\ tcpServers \subseteq Servers
    BY DEF Inv, TypeOK
  <2> QED
    BY <2>2, <2>3, <2>4 DEF ListInv, Held
<1>9. CASE StopTCP
  BY <1>9 DEF StopTCP, ListInv, Held
<1>10. CASE ReturnFromMain
  BY <1>10 DEF ReturnFromMain, ListInv, Held
<1>11. CASE Signal \/ UNCHANGED vars
  BY <1>11 DEF Signal, vars, ListInv, Held
<1> QED
  BY <1>1, <1>2, <1>3, <1>4, <1>5, <1>6, <1>7, <1>8, <1>9, <1>10, <1>11 DEF Next, Main

(* ListInv holds in every state. *)
LEMMA ListCorrect == Spec => []ListInv
<1>1. Init => ListInv
  BY DEF Init, ListInv, Held
<1> QED
  BY <1>1, NextList, InvCorrect, PTL DEF Spec

(* No server is started or stopped twice. *)
THEOREM StageOrderCorrect == Spec => StageOrder
<1>1. Inv /\ ListInv /\ [Next]_vars =>
        [\A i \in Servers : stage'[i] # stage[i] => <<stage[i], stage'[i]>> \in Onward]_vars
  <2> SUFFICES ASSUME Inv, ListInv, Next, NEW i \in Servers, stage'[i] # stage[i]
               PROVE  <<stage[i], stage'[i]>> \in Onward
    OBVIOUS
  <2> USE DEF Onward
  <2>0. MaxServers \in Nat \ {0} /\ Len(argsVector) \in Nat
    BY StartupAssumption DEF Inv, TypeOK
  <2>1. CASE CreateInstance
    <3>1. stage[itor] = "none" /\ SetStage(itor, "bound")
      BY <2>0, <2>1 DEF CreateInstance, Inv, TypeOK, LoopProgress, Servers
    <3> QED
      BY <3>1 DEF SetStage, Inv, TypeOK
  <2>2. CASE StartServer
    <3>1. stage[itor] = "bound" /\ SetStage(itor, "running")
      BY <2>2 DEF StartServer, Inv, LoopProgress
    <3> QED
      BY <3>1 DEF SetStage, Inv, TypeOK
  <2>3. CASE EndOfBody
    <3>1. cur = itor /\ ~Held(cur) /\ SetStage(cur, "destroyed") /\ stage[cur] = "bound"
      BY <2>3 DEF EndOfBody, Release, Inv, TypeOK, LoopProgress
    <3> QED
      BY <3>1 DEF SetStage, Inv, TypeOK
  <2>4. CASE \E j \in Servers : StopServer(j)
    <3>1. PICK j \in Servers : StopServer(j)
      BY <2>4
    <3>2. stage[j] = "running"
      BY <3>1 DEF StopServer, ListInv
    <3> QED
      BY <3>1, <3>2 DEF StopServer, SetStage, Inv, TypeOK
  <2>5. CASE ReturnFromMain
    <3>1. Held(i) /\ stage'[i] = "destroyed"
      BY <2>5 DEF ReturnFromMain, Destroyed, Held, Inv, TypeOK
    <3>2. stage[i] # "running"
      BY <2>5 DEF ReturnFromMain, Inv, Stopping, Stops
    <3> QED
      BY <3>1, <3>2 DEF ListInv
  <2> QED
    BY <2>1, <2>2, <2>3, <2>4, <2>5 DEF Next, Main, Signal, UsageOrBadFile, Return, Configured,
       Build, BuildFails, CreateFails, StartFails, Push, LoopDone, BeginWait, GiveUp,
       WaitForAppExitSignal, StopTCP, servVars
<1> QED
  BY <1>1, InvCorrect, ListCorrect, PTL DEF Spec, StageOrder

-----------------------------------------------------------------------------
(* What CTCPStunThread::Init makes of the option --maxconn. *)

(* Of all the maxima that the validation lets through, Init refuses one,   *)
(* the largest, and it refuses it always.                                  *)
OnlyMaximumRefused ==
  pc = "create" /\ config[itor].fTCP =>
    (InitAccepts(config[itor]) <=> config[itor].nMaxConnections # 100000)

(* The maximum of a configuration is one the validation lets through, or   *)
(* 0 for the default.                                                      *)
MaximumValid(n) == n \in Int /\ 0 <= n /\ n <= 100000

(* BuildServerConfigurationFromArgs validates it. *)
LEMMA ConfigurationMaximum ==
  ASSUME NEW c \in Configurations
  PROVE  MaximumValid(c.nMaxConnections)
<1>1. CASE c = NoConfig
  BY <1>1 DEF NoConfig, MaximumValid
<1>2. ASSUME NEW args \in Args, c \in BuildServerConfigurationFromArgs(args)
      PROVE  MaximumValid(c.nMaxConnections)
  <2>1. MaxConnectionsValid(args) /\ c.nMaxConnections = nMaxConnections(args)
    BY <1>2 DEF BuildServerConfigurationFromArgs
  <2>2. CASE ~IsTCP(args)
    BY <2>1, <2>2 DEF nMaxConnections, MaximumValid
  <2>3. CASE IsTCP(args) /\ args.maxconn = Empty
    BY <2>1, <2>3 DEF nMaxConnections, Number, MaximumValid
  <2>4. CASE IsTCP(args) /\ ValidNumber(args.maxconn, 1, 100000)
    <3>1. args.maxconn \in Int /\ 1 <= args.maxconn /\ args.maxconn <= 100000
      BY <2>4, NumberInRange
    <3> QED
      BY <2>1, <2>4, <3>1 DEF nMaxConnections, Number, Empty, MaximumValid
  <2> QED
    BY <2>1, <2>2, <2>3, <2>4 DEF MaxConnectionsValid
<1> QED
  BY <1>1, <1>2 DEF Configurations

(* What Init makes of such a maximum. *)
LEMMA AcceptsAllButMaximum ==
  ASSUME NEW c, MaximumValid(c.nMaxConnections)
  PROVE  InitAccepts(c) <=> c.nMaxConnections # 100000
BY DEF InitAccepts, MaxConnections, MaximumValid

(* --maxconn 100000, and no other maximum, is accepted and then refused.   *)
THEOREM OnlyMaximumRefusedCorrect == Spec => []OnlyMaximumRefused
<1>1. Inv /\ ConfigType => OnlyMaximumRefused
  <2> SUFFICES ASSUME Inv, ConfigType, pc = "create", config[itor].fTCP
               PROVE  InitAccepts(config[itor]) <=> config[itor].nMaxConnections # 100000
    BY DEF OnlyMaximumRefused
  <2>1. itor \in Servers
    BY StartupAssumption DEF Inv, TypeOK, Servers
  <2>2. config[itor] \in Configurations
    BY <2>1 DEF ConfigType
  <2> QED
    BY <2>2, ConfigurationMaximum, AcceptsAllButMaximum
<1> QED
  BY <1>1, InvCorrect, ConfigCorrect, PTL
=============================================================================
