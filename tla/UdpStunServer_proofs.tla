------------------------- MODULE UdpStunServer_proofs -------------------------
(***************************************************************************)
(* Theorems about UdpStunServer for every value of its constants: its      *)
(* sockets outlive its threads, a failed Start() leaves none running, no   *)
(* thread starts with its exit flag set, and the server implements         *)
(* StunThreadLife.  The last part is about the end of a thread: Stop()     *)
(* wakes it, and it soon ends.                                             *)
(***************************************************************************)
EXTENDS UdpStunServer, FiniteSetTheorems, TLAPS

USE RolesAssumption, QueueAssumption, FaultsAssumption
USE DEF Threads

(* A thread to join has its object, its sockets, and the sockets are open; *)
(* it ends only when told to.                                              *)
ThreadsServe ==
  \A t \in Threads :
    /\ pc[t] # "off" => socks[t] # {}
    /\ socks[t] # {} => t \in objs /\ socks[t] \subseteq open
    /\ pc[t] = "exited" => needToExit[t]

(* How far each call has got. *)
FlagProgress ==
  /\ call \in {"idle", "start"} => \A t \in Threads : socks[t] # {} => ~needToExit[t]
  /\ call = "flag" => \A t \in objs \ todo : needToExit[t]
  /\ call \in {"post", "join"} => \A t \in objs : needToExit[t]

JoinProgress ==
  /\ call = "join" => \A t \in Threads \ todo : socks[t] = {}
  /\ call \in {"close", "create"} => \A t \in Threads : socks[t] = {}
  /\ call \in {"close", "create"} => todo = {}
  /\ call = "create" => objs = {} /\ open = {}

StartProgress ==
  /\ call = "start" => \A t \in objs \ todo : pc[t] # "off"
  /\ call = "idle" => \/ \A t \in objs : pc[t] # "off"
                      \/ \A t \in Threads : pc[t] = "off"

Inv == TypeOK /\ ThreadsServe /\ FlagProgress /\ JoinProgress /\ StartProgress

-----------------------------------------------------------------------------
(* A non-empty set of roles has a first one. *)
LEMMA FirstInSet ==
  ASSUME NEW S \in SUBSET Roles, S # {}
  PROVE  First(S) \in S /\ \A q \in S : First(S) <= q
<1>1. S \subseteq 0..3
  OBVIOUS
<1>2. \E r \in S : \A q \in S : r <= q
  <2>1. CASE 0 \in S
    BY <1>1, <2>1
  <2>2. CASE 0 \notin S /\ 1 \in S
    BY <1>1, <2>2
  <2>3. CASE 0 \notin S /\ 1 \notin S /\ 2 \in S
    BY <1>1, <2>3
  <2>4. CASE 0 \notin S /\ 1 \notin S /\ 2 \notin S
    <3>1. \A q \in S : q = 3
      <4> TAKE q \in S
      <4>1. q \in Int /\ 0 <= q /\ q <= 3
        BY <1>1
      <4>2. q # 0 /\ q # 1 /\ q # 2
        BY <2>4
      <4> QED
        BY <4>1, <4>2
    <3>2. PICK r \in S : r = 3
      BY <3>1
    <3> QED
      BY <3>1, <3>2
  <2> QED
    BY <2>1, <2>2, <2>3, <2>4
<1> QED
  BY <1>2 DEF First

(* Sets of roles are finite: a thread has a positive number of sockets. *)
LEMMA SocksCounted ==
  ASSUME NEW S \in SUBSET Roles
  PROVE  Cardinality(S) \in Nat /\ (S # {} => Cardinality(S) > 0)
<1>1. IsFiniteSet(0..3)
  <2>1. 0 \in Int /\ 3 \in Int
    OBVIOUS
  <2> QED
    BY ONLY <2>1, FS_Interval
<1>2. IsFiniteSet(S)
  BY <1>1, FS_Subset
<1> QED
  BY <1>2, FS_CardinalityType, FS_EmptySet

(* Inv holds before the server is initialized. *)
LEMMA InitInv == Init => Inv
<1> SUFFICES ASSUME Init PROVE Inv
  OBVIOUS
<1>1. TypeOK
  BY DEF Init, TypeOK, Alive
<1>2. ThreadsServe /\ FlagProgress /\ JoinProgress /\ StartProgress
  BY DEF Init, ThreadsServe, FlagProgress, JoinProgress, StartProgress
<1> QED
  BY <1>1, <1>2 DEF Inv

(* A step of a thread or of the network: the owner's state stays, and a    *)
(* thread moves only between the places where it is to be joined.          *)
LEMMA QuietStep ==
  ASSUME Inv, TypeOK', UNCHANGED <<objVars, open, ownerVars>>,
         \A t \in Threads : (pc'[t] = "off") = (pc[t] = "off"),
         \A t \in Threads : pc'[t] = "exited" => pc[t] = "exited" \/ needToExit[t]
  PROVE  Inv'
<1> USE DEF Inv, objVars, ownerVars
<1>1. ThreadsServe'
  BY DEF ThreadsServe
<1>2. FlagProgress' /\ JoinProgress'
  BY DEF FlagProgress, JoinProgress
<1>3. StartProgress'
  BY DEF StartProgress, TypeOK
<1> QED
  BY <1>1, <1>2, <1>3

(* pc moves within its type; nothing else that TypeOK relates to it moves. *)
LEMMA GotoInv ==
  ASSUME Inv, NEW t \in Threads, pc[t] \notin {"off", "exited"},
         NEW where \in {"top", "select", "recv", "check", "process", "exited"},
         where = "exited" => needToExit[t],
         Goto(t, where), UNCHANGED <<objVars, open, ownerVars>>,
         queue' \in [Roles -> 0 .. QueueCap],
         at' \in [Threads -> Roles] /\ at'[t] \in socks[t],
         \A u \in Threads \ {t} : at'[u] = at[u] /\ rotation'[u] = rotation[u],
         rotation' \in [Threads -> Nat] /\ rotation'[t] < Cardinality(socks[t])
  PROVE  Inv'
<1> USE DEF Inv, objVars, ownerVars
<1>1. /\ pc' \in [Threads -> {"off", "top", "select", "recv", "check", "process", "exited"}]
      /\ pc'[t] = where
      /\ \A u \in Threads \ {t} : pc'[u] = pc[u]
  BY DEF TypeOK, Goto
<1>2. TypeOK'
  <2>1. \A u \in Threads : Alive(u)' => at'[u] \in socks'[u]
    BY <1>1 DEF Alive, TypeOK
  <2>2. \A u \in Threads : socks'[u] # {} => rotation'[u] < Cardinality(socks'[u])
    BY <1>1 DEF Alive, TypeOK
  <2> QED
    BY <1>1, <2>1, <2>2 DEF TypeOK
<1> QED
  BY <1>1, <1>2, QuietStep

(* A remainder stays below its divisor. *)
LEMMA ModBound ==
  ASSUME NEW a \in Nat, NEW n \in Nat, n > 0
  PROVE  a % n \in 0 .. n - 1
  OBVIOUS

(* Every step of a thread preserves it. *)
LEMMA RunInv ==
  ASSUME Inv, NEW t \in Threads, Run(t)
  PROVE  Inv'
<1> USE DEF Inv, objVars, netVars, ownerVars
<1> DEFINE Turns == Cardinality(socks[t])
<1>0. /\ socks[t] \in SUBSET Roles
      /\ at \in [Threads -> Roles] /\ rotation \in [Threads -> Nat]
      /\ queue \in [Roles -> 0 .. QueueCap]
      /\ UNCHANGED <<objVars, open, ownerVars>>
  BY DEF TypeOK, Run, ExitSeen, LoopWait, LoopReceive, SelectExit, SelectSocket, RecvAllowed,
         RecvRateLimited, RecvFails, Accepted, Process
<1>1. /\ pc[t] \notin {"off", "exited"}
      /\ at[t] \in socks[t] /\ rotation[t] < Turns
      /\ Turns \in Nat /\ Turns > 0
  <2>1. Alive(t)
    BY DEF Run, ExitSeen, LoopWait, LoopReceive, SelectExit, SelectSocket, Selects, RecvAllowed,
           Received, RecvRateLimited, RecvFails, Accepted, Process, Alive
  <2>2. socks[t] # {}
    BY <2>1 DEF ThreadsServe, Alive
  <2> QED
    BY <1>0, <2>1, <2>2, SocksCounted DEF Alive, TypeOK
<1>2. CASE LoopWait(t)
  <2>1. /\ rotation' = [rotation EXCEPT ![t] = (@ + 1) % Turns]
        /\ Goto(t, "select") /\ UNCHANGED <<at, queue>>
    BY <1>2 DEF LoopWait, Rotate
  <2>2. (rotation[t] + 1) % Turns \in 0 .. Turns - 1
    <3>0. rotation[t] \in Nat
      BY <1>0
    <3>1. rotation[t] + 1 \in Nat
      BY <3>0
    <3> HIDE DEF Turns
    <3> QED
      BY <1>1, <3>1, ModBound
  <2>3. /\ rotation' \in [Threads -> Nat]
        /\ rotation'[t] = (rotation[t] + 1) % Turns
        /\ \A u \in Threads \ {t} : rotation'[u] = rotation[u]
    BY <1>0, <2>1, <2>2
  <2>4. rotation'[t] < Turns
    BY <1>1, <2>2, <2>3
  <2> QED
    BY <1>0, <1>1, <2>1, <2>3, <2>4, GotoInv
<1>3. CASE \E r \in Roles : SelectSocket(t, r)
  <2>1. PICK r \in Roles : SelectSocket(t, r)
    BY <1>3
  <2>2. /\ r \in socks[t] /\ at' = [at EXCEPT ![t] = r]
        /\ Goto(t, "recv") /\ UNCHANGED <<rotation, queue>>
    BY <2>1 DEF SelectSocket, Selects, Ready
  <2> QED
    BY <1>0, <1>1, <2>2, GotoInv
<1>4. CASE RecvAllowed(t) \/ RecvRateLimited(t)
  <2>1. PICK where \in {"check", "top"} :
          /\ Goto(t, where) /\ UNCHANGED <<at, rotation>>
          /\ queue[at[t]] > 0 /\ queue' = [queue EXCEPT ![at[t]] = @ - 1]
    BY <1>4 DEF RecvAllowed, RecvRateLimited, Received
  <2>2. at[t] \in Roles /\ queue[at[t]] - 1 \in 0 .. QueueCap
    <3>1. at[t] \in Roles
      BY <1>0
    <3>2. queue[at[t]] \in 0 .. QueueCap /\ queue[at[t]] > 0
      BY <1>0, <2>1, <3>1
    <3> QED
      BY <3>1, <3>2
  <2>3. queue' \in [Roles -> 0 .. QueueCap]
    BY <1>0, <2>1, <2>2
  <2> QED
    BY <1>0, <1>1, <2>1, <2>3, GotoInv
<1>5. CASE LoopReceive(t) \/ RecvFails(t) \/ Accepted(t) \/ Process(t)
  <2>1. PICK where \in {"recv", "top", "process"} : Goto(t, where) /\ UNCHANGED <<at, rotation, queue>>
    BY <1>5 DEF LoopReceive, RecvFails, Accepted, Process
  <2> QED
    BY <1>0, <1>1, <2>1, GotoInv
<1>6. CASE ExitSeen(t, "top") \/ SelectExit(t) \/ ExitSeen(t, "check")
  <2>1. Goto(t, "exited") /\ needToExit[t] /\ UNCHANGED <<at, rotation, queue>>
    BY <1>6 DEF SelectExit, ExitSeen
  <2> QED
    BY <1>0, <1>1, <2>1, GotoInv
<1> QED
  BY <1>2, <1>3, <1>4, <1>5, <1>6 DEF Run

(* Datagrams that come or are discarded preserve it. *)
LEMMA NetworkInv ==
  ASSUME Inv, NEW r \in Roles, ClientSends(r) \/ KernelDrops(r)
  PROVE  Inv'
<1> USE DEF Inv
<1>1. queue' \in [Roles -> 0 .. QueueCap]
  <2>1. queue[r] \in 0 .. QueueCap
    BY DEF TypeOK
  <2>2. CASE ClientSends(r)
    <3>1. Queued(queue[r]) \in 0 .. QueueCap
      BY <2>1 DEF Queued
    <3> QED
      BY <2>2, <3>1 DEF ClientSends, TypeOK
  <2>3. CASE KernelDrops(r)
    <3>1. queue[r] - 1 \in 0 .. QueueCap
      BY <2>1, <2>3 DEF KernelDrops
    <3> QED
      BY <2>3, <3>1 DEF KernelDrops, TypeOK
  <2> QED
    BY <2>2, <2>3
<1>2. UNCHANGED <<threadVars, objVars, open, ownerVars>>
  BY DEF ClientSends, KernelDrops
<1>3. TypeOK'
  BY <1>1, <1>2 DEF TypeOK, Alive, threadVars, objVars, ownerVars
<1> QED
  BY <1>2, <1>3, QuietStep DEF threadVars, ThreadsServe

-----------------------------------------------------------------------------
(* Where a call begins, or a loop gives way to the next. *)
LEMMA CallInv ==
  ASSUME Inv,
         \/ Call \/ FlagsSet \/ MessagesPosted \/ Stopped \/ Started \/ CreateFails
         \/ \E t \in Threads : StartFails(t)
  PROVE  Inv'
<1> USE DEF Inv
<1>1. UNCHANGED <<threadVars, objVars, netVars>>
  BY DEF Call, Initialize, Start, Stop, Shutdown, FlagsSet, MessagesPosted, Stopped, Started,
         CreateFails, StartFails
<1>2. /\ todo' \subseteq objs
      /\ call' \in {"idle", "flag", "post", "join", "close", "create", "start"}
      /\ then' \in {"idle", "close", "initialize"}
  BY DEF Call, Initialize, Start, Stop, Shutdown, FlagsSet, MessagesPosted, Stopped, Started,
         CreateFails, StartFails, EndLoop, BeginStop, UndoStart, TypeOK
<1>3. TypeOK' /\ ThreadsServe'
  BY <1>1, <1>2 DEF TypeOK, ThreadsServe, Alive, threadVars, objVars, netVars
<1>4. CASE Call \/ \E t \in Threads : StartFails(t)
  <2>1. todo' = objs /\ call' \in {"flag", "start"} /\ (call' = "start" => call = "idle")
    BY <1>4 DEF Call, Initialize, Start, Stop, Shutdown, StartFails, BeginStop, UndoStart, Idle
  <2> QED
    BY <1>1, <1>3, <2>1 DEF FlagProgress, JoinProgress, StartProgress, threadVars, objVars
<1>5. CASE FlagsSet
  BY <1>1, <1>3, <1>5 DEF FlagsSet, EndLoop, FlagProgress, JoinProgress, StartProgress,
                          threadVars, objVars
<1>6. CASE MessagesPosted
  <2>1. \A t \in Threads \ objs : socks[t] = {}
    BY DEF ThreadsServe
  <2> QED
    BY <1>1, <1>3, <1>6, <2>1 DEF MessagesPosted, EndLoop, FlagProgress, JoinProgress,
                          StartProgress, threadVars, objVars
<1>7. CASE Stopped
  <2>1. call = "join" /\ todo = {} /\ todo' = {} /\ call' \in {"idle", "close"}
    BY <1>7 DEF Stopped, EndLoop
  <2>2. \A t \in Threads : socks[t] = {} /\ pc[t] = "off"
    BY <2>1 DEF JoinProgress, ThreadsServe
  <2> QED
    BY <1>1, <1>3, <2>1, <2>2 DEF FlagProgress, JoinProgress, StartProgress, threadVars, objVars
<1>8. CASE Started
  BY <1>1, <1>3, <1>8 DEF Started, EndLoop, FlagProgress, JoinProgress, StartProgress,
                          threadVars, objVars
<1>9. CASE CreateFails
  <2>1. call = "create" /\ call' = "idle" /\ \A t \in Threads : socks[t] = {} /\ pc[t] = "off"
    BY <1>9 DEF CreateFails, JoinProgress, ThreadsServe
  <2> QED
    BY <1>1, <1>3, <2>1 DEF FlagProgress, JoinProgress, StartProgress, threadVars, objVars
<1> QED
  BY <1>4, <1>5, <1>6, <1>7, <1>8, <1>9

(* The steps of a loop for one thread. *)
LEMMA VisitInv ==
  ASSUME Inv, NEW t \in Threads,
         Flag(t) \/ Wake(t) \/ WaitForStopAndClose(t) \/ StartThread(t)
  PROVE  Inv'
<1> USE DEF Inv
<1>1. /\ t \in todo /\ t \in objs
      /\ todo' = todo \ {t} /\ todo' \subseteq objs
      /\ UNCHANGED <<objs, call, then, open, rotation>>
  BY DEF Flag, Wake, WaitForStopAndClose, StartThread, Visit, Visited, TypeOK, threadVars,
         netVars, objVars
<1>2. CASE Flag(t) \/ Wake(t)
  <2>1. /\ needToExit' = [needToExit EXCEPT ![t] = TRUE]
        /\ UNCHANGED <<pc, at, socks>>
        /\ call \in {"flag", "post"}
    BY <1>2 DEF Flag, Wake, SetFlag, Visit, threadVars
  <2>2. queue' \in [Roles -> 0 .. QueueCap]
    <3>1. \A n \in 0 .. QueueCap : Queued(n) \in 0 .. QueueCap
      BY DEF Queued
    <3> QED
      BY <1>2, <3>1 DEF Flag, Wake, PostMessages, netVars, TypeOK
  <2>3. TypeOK'
    BY <1>1, <2>1, <2>2 DEF TypeOK, Alive
  <2>4. needToExit \in [Threads -> BOOLEAN]
    BY DEF TypeOK
  <2>5. ThreadsServe'
    BY <1>1, <2>1, <2>4 DEF ThreadsServe
  <2>6. FlagProgress' /\ JoinProgress' /\ StartProgress'
    BY <1>1, <2>1, <2>4 DEF FlagProgress, JoinProgress, StartProgress
  <2> QED
    BY <2>3, <2>5, <2>6
<1>3. CASE WaitForStopAndClose(t)
  <2>1. /\ pc' = [pc EXCEPT ![t] = "off"] /\ pc[t] \in {"off", "exited"}
        /\ socks' = [socks EXCEPT ![t] = {}]
        /\ call = "join"
        /\ UNCHANGED <<at, needToExit, queue>>
    BY <1>3 DEF WaitForStopAndClose, Join, Goto, ClearSocketArray, Visit, netVars
  <2>2. /\ pc'[t] = "off" /\ socks'[t] = {}
        /\ \A u \in Threads \ {t} : pc'[u] = pc[u] /\ socks'[u] = socks[u]
    BY <2>1 DEF TypeOK
  <2>3. TypeOK'
    <3>1. /\ pc' \in [Threads -> {"off", "top", "select", "recv", "check", "process", "exited"}]
          /\ socks' \in [Threads -> SUBSET Roles]
      BY <2>1 DEF TypeOK
    <3>2. \A u \in Threads : Alive(u)' => at'[u] \in socks'[u]
      BY <1>1, <2>1, <2>2 DEF Alive, TypeOK
    <3>3. \A u \in Threads : socks'[u] # {} => rotation'[u] < Cardinality(socks'[u])
      BY <1>1, <2>1, <2>2 DEF TypeOK
    <3> QED
      BY <1>1, <2>1, <3>1, <3>2, <3>3 DEF TypeOK
  <2>4. ThreadsServe'
    BY <1>1, <2>1, <2>2 DEF ThreadsServe
  <2>5. FlagProgress' /\ JoinProgress' /\ StartProgress'
    BY <1>1, <2>1, <2>2 DEF FlagProgress, JoinProgress, StartProgress
  <2> QED
    BY <2>3, <2>4, <2>5
<1>4. CASE StartThread(t)
  <2>1. /\ pc' = [pc EXCEPT ![t] = "top"] /\ pc[t] = "off" /\ socks[t] # {}
        /\ at' = [at EXCEPT ![t] = First(socks[t])]
        /\ call = "start"
        /\ UNCHANGED <<socks, needToExit, queue>>
    BY <1>4 DEF StartThread, CanStart, Goto, Visit, netVars, objVars
  <2>2. /\ pc'[t] = "top" /\ \A u \in Threads \ {t} : pc'[u] = pc[u] /\ at'[u] = at[u]
        /\ at'[t] \in socks[t] /\ at'[t] \in Roles
    BY <2>1, FirstInSet DEF TypeOK
  <2>3. TypeOK'
    <3>1. /\ pc' \in [Threads -> {"off", "top", "select", "recv", "check", "process", "exited"}]
          /\ at' \in [Threads -> Roles]
      BY <2>1, <2>2 DEF TypeOK
    <3>2. \A u \in Threads : Alive(u)' => at'[u] \in socks'[u]
      BY <1>1, <2>1, <2>2 DEF Alive, TypeOK
    <3>3. \A u \in Threads : socks'[u] # {} => rotation'[u] < Cardinality(socks'[u])
      BY <1>1, <2>1, <2>2 DEF TypeOK
    <3> QED
      BY <1>1, <2>1, <3>1, <3>2, <3>3 DEF TypeOK
  <2>4. ThreadsServe'
    BY <1>1, <2>1, <2>2 DEF ThreadsServe
  <2>5. FlagProgress' /\ JoinProgress' /\ StartProgress'
    BY <1>1, <2>1, <2>2 DEF FlagProgress, JoinProgress, StartProgress
  <2> QED
    BY <2>3, <2>4, <2>5
<1> QED
  BY <1>2, <1>3, <1>4

(* Sockets are closed and threads deleted, or opened and created. *)
LEMMA CloseInv ==
  ASSUME Inv, CloseAll
  PROVE  Inv'
<1> USE DEF Inv, CloseAll, threadVars
<1>1. \A t \in Threads : pc[t] = "off" /\ socks'[t] = {}
  BY DEF JoinProgress, ThreadsServe
<1>2. TypeOK'
  <2>1. queue' \in [Roles -> 0 .. QueueCap] /\ socks' \in [Threads -> SUBSET Roles]
    OBVIOUS
  <2>2. todo = {}
    BY DEF JoinProgress
  <2> QED
    BY <1>1, <2>1, <2>2 DEF TypeOK, Alive
<1>3. ThreadsServe'
  BY <1>1 DEF ThreadsServe
<1>4. FlagProgress' /\ JoinProgress' /\ StartProgress'
  BY <1>1 DEF FlagProgress, JoinProgress, StartProgress
<1> QED
  BY <1>2, <1>3, <1>4

(* So does Initialize, which makes the threads. *)
LEMMA CreateInv ==
  ASSUME Inv, NEW config \in (SUBSET Roles) \ {{}}, NEW multi \in BOOLEAN, Create(config, multi)
  PROVE  Inv'
<1> USE DEF Inv, Create
<1>1. objs' \subseteq config /\ config \subseteq Threads
  <2>1. First(config) \in config
    <3>1. config \in SUBSET Roles /\ config # {}
      OBVIOUS
    <3> QED
      BY ONLY <3>1, FirstInSet
  <2> QED
    BY <2>1
<1>2. \A t \in Threads : /\ pc[t] = "off" /\ ~needToExit'[t]
                         /\ socks'[t] \subseteq config
                         /\ t \notin objs' => socks'[t] = {}
  BY <1>1 DEF JoinProgress, ThreadsServe
<1>3. TypeOK'
  <2>1. /\ socks' \in [Threads -> SUBSET Roles]
        /\ needToExit' \in [Threads -> BOOLEAN] /\ rotation' \in [Threads -> Nat]
    BY <1>1
  <2>2. \A t \in Threads : socks'[t] # {} => rotation'[t] < Cardinality(socks'[t])
    BY <2>1, SocksCounted
  <2>3. todo' = {}
    BY DEF JoinProgress
  <2> QED
    BY <1>1, <1>2, <2>1, <2>2, <2>3 DEF TypeOK, Alive
<1>4. ThreadsServe'
  BY <1>2 DEF ThreadsServe
<1>5. FlagProgress' /\ JoinProgress' /\ StartProgress'
  BY <1>2 DEF FlagProgress, JoinProgress, StartProgress
<1> QED
  BY <1>3, <1>4, <1>5

(* Inv depends on the variables alone. *)
LEMMA StutterInv == Inv /\ UNCHANGED vars => Inv'
<1> SUFFICES ASSUME Inv, UNCHANGED vars PROVE Inv'
  OBVIOUS
<1> USE DEF Inv, vars, threadVars, objVars, netVars, ownerVars
<1>1. TypeOK'
  BY DEF TypeOK, Alive
<1> QED
  BY <1>1, QuietStep DEF ThreadsServe

(* Every step of the owner, the threads and the network preserves it. *)
LEMMA NextInv == Inv /\ [Next]_vars => Inv'
<1> SUFFICES ASSUME Inv, [Next]_vars PROVE Inv'
  OBVIOUS
<1>1. CASE Continue
  <2>1. CASE CloseAll
    BY <2>1, CloseInv
  <2>2. CASE \E config \in (SUBSET Roles) \ {{}}, multi \in BOOLEAN : Create(config, multi)
    BY <2>2, CreateInv
  <2>3. CASE \E t \in Threads : Flag(t) \/ Wake(t) \/ WaitForStopAndClose(t) \/ StartThread(t)
    BY <2>3, VisitInv
  <2>4. CASE \/ FlagsSet \/ MessagesPosted \/ Stopped \/ Started \/ CreateFails
             \/ \E t \in Threads : StartFails(t)
    BY <2>4, CallInv
  <2> QED
    BY <1>1, <2>1, <2>2, <2>3, <2>4 DEF Continue
<1>2. CASE Call
  BY <1>2, CallInv
<1>3. CASE \E t \in Threads : Run(t)
  BY <1>3, RunInv
<1>4. CASE \E r \in Roles : ClientSends(r) \/ KernelDrops(r)
  BY <1>4, NetworkInv
<1>5. CASE UNCHANGED vars
  BY <1>5, StutterInv
<1> QED
  BY <1>1, <1>2, <1>3, <1>4, <1>5 DEF Next

(* The inductive invariant holds in every state of the server. *)
THEOREM InvCorrect == Spec => []Inv
<1> QED
  BY InitInv, NextInv, PTL DEF Spec

(* Every variable keeps its type. *)
THEOREM TypeCorrect == Spec => []TypeOK
<1>1. Inv => TypeOK
  BY DEF Inv
<1> QED
  BY <1>1, InvCorrect, PTL

(* A running thread has its object and its open sockets (Shutdown). *)
THEOREM SocketsOutliveThreadsCorrect == Spec => []SocketsOutliveThreads
<1>1. Inv => SocketsOutliveThreads
  BY DEF Inv, ThreadsServe, SocketsOutliveThreads, Alive
<1> QED
  BY <1>1, InvCorrect, PTL

(* Between calls every thread of the server runs, or none does (Start). *)
THEOREM AllOrNothingCorrect == Spec => []AllOrNothing
<1>1. Inv => AllOrNothing
  <2> SUFFICES ASSUME Inv, Idle
               PROVE  \/ \A t \in objs : Alive(t) /\ ~needToExit[t]
                      \/ \A t \in Threads : pc[t] = "off"
    BY DEF AllOrNothing
  <2>1. CASE \A t \in Threads : pc[t] = "off"
    BY <2>1
  <2>2. CASE \A t \in objs : pc[t] # "off"
    BY <2>2 DEF Inv, TypeOK, FlagProgress, ThreadsServe, Alive, Idle
  <2> QED
    BY <2>1, <2>2 DEF Inv, StartProgress, Idle
<1> QED
  BY <1>1, InvCorrect, PTL

(* No thread starts with its exit flag set (CStunSocketThread::Start). *)
THEOREM StartsCleanCorrect == Spec => StartsClean
<1>1. Inv /\ [Next]_vars => [\A t \in Threads : (pc[t] = "off" /\ pc'[t] # "off") => ~needToExit[t]]_vars
  <2> SUFFICES ASSUME Inv, Next, NEW t \in Threads, pc[t] = "off", pc'[t] # "off"
               PROVE  ~needToExit[t]
    OBVIOUS
  <2> USE DEF Inv
  <2>1. pc \in [Threads -> {"off", "top", "select", "recv", "check", "process", "exited"}]
    BY DEF TypeOK
  <2>2. ASSUME NEW u \in Threads, Run(u) PROVE FALSE
    <3>1. /\ pc[u] # "off"
          /\ \/ Goto(u, "top") \/ Goto(u, "select") \/ Goto(u, "recv")
             \/ Goto(u, "check") \/ Goto(u, "process") \/ Goto(u, "exited")
      BY <2>2 DEF Run, ExitSeen, LoopWait, LoopReceive, SelectExit, SelectSocket, Selects,
                  RecvAllowed, Received, RecvRateLimited, RecvFails, Accepted, Process
    <3> QED
      BY <2>1, <3>1 DEF Goto
  <2>3. \E u \in Threads : WaitForStopAndClose(u) \/ StartThread(u)
    BY <2>2 DEF Next, Call, Continue, Initialize, Start, Stop, Shutdown, FlagsSet,
                MessagesPosted, Stopped, Started, CreateFails, StartFails, CloseAll, Create,
                Flag, Wake, ClientSends, KernelDrops, threadVars
  <2>4. StartThread(t)
    BY <2>1, <2>3 DEF WaitForStopAndClose, StartThread, Join, Goto
  <2> QED
    BY <2>4 DEF StartThread, CanStart, Visit, FlagProgress
<1> QED
  BY <1>1, InvCorrect, PTL DEF Spec, StartsClean

-----------------------------------------------------------------------------
(* The refinement. *)

(* The first state is one of StunThreadLife. *)
LEMMA InitImplements == Init => Life!LifeInit
BY DEF Init, Life!LifeInit, life, stopping, serving

(* What life, stopping and serving read is unchanged. *)
LEMMA StutterImplements ==
  ASSUME UNCHANGED <<objs, socks, needToExit, pc, open>>
  PROVE  UNCHANGED Life!lifeVars
BY DEF Life!lifeVars, life, stopping, serving, Alive

(* A step of a running thread: it keeps running, or it ends. *)
LEMMA RunImplements ==
  ASSUME Inv, NEW t \in Threads, Run(t)
  PROVE  [Life!LifeNext]_Life!lifeVars
<1> USE DEF Inv
<1>1. /\ t \in objs /\ Alive(t)
      /\ UNCHANGED <<objs, socks, needToExit, open>>
  <2>1. pc[t] \notin {"off", "exited"} /\ UNCHANGED <<objs, socks, needToExit, open>>
    BY DEF Run, ExitSeen, LoopWait, LoopReceive, SelectExit, SelectSocket, Selects, RecvAllowed,
           Received, RecvRateLimited, RecvFails, Accepted, Process, objVars, netVars
  <2> QED
    BY <2>1 DEF ThreadsServe, Alive
<1>2. PICK where \in {"top", "select", "recv", "check", "process", "exited"} :
        Goto(t, where) /\ (where = "exited" => needToExit[t])
  BY DEF Run, ExitSeen, LoopWait, LoopReceive, SelectExit, SelectSocket, RecvAllowed,
         RecvRateLimited, RecvFails, Accepted, Process
<1>3. pc'[t] = where /\ \A u \in Threads \ {t} : pc'[u] = pc[u]
  BY <1>2 DEF Goto, TypeOK
<1>4. UNCHANGED <<stopping, serving>>
  BY <1>1 DEF stopping, serving
<1>5. CASE where = "exited"
  <2>1. life[t] = "running" /\ t \in stopping
    BY <1>1, <1>2, <1>5 DEF life, stopping
  <2>2. life' = [life EXCEPT ![t] = "ended"]
    BY <1>1, <1>3, <1>5 DEF life, Alive
  <2> QED
    BY <1>4, <2>1, <2>2 DEF Life!LifeNext, Life!End
<1>6. CASE where # "exited"
  <2>1. life' = life
    BY <1>1, <1>2, <1>3, <1>6 DEF life, Alive
  <2> QED
    BY <1>4, <2>1 DEF Life!lifeVars
<1> QED
  BY <1>5, <1>6

(* The steps of Stop() and Start() for one thread. *)
LEMMA VisitImplements ==
  ASSUME Inv, NEW t \in Threads,
         Flag(t) \/ Wake(t) \/ WaitForStopAndClose(t) \/ StartThread(t)
  PROVE  [Life!LifeNext]_Life!lifeVars
<1> USE DEF Inv
<1>1. t \in objs /\ UNCHANGED <<objs, open>>
  BY DEF Flag, Wake, WaitForStopAndClose, StartThread, Visit, TypeOK, netVars, objVars
<1>2. CASE Flag(t) \/ Wake(t)
  <2>1. needToExit' = [needToExit EXCEPT ![t] = TRUE] /\ UNCHANGED <<pc, socks>>
    BY <1>2 DEF Flag, Wake, SetFlag, threadVars
  <2>2. stopping' = stopping \cup {t}
    BY <1>1, <2>1 DEF stopping, TypeOK
  <2>3. UNCHANGED <<life, serving>> /\ life[t] # "absent"
    BY <1>1, <2>1 DEF life, serving, Alive
  <2> QED
    BY <2>2, <2>3 DEF Life!LifeNext, Life!Ask
<1>3. CASE WaitForStopAndClose(t)
  <2>1. /\ pc' = [pc EXCEPT ![t] = "off"] /\ pc[t] \in {"off", "exited"}
        /\ socks' = [socks EXCEPT ![t] = {}]
        /\ call = "join" /\ UNCHANGED needToExit
    BY <1>3 DEF WaitForStopAndClose, Join, Goto, ClearSocketArray, Visit
  <2>2. /\ pc'[t] = "off" /\ socks'[t] = {}
        /\ \A u \in Threads \ {t} : pc'[u] = pc[u] /\ socks'[u] = socks[u]
    BY <2>1 DEF TypeOK
  <2>3. UNCHANGED <<stopping, serving>> /\ t \in stopping
    BY <1>1, <2>1 DEF stopping, serving, FlagProgress
  <2>4. life' = [life EXCEPT ![t] = "retired"] /\ life[t] \in {"ready", "ended", "retired"}
    BY <1>1, <2>1, <2>2 DEF life, Alive
  <2>5. CASE life[t] = "retired"
    <3>1. life' = life
      BY <2>4, <2>5 DEF life
    <3> QED
      BY <2>3, <3>1 DEF Life!lifeVars
  <2>6. CASE life[t] # "retired"
    BY <2>3, <2>4, <2>6 DEF Life!LifeNext, Life!Retire
  <2> QED
    BY <2>5, <2>6
<1>4. CASE StartThread(t)
  <2>1. /\ pc' = [pc EXCEPT ![t] = "top"] /\ pc[t] = "off" /\ socks[t] # {}
        /\ call = "start" /\ UNCHANGED <<needToExit, socks>>
    BY <1>4 DEF StartThread, CanStart, Goto, Visit, objVars
  <2>2. pc'[t] = "top" /\ \A u \in Threads \ {t} : pc'[u] = pc[u]
    BY <2>1 DEF TypeOK
  <2>3. UNCHANGED <<stopping, serving>> /\ t \notin stopping
    BY <1>1, <2>1 DEF stopping, serving, FlagProgress
  <2>4. life' = [life EXCEPT ![t] = "running"] /\ life[t] = "ready"
    BY <1>1, <2>1, <2>2 DEF life, Alive
  <2> QED
    BY <2>3, <2>4 DEF Life!LifeNext, Life!Begin
<1> QED
  BY <1>2, <1>3, <1>4

(* Shutdown closes what no thread uses any more. *)
LEMMA CloseImplements ==
  ASSUME Inv, CloseAll
  PROVE  [Life!LifeNext]_Life!lifeVars
<1> USE DEF Inv, CloseAll
<1>1. \A t \in Threads : life[t] # "running"
  BY DEF life, Alive, JoinProgress, ThreadsServe
<1>2. life' = [t \in Threads |-> "absent"] /\ stopping' = {} /\ serving' = FALSE
  BY DEF life, stopping, serving
<1> QED
  BY <1>1, <1>2 DEF Life!LifeNext, Life!Destroy

(* Initialize opens the sockets of threads that are not there yet. *)
LEMMA CreateImplements ==
  ASSUME Inv, NEW config \in (SUBSET Roles) \ {{}}, NEW multi \in BOOLEAN, Create(config, multi)
  PROVE  [Life!LifeNext]_Life!lifeVars
<1> USE DEF Inv, Create
<1>1. ~serving /\ \A t \in Threads : pc'[t] = "off"
  BY DEF serving, JoinProgress, ThreadsServe
<1>2. First(config) \in config
  <2>1. config \in SUBSET Roles /\ config # {}
    OBVIOUS
  <2> QED
    BY ONLY <2>1, FirstInSet
<1>3. objs' \subseteq Threads /\ \A t \in objs' : socks'[t] # {}
  BY <1>2
<1>4. life' = [t \in Threads |-> IF t \in objs' THEN "ready" ELSE "absent"]
  BY <1>1, <1>3 DEF life, Alive
<1>5. stopping' = {} /\ serving' = TRUE
  BY <1>3 DEF stopping, serving
<1> QED
  BY <1>1, <1>3, <1>4, <1>5 DEF Life!LifeNext, Life!Create

(* Each step of the server is one of StunThreadLife or a stutter. *)
LEMMA NextImplements == Inv /\ [Next]_vars => [Life!LifeNext]_Life!lifeVars
<1> SUFFICES ASSUME Inv, [Next]_vars PROVE [Life!LifeNext]_Life!lifeVars
  OBVIOUS
<1>1. CASE Continue
  <2>1. CASE CloseAll
    BY <2>1, CloseImplements
  <2>2. CASE \E config \in (SUBSET Roles) \ {{}}, multi \in BOOLEAN : Create(config, multi)
    BY <2>2, CreateImplements
  <2>3. CASE \E t \in Threads : Flag(t) \/ Wake(t) \/ WaitForStopAndClose(t) \/ StartThread(t)
    BY <2>3, VisitImplements
  <2>4. CASE \/ FlagsSet \/ MessagesPosted \/ Stopped \/ Started \/ CreateFails
             \/ \E t \in Threads : StartFails(t)
    BY <2>4, StutterImplements DEF FlagsSet, MessagesPosted, Stopped, Started, CreateFails,
                                   StartFails, threadVars, objVars, netVars
  <2> QED
    BY <1>1, <2>1, <2>2, <2>3, <2>4 DEF Continue
<1>2. CASE Call
  BY <1>2, StutterImplements DEF Call, Initialize, Start, Stop, Shutdown, threadVars, objVars,
                                 netVars
<1>3. CASE \E t \in Threads : Run(t)
  BY <1>3, RunImplements
<1>4. CASE \E r \in Roles : ClientSends(r) \/ KernelDrops(r)
  BY <1>4, StutterImplements DEF ClientSends, KernelDrops, threadVars, objVars
<1>5. CASE UNCHANGED vars
  BY <1>5, StutterImplements DEF vars, threadVars, objVars, netVars
<1> QED
  BY <1>1, <1>2, <1>3, <1>4, <1>5 DEF Next

(* The server implements StunThreadLife: a thread object runs at most once, *)
(* only while the sockets are open, and ends before it is destroyed.       *)
THEOREM ImplementsLifeCorrect == Spec => ImplementsLife
<1> QED
  BY InvCorrect, InitImplements, NextImplements, PTL DEF Spec, ImplementsLife, Life!LifeSpec

-----------------------------------------------------------------------------
(* A stop that has woken a thread will see it end.                         *)

(* Nothing that could be lost is lost: the kernel keeps what it queued. *)
NoDrop == "drop" \notin Faults

(* The thread sleeps in select() or in a recvfrom() that may block. *)
Blocked(t) ==
  \/ pc[t] = "select" /\ Ready(t) = {}
  \/ pc[t] = "recv" /\ ~MultiSocket(t) /\ queue[at[t]] = 0

(* Stop() has sent its datagrams to the thread and has not joined it. *)
Woken(t) == call = "join" \/ (call = "post" /\ t \notin todo)

(* No thread that Stop() has woken sleeps: neither another thread nor the  *)
(* thread itself can take the datagram that is to end its wait             *)
(* (CStunSocketThread::SignalForStop and Run).                             *)
NoSleeper == \A t \in Threads : Woken(t) => ~Blocked(t)

(* No two threads receive on the same socket. *)
SocksDisjoint == \A t, u \in Threads : t # u => socks[t] \cap socks[u] = {}

WakeInv == NoSleeper /\ SocksDisjoint

(* How many steps a thread that was told to exit may still take. *)
Left ==
  [off |-> 0, exited |-> 1, top |-> 2, select |-> 2, check |-> 2, recv |-> 3, process |-> 3]

(* Once its flag is set a thread begins no other wait and takes no other   *)
(* request: it finishes at most the one at hand (Run).                     *)
WindsDown ==
  [][\A t \in Threads : (needToExit[t] /\ pc'[t] # pc[t]) => Left[pc'[t]] < Left[pc[t]]]_vars

(* A step that leaves the owner, the threads and their sockets alone and   *)
(* takes no datagram keeps it.                                             *)
LEMMA MoreDatagrams ==
  ASSUME Inv, WakeInv, UNCHANGED <<threadVars, socks, ownerVars>>,
         queue' \in [Roles -> 0 .. QueueCap],
         \A r \in Roles : queue[r] > 0 => queue'[r] > 0
  PROVE  WakeInv'
<1>1. /\ UNCHANGED <<pc, at, socks, call, todo>>
      /\ socks \in [Threads -> SUBSET Roles] /\ at \in [Threads -> Roles]
      /\ queue \in [Roles -> 0 .. QueueCap]
  BY DEF Inv, TypeOK, threadVars, ownerVars
<1>2. ASSUME NEW t \in Threads, Blocked(t)' PROVE Blocked(t)
  <2>1. Ready(t) \subseteq Ready(t)'
    BY <1>1 DEF Ready
  <2>2. MultiSocket(t)' = MultiSocket(t)
    BY <1>1 DEF MultiSocket
  <2>3. queue'[at[t]] = 0 => queue[at[t]] = 0
    <3>1. at[t] \in Roles
      BY <1>1
    <3>2. queue[at[t]] \in 0 .. QueueCap /\ queue'[at[t]] \in 0 .. QueueCap
      BY <1>1, <3>1
    <3>3. queue[at[t]] > 0 => queue'[at[t]] > 0
      BY <3>1
    <3> QED
      BY <3>2, <3>3
  <2> QED
    BY <1>1, <1>2, <2>1, <2>2, <2>3 DEF Blocked
<1> QED
  BY <1>1, <1>2 DEF WakeInv, NoSleeper, SocksDisjoint, Woken

(* A thread takes datagrams from its own sockets only, and once woken it   *)
(* goes back to none of its waits.                                         *)
LEMMA RunWake ==
  ASSUME Inv, WakeInv, NEW u \in Threads, Run(u)
  PROVE  WakeInv'
<1> USE DEF Inv
<1>1. /\ pc \in [Threads -> {"off", "top", "select", "recv", "check", "process", "exited"}]
      /\ socks \in [Threads -> SUBSET Roles] /\ at \in [Threads -> Roles]
      /\ queue \in [Roles -> 0 .. QueueCap]
  BY DEF TypeOK
<1>2. /\ Alive(u) /\ UNCHANGED <<socks, call, todo>>
      /\ \A t \in Threads \ {u} : pc'[t] = pc[t] /\ at'[t] = at[t]
      /\ \A r \in Roles : r # at[u] => queue'[r] = queue[r]
      /\ needToExit[u] => pc'[u] \notin {"select", "recv"}
  <2>1. CASE RecvAllowed(u) \/ RecvRateLimited(u)
    <3>1. at[u] \in Roles /\ queue' = [queue EXCEPT ![at[u]] = @ - 1]
      BY <1>1, <2>1 DEF RecvAllowed, RecvRateLimited, Received
    <3>2. \A r \in Roles : r # at[u] => queue'[r] = queue[r]
      BY <1>1, <3>1
    <3> QED
      BY <1>1, <2>1, <3>2 DEF RecvAllowed, RecvRateLimited, Received, Goto, Alive, objVars,
                              ownerVars
  <2>2. CASE \E r \in Roles : SelectSocket(u, r)
    BY <1>1, <2>2 DEF SelectSocket, Selects, Goto, Alive, objVars, netVars, ownerVars
  <2>3. CASE LoopWait(u) \/ LoopReceive(u) \/ RecvFails(u) \/ Accepted(u) \/ Process(u)
    BY <1>1, <2>3 DEF LoopWait, LoopReceive, RecvFails, Accepted, Process, Goto, Alive, objVars,
                      netVars, ownerVars
  <2>4. CASE ExitSeen(u, "top") \/ SelectExit(u) \/ ExitSeen(u, "check")
    BY <1>1, <2>4 DEF SelectExit, ExitSeen, Goto, Alive, objVars, netVars, ownerVars
  <2> QED
    BY <2>1, <2>2, <2>3, <2>4 DEF Run
<1>3. at[u] \in socks[u]
  BY <1>2 DEF TypeOK
<1>4. ASSUME NEW t \in Threads, Woken(t)' PROVE ~Blocked(t)'
  <2>1. Woken(t)
    BY <1>2, <1>4 DEF Woken
  <2>2. CASE t = u
    <3>1. t \in objs
      BY <1>2, <2>2 DEF ThreadsServe, Alive
    <3>2. needToExit[u]
      BY <2>1, <2>2, <3>1 DEF Woken, FlagProgress
    <3> QED
      BY <1>2, <2>2, <3>2 DEF Blocked
  <2>3. CASE t # u
    <3>1. at[u] \notin socks[t]
      BY <1>3, <2>3 DEF WakeInv, SocksDisjoint
    <3>2. Ready(t)' = Ready(t) /\ MultiSocket(t)' = MultiSocket(t)
      BY <1>1, <1>2, <3>1 DEF Ready, MultiSocket
    <3>3. pc[t] = "recv" => at[t] \in socks[t] /\ at[t] \in Roles
      BY <1>1 DEF TypeOK, Alive
    <3>4. pc[t] = "recv" => queue'[at[t]] = queue[at[t]]
      BY <1>2, <3>1, <3>3
    <3>5. ~Blocked(t)
      BY <2>1 DEF WakeInv, NoSleeper
    <3> QED
      BY <1>2, <2>3, <3>2, <3>4, <3>5 DEF Blocked
  <2> QED
    BY <2>2, <2>3
<1> QED
  BY <1>2, <1>4 DEF WakeInv, NoSleeper, SocksDisjoint

(* Wake(u) leaves a datagram in every socket of the thread u. *)
LEMMA WakeWake ==
  ASSUME Inv, WakeInv, NEW u \in Threads, Wake(u)
  PROVE  WakeInv'
<1> USE DEF Inv
<1>1. /\ UNCHANGED <<pc, at, socks, call>> /\ call = "post" /\ todo' = todo \ {u}
      /\ socks \in [Threads -> SUBSET Roles] /\ at \in [Threads -> Roles]
      /\ queue \in [Roles -> 0 .. QueueCap]
  BY DEF TypeOK, Wake, Visit, Visited, threadVars
<1>2. \A r \in Roles : queue'[r] = IF r \in socks[u] THEN Queued(queue[r]) ELSE queue[r]
  BY DEF Wake, PostMessages
<1>3. \A r \in Roles : /\ queue[r] > 0 => queue'[r] > 0
                       /\ r \in socks[u] => queue'[r] > 0
  <2> TAKE r \in Roles
  <2>1. queue[r] \in Nat /\ Queued(queue[r]) > 0
    BY <1>1 DEF Queued
  <2> QED
    BY <1>2, <2>1
<1>4. ASSUME NEW t \in Threads, Woken(t)' PROVE ~Blocked(t)'
  <2>1. pc[t] = "select" => socks[t] # {}
    BY DEF ThreadsServe
  <2>2. pc[t] = "recv" => at[t] \in socks[t] /\ at[t] \in Roles
    BY <1>1 DEF TypeOK, Alive
  <2>3. MultiSocket(t)' = MultiSocket(t) /\ Ready(t) \subseteq Ready(t)'
    BY <1>1, <1>3 DEF MultiSocket, Ready
  <2>4. CASE t = u
    <3>1. Ready(t)' = socks[t]
      BY <1>1, <1>3, <2>4 DEF Ready
    <3>2. pc[t] = "recv" => queue'[at[t]] > 0
      BY <1>3, <2>2, <2>4
    <3> QED
      BY <1>1, <2>1, <3>1, <3>2 DEF Blocked
  <2>5. CASE t # u
    <3>1. ~Blocked(t)
      BY <1>1, <1>4, <2>5 DEF Woken, WakeInv, NoSleeper
    <3>2. ASSUME pc[t] = "recv", queue[at[t]] # 0 PROVE queue'[at[t]] # 0
      <4>1. at[t] \in Roles
        BY <2>2, <3>2
      <4>2. queue[at[t]] \in 0 .. QueueCap
        BY <1>1, <4>1
      <4>3. queue[at[t]] > 0
        BY <3>2, <4>2
      <4>4. queue'[at[t]] > 0
        BY <1>3, <4>1, <4>3
      <4> QED
        BY <4>4
    <3> QED
      BY <1>1, <2>3, <3>1, <3>2 DEF Blocked
  <2> QED
    BY <2>4, <2>5
<1> QED
  BY <1>1, <1>4 DEF WakeInv, NoSleeper, SocksDisjoint

(* A joined thread is neither asleep nor awake. *)
LEMMA JoinWake ==
  ASSUME Inv, WakeInv, NEW u \in Threads, WaitForStopAndClose(u)
  PROVE  WakeInv'
<1> USE DEF Inv
<1>1. /\ pc' = [pc EXCEPT ![u] = "off"] /\ socks' = [socks EXCEPT ![u] = {}]
      /\ UNCHANGED <<at, queue, call>> /\ call = "join"
  BY DEF WaitForStopAndClose, Join, Goto, ClearSocketArray, Visit, Visited, netVars
<1>2. /\ pc'[u] = "off" /\ socks'[u] = {}
      /\ \A t \in Threads \ {u} : pc'[t] = pc[t] /\ socks'[t] = socks[t]
  BY <1>1 DEF TypeOK
<1>3. ASSUME NEW t \in Threads PROVE ~Blocked(t)'
  <2>1. CASE t = u
    BY <1>2, <2>1 DEF Blocked
  <2>2. CASE t # u
    <3>1. MultiSocket(t)' = MultiSocket(t) /\ Ready(t)' = Ready(t)
      BY <1>1, <1>2, <2>2 DEF MultiSocket, Ready
    <3>2. ~Blocked(t)
      BY <1>1 DEF WakeInv, NoSleeper, Woken
    <3> QED
      BY <1>1, <1>2, <2>2, <3>1, <3>2 DEF Blocked
  <2> QED
    BY <2>1, <2>2
<1> QED
  BY <1>2, <1>3 DEF WakeInv, NoSleeper, SocksDisjoint

(* Initialize gives every thread sockets of its own, or one thread all.    *)
LEMMA CreateWake ==
  ASSUME Inv, NEW config \in (SUBSET Roles) \ {{}}, NEW multi \in BOOLEAN, Create(config, multi)
  PROVE  WakeInv'
<1>1. call' = "idle"
  BY DEF Create
<1>2. SocksDisjoint'
  BY DEF Create, SocksDisjoint
<1> QED
  BY <1>1, <1>2 DEF WakeInv, NoSleeper, Woken

(* The other steps of the owner: no thread it has woken is forgotten. *)
LEMMA OwnerWake ==
  ASSUME Inv, WakeInv,
         \/ Call \/ FlagsSet \/ MessagesPosted \/ Stopped \/ Started \/ CreateFails \/ CloseAll
         \/ \E t \in Threads : StartFails(t) \/ Flag(t) \/ StartThread(t)
  PROVE  WakeInv'
<1>1. SocksDisjoint'
  <2>1. UNCHANGED socks \/ socks' = [t \in Threads |-> {}]
    BY DEF Call, Initialize, Start, Stop, Shutdown, FlagsSet, MessagesPosted, Stopped, Started,
           CreateFails, StartFails, CloseAll, Flag, StartThread, objVars
  <2> QED
    BY <2>1 DEF WakeInv, SocksDisjoint
<1>2. CASE FlagsSet \/ MessagesPosted
  <2>1. \A t \in Threads \ objs : ~Blocked(t)
    BY DEF Inv, ThreadsServe, Blocked
  <2>2. UNCHANGED <<pc, at, socks, queue>> /\ todo' = objs
    BY <1>2 DEF FlagsSet, MessagesPosted, threadVars, objVars, netVars
  <2>3. \A t \in Threads : Blocked(t)' = Blocked(t)
    BY <2>2 DEF Blocked, Ready, MultiSocket
  <2>4. CASE FlagsSet
    BY <1>1, <2>1, <2>2, <2>3, <2>4 DEF FlagsSet, EndLoop, Woken, WakeInv, NoSleeper
  <2>5. CASE MessagesPosted
    BY <1>1, <2>3, <2>5 DEF MessagesPosted, EndLoop, Woken, WakeInv, NoSleeper
  <2> QED
    BY <1>2, <2>4, <2>5
<1>3. CASE ~(FlagsSet \/ MessagesPosted)
  <2>1. call' \notin {"post", "join"}
    BY <1>3 DEF Call, Initialize, Start, Stop, Shutdown, Stopped, Started, CreateFails,
                StartFails, CloseAll, Flag, StartThread, BeginStop, UndoStart, EndLoop, Visit,
                Visited
  <2> QED
    BY <1>1, <2>1 DEF WakeInv, NoSleeper, Woken
<1> QED
  BY <1>2, <1>3

(* Every step preserves WakeInv, unless the kernel drops a datagram. *)
LEMMA NextWake == NoDrop /\ Inv /\ WakeInv /\ [Next]_vars => WakeInv'
<1> SUFFICES ASSUME NoDrop, Inv, WakeInv, [Next]_vars PROVE WakeInv'
  OBVIOUS
<1>1. CASE Continue
  BY <1>1, WakeWake, JoinWake, CreateWake, OwnerWake DEF Continue
<1>2. ASSUME NEW r \in Roles, ClientSends(r) \/ KernelDrops(r) PROVE WakeInv'
  <2>1. ClientSends(r)
    BY <1>2 DEF KernelDrops, MayFail, NoDrop
  <2>2. queue \in [Roles -> 0 .. QueueCap] /\ queue[r] \in 0 .. QueueCap
    BY DEF Inv, TypeOK
  <2>3. Queued(queue[r]) \in 0 .. QueueCap /\ Queued(queue[r]) > 0
    BY <2>2 DEF Queued
  <2>4. queue' = [queue EXCEPT ![r] = Queued(queue[r])]
    BY <2>1 DEF ClientSends
  <2>5. queue' \in [Roles -> 0 .. QueueCap] /\ \A q \in Roles : queue[q] > 0 => queue'[q] > 0
    BY <2>2, <2>3, <2>4
  <2> QED
    BY <2>1, <2>5, MoreDatagrams DEF ClientSends, objVars
<1>3. CASE UNCHANGED vars
  BY <1>3, MoreDatagrams DEF Inv, TypeOK, vars, objVars, netVars
<1> QED
  BY <1>1, <1>2, <1>3, RunWake, OwnerWake DEF Next

(* While the kernel keeps what it queued, a thread that Stop() has woken   *)
(* is not asleep: neither its own last receive nor another thread can have *)
(* taken what wakes it, so every join ends.                                *)
THEOREM NoSleeperCorrect == ASSUME NoDrop PROVE Spec => []NoSleeper
<1>1. Init => WakeInv
  BY DEF Init, WakeInv, NoSleeper, SocksDisjoint, Woken
<1>2. Inv /\ WakeInv /\ [Next]_vars => WakeInv'
  BY NextWake
<1>3. WakeInv => NoSleeper
  BY DEF WakeInv
<1> QED
  BY <1>1, <1>2, <1>3, InvCorrect, PTL DEF Spec

(* A thread that was told to exit takes at most two steps more. *)
THEOREM WindsDownCorrect == Spec => WindsDown
<1>1. Inv /\ [Next]_vars =>
        [\A t \in Threads : (needToExit[t] /\ pc'[t] # pc[t]) => Left[pc'[t]] < Left[pc[t]]]_vars
  <2> SUFFICES ASSUME Inv, Next, NEW t \in Threads, needToExit[t], pc'[t] # pc[t]
               PROVE  Left[pc'[t]] < Left[pc[t]]
    OBVIOUS
  <2>1. pc \in [Threads -> {"off", "top", "select", "recv", "check", "process", "exited"}]
    BY DEF Inv, TypeOK
  <2>2. ASSUME NEW u \in Threads, Run(u) PROVE Left[pc'[t]] < Left[pc[t]]
    <3>1. PICK where \in {"top", "select", "recv", "check", "process", "exited"} : Goto(u, where)
      BY <2>2 DEF Run, ExitSeen, LoopWait, LoopReceive, SelectExit, SelectSocket, RecvAllowed,
                  RecvRateLimited, RecvFails, Accepted, Process
    <3>2. t = u /\ pc'[t] = where
      BY <2>1, <3>1 DEF Goto
    <3>3. CASE pc[t] = "recv"
      BY <2>1, <2>2, <3>2, <3>3
         DEF Left, Goto, Run, ExitSeen, LoopWait, LoopReceive, SelectExit, SelectSocket, Selects,
             RecvAllowed, Received, RecvRateLimited, RecvFails, Accepted, Process
    <3>4. CASE pc[t] = "process"
      BY <2>1, <2>2, <3>2, <3>4
         DEF Left, Goto, Run, ExitSeen, LoopWait, LoopReceive, SelectExit, SelectSocket, Selects,
             RecvAllowed, Received, RecvRateLimited, RecvFails, Accepted, Process
    <3>5. CASE pc[t] \notin {"recv", "process"}
      BY <2>1, <2>2, <3>2, <3>5
         DEF Left, Goto, Run, ExitSeen, LoopWait, LoopReceive, SelectExit, SelectSocket, Selects,
             RecvAllowed, Received, RecvRateLimited, RecvFails, Accepted, Process
    <3> QED
      BY <3>3, <3>4, <3>5
  <2>3. CASE \E u \in Threads : WaitForStopAndClose(u)
    BY <2>1, <2>3 DEF WaitForStopAndClose, Join, Goto, Left
  <2>4. ASSUME NEW u \in Threads, StartThread(u) PROVE FALSE
    <3>1. t = u /\ call = "start" /\ socks[t] # {}
      BY <2>1, <2>4 DEF StartThread, CanStart, Goto, Visit
    <3> QED
      BY <3>1 DEF Inv, FlagProgress
  <2> QED
    BY <2>2, <2>3, <2>4
       DEF Next, Call, Continue, Initialize, Start, Stop, Shutdown, FlagsSet, MessagesPosted,
           Stopped, Started, CreateFails, StartFails, CloseAll, Create, Flag, Wake, ClientSends,
           KernelDrops, threadVars
<1> QED
  BY <1>1, InvCorrect, PTL DEF Spec, WindsDown

=============================================================================
