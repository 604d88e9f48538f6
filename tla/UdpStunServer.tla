----------------------------- MODULE UdpStunServer ----------------------------
(***************************************************************************)
(* CStunServer (STUNsvc/server/server.cpp) and its CStunSocketThread       *)
(* objects (stunsocketthread.cpp): the UDP server, with one thread for all *)
(* sockets or one thread for each.                                         *)
(*                                                                         *)
(* The owner makes one call at a time: Initialize, Start, Stop or          *)
(* Shutdown.  todo holds the threads the loop of that call has yet to do.  *)
(* A thread blocks in select() or recvfrom(); Stop() sets its flag, then   *)
(* sends a datagram to its sockets, then joins it.                         *)
(***************************************************************************)
EXTENDS Integers, FiniteSets

CONSTANTS
  Roles,     \* roles a configuration may have a socket for
  QueueCap,  \* bound: datagrams a socket's receive buffer holds
  Faults     \* calls that may fail, a subset of FaultKinds

FaultKinds == {"init", "thread", "recv", "rate", "drop"}

ASSUME RolesAssumption == Roles \subseteq 0..3 /\ Roles # {}
ASSUME QueueAssumption == QueueCap \in Nat \ {0}
ASSUME FaultsAssumption == Faults \subseteq FaultKinds

MayFail(f) == f \in Faults

(* A thread object is named by the first of the roles it receives on. *)
Threads == Roles
First(S) == CHOOSE r \in S : \A q \in S : r <= q

VARIABLES
  objs,       \* _threads: the thread objects that exist
  pc,         \* where each thread is; "off" when there is none to join
  at,         \* pSocket of each thread
  rotation,   \* _rotation
  needToExit, \* _fNeedToExit
  socks,      \* _socks of each thread, in the order of the roles
  open,       \* roles whose socket is open
  queue,      \* datagrams waiting in each socket
  call,       \* the owner's call, the step of it that comes next
  then,       \* what follows Stop(): "idle", "close" or "initialize"
  todo        \* threads the current loop has yet to visit

threadVars == <<pc, at, rotation>>
objVars    == <<objs, needToExit, socks>>
netVars    == <<open, queue>>
ownerVars  == <<call, then, todo>>
vars == <<threadVars, objVars, netVars, ownerVars>>

Init ==
  /\ objs = {} /\ open = {}
  /\ socks = [t \in Threads |-> {}]
  /\ pc = [t \in Threads |-> "off"]
  /\ at = [t \in Threads |-> t]
  /\ rotation = [t \in Threads |-> 0]
  /\ needToExit = [t \in Threads |-> FALSE]
  /\ queue = [r \in Roles |-> 0]
  /\ call = "idle" /\ then = "idle" /\ todo = {}

Alive(t) == pc[t] \notin {"off", "exited"}
MultiSocket(t) == Cardinality(socks[t]) > 1

-----------------------------------------------------------------------------
(* The thread: Run().                                                      *)

Goto(t, where) == pc' = [pc EXCEPT ![t] = where]

(* The flag is set, where Run looks at it: at the top of the loop, after   *)
(* select and after recvfrom.                                              *)
ExitSeen(t, where) ==
  /\ pc[t] = where /\ needToExit[t]
  /\ Goto(t, "exited")
  /\ UNCHANGED <<at, rotation, objVars, netVars, ownerVars>>

(* Mutants: no socket ever gets its turn; the rotation does not wrap. *)
BuggyRotate(t) == UNCHANGED rotation
BuggyModulo(t) == rotation' = [rotation EXCEPT ![t] = @ + 1]

(* _rotation = (_rotation + 1) % nSocketCount *)
Rotate(t) == rotation' = [rotation EXCEPT ![t] = (@ + 1) % Cardinality(socks[t])]

LoopWait(t) ==
  /\ pc[t] = "top" /\ ~needToExit[t] /\ MultiSocket(t)
  /\ Rotate(t)
  /\ Goto(t, "select")
  /\ UNCHANGED <<at, objVars, netVars, ownerVars>>

LoopReceive(t) ==
  /\ pc[t] = "top" /\ ~needToExit[t] /\ ~MultiSocket(t)
  /\ Goto(t, "recv")
  /\ UNCHANGED <<at, rotation, objVars, netVars, ownerVars>>

(* How far behind the rotation the socket of role r is looked at. *)
Position(t, r) == Cardinality({q \in socks[t] : q < r})
Turn(t, r) == (Position(t, r) + Cardinality(socks[t]) - rotation[t]) % Cardinality(socks[t])

Ready(t) == {r \in socks[t] : queue[r] > 0}

(* select() returns and r is the first ready socket from _rotation on. *)
Selects(t, r) ==
  /\ pc[t] = "select"
  /\ r \in Ready(t) /\ \A q \in Ready(t) : Turn(t, r) <= Turn(t, q)

SelectSocket(t, r) ==
  /\ Selects(t, r) /\ ~needToExit[t]
  /\ at' = [at EXCEPT ![t] = r]
  /\ Goto(t, "recv")
  /\ UNCHANGED <<rotation, objVars, netVars, ownerVars>>

SelectExit(t) ==
  /\ \E r \in Roles : Selects(t, r)
  /\ ExitSeen(t, "select")

(* recvfrom() takes a datagram. *)
Received(t) ==
  /\ pc[t] = "recv" /\ queue[at[t]] > 0
  /\ queue' = [queue EXCEPT ![at[t]] = @ - 1]

RecvAllowed(t) ==
  /\ Received(t)
  /\ Goto(t, "check")
  /\ UNCHANGED <<at, rotation, objVars, open, ownerVars>>

RecvRateLimited(t) ==
  /\ Received(t) /\ MayFail("rate")
  /\ Goto(t, "top")
  /\ UNCHANGED <<at, rotation, objVars, open, ownerVars>>

(* MSG_DONTWAIT finds the datagram gone, or recvfrom fails. *)
RecvFails(t) ==
  /\ pc[t] = "recv"
  /\ (MultiSocket(t) /\ queue[at[t]] = 0) \/ MayFail("recv")
  /\ Goto(t, "top")
  /\ UNCHANGED <<at, rotation, objVars, netVars, ownerVars>>

Accepted(t) ==
  /\ pc[t] = "check" /\ ~needToExit[t]
  /\ Goto(t, "process")
  /\ UNCHANGED <<at, rotation, objVars, netVars, ownerVars>>

(* ProcessRequestAndSendResponse: sends from a socket of any role, or not. *)
Process(t) ==
  /\ pc[t] = "process"
  /\ Goto(t, "top")
  /\ UNCHANGED <<at, rotation, objVars, netVars, ownerVars>>

Run(t) ==
  \/ ExitSeen(t, "top") \/ LoopWait(t) \/ LoopReceive(t)
  \/ SelectExit(t) \/ \E r \in Roles : SelectSocket(t, r)
  \/ RecvAllowed(t) \/ RecvRateLimited(t) \/ RecvFails(t)
  \/ ExitSeen(t, "check") \/ Accepted(t) \/ Process(t)

-----------------------------------------------------------------------------
(* The network.  A full receive buffer drops what arrives.                  *)

Queued(n) == IF n < QueueCap THEN n + 1 ELSE n

ClientSends(r) ==
  /\ r \in open
  /\ queue' = [queue EXCEPT ![r] = Queued(@)]
  /\ UNCHANGED <<threadVars, objVars, open, ownerVars>>

(* The kernel finds a waiting datagram's checksum wrong and discards it. *)
KernelDrops(r) ==
  /\ MayFail("drop") /\ queue[r] > 0
  /\ queue' = [queue EXCEPT ![r] = @ - 1]
  /\ UNCHANGED <<threadVars, objVars, open, ownerVars>>

-----------------------------------------------------------------------------
(* The owner's calls.                                                      *)

Idle == call = "idle"

(* A loop over _threads, in order: the step for t, and the end of the loop. *)
Visit(step, t) ==
  /\ call = step
  /\ t \in todo /\ t = First(todo)

Visited(t) == todo' = todo \ {t} /\ UNCHANGED <<call, then>>

EndLoop(step, following) ==
  /\ call = step /\ todo = {}
  /\ call' = following
  /\ UNCHANGED then

(* Stop(), called by the owner, by Shutdown(), or by a Start() that failed: *)
(* flag every thread, wake every thread, join every thread.                *)
BeginStop(after) == call' = "flag" /\ then' = after /\ todo' = objs

Stop       == Idle /\ BeginStop("idle")       /\ UNCHANGED <<threadVars, objVars, netVars>>
Shutdown   == Idle /\ BeginStop("close")      /\ UNCHANGED <<threadVars, objVars, netVars>>
Initialize == Idle /\ BeginStop("initialize") /\ UNCHANGED <<threadVars, objVars, netVars>>

SetFlag(t) == needToExit' = [needToExit EXCEPT ![t] = TRUE]

(* SignalForStop(false) *)
Flag(t) ==
  /\ Visit("flag", t) /\ Visited(t)
  /\ SetFlag(t)
  /\ UNCHANGED <<threadVars, objs, socks, netVars>>

FlagsSet ==
  /\ EndLoop("flag", "post") /\ todo' = objs
  /\ UNCHANGED <<threadVars, objVars, netVars>>

(* Mutant: fPostMessages is ignored. *)
BuggyPostMessages(t) == UNCHANGED queue

(* A datagram to every socket the thread receives on. *)
PostMessages(t) ==
  queue' = [r \in Roles |-> IF r \in socks[t] THEN Queued(queue[r])
                            ELSE queue[r]]

(* SignalForStop(true) *)
Wake(t) ==
  /\ Visit("post", t) /\ Visited(t)
  /\ SetFlag(t)
  /\ PostMessages(t)
  /\ UNCHANGED <<threadVars, objs, socks, open>>

MessagesPosted ==
  /\ EndLoop("post", "join") /\ todo' = objs
  /\ UNCHANGED <<threadVars, objVars, netVars>>

(* Mutants: the thread is not waited for; _socks keeps its sockets. *)
BuggyJoin(t) == UNCHANGED pc
Join(t) == pc[t] \in {"off", "exited"} /\ Goto(t, "off")
BuggyClearSocketArray(t) == UNCHANGED socks
ClearSocketArray(t) == socks' = [socks EXCEPT ![t] = {}]

WaitForStopAndClose(t) ==
  /\ Visit("join", t) /\ Visited(t)
  /\ Join(t)
  /\ ClearSocketArray(t)
  /\ UNCHANGED <<at, rotation, objs, needToExit, netVars>>

Stopped ==
  /\ EndLoop("join", IF then = "idle" THEN "idle" ELSE "close")
  /\ UNCHANGED <<todo, threadVars, objVars, netVars>>

(* The rest of Shutdown(): close the sockets and delete the threads. *)
CloseAll ==
  /\ call = "close"
  /\ open' = {} /\ queue' = [r \in Roles |-> 0]
  /\ objs' = {} /\ socks' = [t \in Threads |-> {}]
  /\ call' = IF then = "initialize" THEN "create" ELSE "idle"
  /\ UNCHANGED <<threadVars, needToExit, then, todo>>

(* The rest of Initialize(config) for the roles in config and its mode:    *)
(* sockets, one thread for each or one for all, and Init() of each.        *)
Create(config, fMultiThreadedMode) ==
  /\ call = "create" /\ call' = "idle"
  /\ open' = config
  /\ objs' = IF fMultiThreadedMode THEN config ELSE {First(config)}
  /\ socks' = [t \in Threads |->
                IF t \notin objs' THEN {} ELSE IF fMultiThreadedMode THEN {t} ELSE config]
  /\ needToExit' = [t \in Threads |-> FALSE]
  /\ rotation' = [t \in Threads |-> 0]
  /\ UNCHANGED <<pc, at, queue, then, todo>>

(* A step of it fails; its own Shutdown() undoes what it did. *)
CreateFails ==
  /\ call = "create" /\ MayFail("init")
  /\ call' = "idle"
  /\ UNCHANGED <<threadVars, objVars, netVars, then, todo>>

(* Start().  Without threads it fails, and its Stop() has nothing to do. *)
Start ==
  /\ Idle
  /\ call' = "start" /\ todo' = objs
  /\ UNCHANGED <<threadVars, objVars, netVars, then>>

CanStart(t) == pc[t] = "off" /\ socks[t] # {}

StartThread(t) ==
  /\ Visit("start", t) /\ Visited(t)
  /\ CanStart(t)
  /\ Goto(t, "top") /\ at' = [at EXCEPT ![t] = First(socks[t])]
  /\ UNCHANGED <<rotation, objVars, netVars>>

(* Mutant: a failed Start() leaves the threads it started running. *)
BuggyUndoStart == call' = "idle" /\ UNCHANGED <<then, todo>>
UndoStart == BeginStop("idle")

StartFails(t) ==
  /\ Visit("start", t)
  /\ ~CanStart(t) \/ MayFail("thread")
  /\ UndoStart
  /\ UNCHANGED <<threadVars, objVars, netVars>>

Started ==
  /\ EndLoop("start", "idle")
  /\ UNCHANGED <<todo, threadVars, objVars, netVars>>

-----------------------------------------------------------------------------
Call == Initialize \/ Start \/ Stop \/ Shutdown

Continue ==
  \/ FlagsSet \/ MessagesPosted \/ Stopped \/ CloseAll \/ CreateFails \/ Started
  \/ \E config \in (SUBSET Roles) \ {{}}, fMultiThreadedMode \in BOOLEAN :
       Create(config, fMultiThreadedMode)
  \/ \E t \in Threads :
       Flag(t) \/ Wake(t) \/ WaitForStopAndClose(t) \/ StartThread(t) \/ StartFails(t)

Next ==
  \/ Call \/ Continue
  \/ \E t \in Threads : Run(t)
  \/ \E r \in Roles : ClientSends(r) \/ KernelDrops(r)

Spec == Init /\ [][Next]_vars

(* The scheduler runs every thread, and the thread inside a call. *)
Fairness == WF_vars(Continue) /\ \A t \in Threads : WF_vars(Run(t))

FairSpec == Spec /\ Fairness

-----------------------------------------------------------------------------
(* Properties.                                                             *)

(* Every variable keeps its type, and a thread waits on a socket of its own. *)
TypeOK ==
  /\ objs \subseteq Threads /\ todo \subseteq objs
  /\ socks \in [Threads -> SUBSET Roles]
  /\ pc \in [Threads -> {"off", "top", "select", "recv", "check", "process", "exited"}]
  /\ at \in [Threads -> Roles] /\ \A t \in Threads : Alive(t) => at[t] \in socks[t]
  /\ rotation \in [Threads -> Nat]
  /\ \A t \in Threads : socks[t] # {} => rotation[t] < Cardinality(socks[t])
  /\ needToExit \in [Threads -> BOOLEAN]
  /\ open \subseteq Roles
  /\ queue \in [Roles -> 0 .. QueueCap]
  /\ call \in {"idle", "flag", "post", "join", "close", "create", "start"}
  /\ then \in {"idle", "close", "initialize"}

(* A thread that runs has its object and every socket it receives on or    *)
(* sends from: Shutdown() closes and deletes only after the joins of Stop(). *)
SocketsOutliveThreads ==
  \A t \in Threads : Alive(t) => t \in objs /\ socks[t] # {} /\ socks[t] \subseteq open

(* Between calls all threads of the server run and none is told to exit,   *)
(* or none runs: a Start() that fails half-way stops those it started.     *)
AllOrNothing ==
  Idle => \/ \A t \in objs : Alive(t) /\ ~needToExit[t]
          \/ \A t \in Threads : pc[t] = "off"

(* No thread starts with its exit flag set: Start() does not clear it, so  *)
(* a server that was stopped must not start again until it is initialized. *)
StartsClean ==
  [][\A t \in Threads : (pc[t] = "off" /\ pc'[t] # "off") => ~needToExit[t]]_vars

(* What the server promises about its threads and sockets. *)
life ==
  [t \in Threads |->
     IF t \notin objs THEN "absent"
     ELSE IF Alive(t) THEN "running"
     ELSE IF pc[t] = "exited" THEN "ended"
     ELSE IF socks[t] # {} THEN "ready" ELSE "retired"]
stopping == {t \in objs : needToExit[t]}
serving == open # {}

Life == INSTANCE StunThreadLife
        WITH Threads  <- Threads,
             life     <- life,
             stopping <- stopping,
             serving  <- serving

(* The server implements it. *)
ImplementsLife == Life!LifeSpec

(* Every call returns: no thread sleeps through its Stop(), whatever it was *)
(* blocked on, and even if its sockets' buffers are full.                  *)
CallsReturn == ~Idle ~> Idle

(* "rotation gives another socket priority in the next loop": a datagram   *)
(* is not left waiting by a thread that is busy with its other sockets.    *)
DatagramServed ==
  \A t \in Threads, r \in Roles :
    Alive(t) /\ r \in socks[t] /\ queue[r] > 0
      ~> (pc[t] = "recv" /\ at[t] = r) \/ queue[r] = 0 \/ needToExit[t]
=============================================================================
