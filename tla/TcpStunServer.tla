----------------------------- MODULE TcpStunServer ----------------------------
(***************************************************************************)
(* CTCPServer (STUNsvc/server/tcpserver.cpp) and the life of its           *)
(* CTCPStunThread objects: one for all listen sockets or one for each.     *)
(* What a thread does with its connections is the subject of               *)
(* TcpStunThread; here it is "busy" or waits.                              *)
(*                                                                         *)
(* The owner makes one call at a time; todo holds the threads the loop of  *)
(* that call has yet to do.  Init of a thread is a step for each resource  *)
(* it takes, since each may fail.                                          *)
(***************************************************************************)
EXTENDS Integers

CONSTANTS
  Configs,  \* the sets of roles a configuration may have an address for
  Faults    \* calls that may fail, a subset of FaultKinds

InitSteps == {"listen", "pipe", "poll", "table"}
FaultKinds == InitSteps \cup {"thread"}
Roles == 0..3

(* BuildServerConfigurationFromArgs always sets fHasPP. *)
ASSUME ConfigsAssumption == Configs \subseteq {C \in SUBSET Roles : 0 \in C}
ASSUME FaultsAssumption == Faults \subseteq FaultKinds

MayFail(f) == f \in Faults

Threads == 0..3
First(S) == CHOOSE r \in S : \A q \in S : r <= q

VARIABLES
  objs,       \* _threads: the indexes that hold an object
  pc,         \* where each thread is; "off" when !_fThreadIsValid
  needToExit, \* _fNeedToExit of each thread
  listens,    \* roles each thread has an open listen socket for
  pipe,       \* threads whose pipe is open
  notified,   \* threads with a byte in the pipe
  polling,    \* threads with a poll object
  config,     \* the configuration Initialize was called with,
  multi,      \* and its fMultiThreadedMode
  call,       \* the owner's call, the step of it that comes next
  todo        \* threads the current loop has yet to visit

threadVars == <<pc, needToExit>>
resVars    == <<listens, pipe, notified, polling>>
configVars == <<config, multi>>
ownerVars  == <<call, todo>>
vars == <<objs, threadVars, resVars, configVars, ownerVars>>

Init ==
  /\ objs = {} /\ pipe = {} /\ notified = {} /\ polling = {}
  /\ pc = [t \in Threads |-> "off"]
  /\ needToExit = [t \in Threads |-> FALSE]
  /\ listens = [t \in Threads |-> {}]
  /\ config = {} /\ multi = FALSE
  /\ call = "idle" /\ todo = {}

Alive(t) == pc[t] \notin {"off", "exited"}

-----------------------------------------------------------------------------
(* The thread: the loop of Run().                                          *)

Goto(t, where) == pc' = [pc EXCEPT ![t] = where]

Leave(t) ==
  /\ Goto(t, "exited")
  /\ UNCHANGED <<objs, needToExit, resVars, configVars, ownerVars>>

LoopExit(t) == pc[t] = "top" /\ needToExit[t] /\ Leave(t)

Wait(t) ==
  /\ pc[t] = "top" /\ ~needToExit[t]
  /\ Goto(t, "poll")
  /\ UNCHANGED <<objs, needToExit, resVars, configVars, ownerVars>>

(* The pipe is readable: the thread ends without reading it. *)
PipeEvent(t) == pc[t] = "poll" /\ t \in notified /\ Leave(t)

(* A client, or the sweep period, ends the wait. *)
ClientEvent(t) ==
  /\ pc[t] = "poll"
  /\ IF needToExit[t] THEN Leave(t)
     ELSE /\ Goto(t, "busy")
          /\ UNCHANGED <<objs, needToExit, resVars, configVars, ownerVars>>

Served(t) ==
  /\ pc[t] = "busy"
  /\ Goto(t, "top")
  /\ UNCHANGED <<objs, needToExit, resVars, configVars, ownerVars>>

Run(t) == LoopExit(t) \/ Wait(t) \/ PipeEvent(t) \/ Served(t)

-----------------------------------------------------------------------------
(* The owner's calls.                                                      *)

Idle == call = "idle"

(* A loop over _threads, in order: the step for t, and the end of the loop. *)
Visit(step, t) ==
  /\ call = step
  /\ t \in todo /\ t = First(todo)

Visited(t, next) == todo' = todo \ {t} /\ call' = next

EndLoop(step) ==
  /\ call = step /\ todo = {}
  /\ call' = "idle"
  /\ UNCHANGED <<todo, objs, threadVars, resVars, configVars>>

(* Shutdown(): Stop() is the same, and so is the destructor. *)
BeginShutdown == call' = "delete" /\ todo' = objs

Shutdown ==
  /\ Idle /\ BeginShutdown
  /\ UNCHANGED <<objs, threadVars, resVars, configVars>>

(* Mutants: Reset() forgets the pipe; the listen sockets. *)
BuggyClosePipes(t) == UNCHANGED <<pipe, notified>>
BuggyCloseListenSockets(t) == UNCHANGED listens

ClosePipes(t) == pipe' = pipe \ {t} /\ notified' = notified \ {t}
CloseListenSockets(t) == listens' = [listens EXCEPT ![t] = {}]

(* CTCPStunThread::Reset() *)
Reset(t) ==
  /\ polling' = polling \ {t}
  /\ CloseListenSockets(t)
  /\ ClosePipes(t)
  /\ needToExit' = [needToExit EXCEPT ![t] = FALSE]

(* delete _threads[t], whose destructor calls Stop(): a valid thread is    *)
(* flagged, notified and joined; then everything is reset.                 *)
DeleteIdle(t) ==
  /\ Visit("delete", t) /\ pc[t] = "off"
  /\ Reset(t)
  /\ objs' = objs \ {t}
  /\ Visited(t, "delete")
  /\ UNCHANGED <<pc, configVars>>

Flag(t) ==
  /\ Visit("delete", t) /\ pc[t] # "off"
  /\ needToExit' = [needToExit EXCEPT ![t] = TRUE]
  /\ call' = "notify"
  /\ UNCHANGED <<objs, pc, resVars, configVars, todo>>

(* Mutant: nothing is written to the pipe. *)
BuggyNotify(t) == UNCHANGED notified
NotifyThreadViaPipe(t) == notified' = notified \cup {t}

Notify(t) ==
  /\ Visit("notify", t)
  /\ NotifyThreadViaPipe(t)
  /\ call' = "join"
  /\ UNCHANGED <<objs, threadVars, listens, pipe, polling, configVars, todo>>

(* Mutant: the thread is not waited for. *)
BuggyJoin(t) == UNCHANGED pc
Join(t) == pc[t] = "exited" /\ Goto(t, "off")

DeleteJoined(t) ==
  /\ Visit("join", t)
  /\ Join(t)
  /\ Reset(t)
  /\ objs' = objs \ {t}
  /\ Visited(t, "delete")
  /\ UNCHANGED configVars

(* Initialize(config).  A server that is initialized is shut down by the   *)
(* failure this is.                                                        *)
Initialize(c, fMultiThreadedMode) ==
  /\ Idle /\ 0 \notin objs
  /\ config' = c /\ multi' = fMultiThreadedMode
  /\ call' = "make"
  /\ todo' = IF fMultiThreadedMode THEN c ELSE {0}
  /\ UNCHANGED <<objs, threadVars, resVars>>

InitializeAgain ==
  /\ Idle /\ 0 \in objs
  /\ BeginShutdown
  /\ UNCHANGED <<objs, threadVars, resVars, configVars>>

(* new CTCPStunThread() *)
Make(t) ==
  /\ Visit("make", t)
  /\ objs' = objs \cup {t}
  /\ call' = "listen"
  /\ UNCHANGED <<threadVars, resVars, configVars, todo>>

(* Mutant: the sockets of other threads are not taken out of tsaListen. *)
BuggyManaged(t) == config
(* tsaListen, the roles a thread manages. *)
Managed(t) == IF multi THEN {t} ELSE config

(* Init() of the thread made last: CreateListenSockets, CreatePipes,       *)
(* CreatePollingInstance with its Adds, and the tables.                    *)
CreateListenSockets(t) ==
  /\ Visit("listen", t)
  /\ listens' = [listens EXCEPT ![t] = Managed(t)]
  /\ call' = "pipe"
  /\ UNCHANGED <<objs, threadVars, pipe, notified, polling, configVars, todo>>

CreatePipes(t) ==
  /\ Visit("pipe", t)
  /\ pipe' = pipe \cup {t}
  /\ call' = "poll"
  /\ UNCHANGED <<objs, threadVars, listens, notified, polling, configVars, todo>>

CreatePollingInstance(t) ==
  /\ Visit("poll", t)
  /\ polling' = polling \cup {t}
  /\ call' = "table"
  /\ UNCHANGED <<objs, threadVars, listens, pipe, notified, configVars, todo>>

InitTables(t) ==
  /\ Visit("table", t)
  /\ needToExit' = [needToExit EXCEPT ![t] = FALSE]
  /\ Visited(t, "make")
  /\ UNCHANGED <<objs, pc, resVars, configVars>>

(* A step of Init fails.  CreateListenSockets may have opened some of its  *)
(* sockets, and an Add may fail once there is a poll object.               *)
InitFails(t) ==
  /\ call \in InitSteps /\ MayFail(call) /\ Visit(call, t)
  /\ \/ /\ call = "listen"
        /\ \E opened \in SUBSET Managed(t) : listens' = [listens EXCEPT ![t] = opened]
        /\ UNCHANGED polling
     \/ /\ call = "poll"
        /\ polling' \in {polling, polling \cup {t}}
        /\ UNCHANGED listens
     \/ call \in {"pipe", "table"} /\ UNCHANGED <<listens, polling>>
  /\ call' = "undo"
  /\ UNCHANGED <<objs, threadVars, pipe, notified, configVars, todo>>

(* Its cleanup resets the thread, and that of Initialize shuts down. *)
UndoInit(t) ==
  /\ Visit("undo", t)
  /\ Reset(t)
  /\ BeginShutdown
  /\ UNCHANGED <<objs, pc, configVars>>

(* Mutant: a NULL entry of _threads is not skipped. *)
BuggyStart ==
  /\ Idle
  /\ call' = "start" /\ todo' = Threads
  /\ UNCHANGED <<objs, threadVars, resVars, configVars>>

(* Start(): goes through the threads and returns at the first that fails.  *)
Start ==
  /\ Idle
  /\ call' = "start" /\ todo' = objs
  /\ UNCHANGED <<objs, threadVars, resVars, configVars>>

CanStart(t) == pc[t] = "off" /\ t \in pipe

StartThread(t) ==
  /\ Visit("start", t) /\ CanStart(t)
  /\ needToExit' = [needToExit EXCEPT ![t] = FALSE]
  /\ Goto(t, "top")
  /\ Visited(t, "start")
  /\ UNCHANGED <<objs, resVars, configVars>>

StartFails(t) ==
  /\ Visit("start", t)
  /\ \/ ~CanStart(t) /\ UNCHANGED needToExit
     \/ CanStart(t) /\ MayFail("thread") /\ needToExit' = [needToExit EXCEPT ![t] = FALSE]
  /\ call' = "idle" /\ todo' = {}
  /\ UNCHANGED <<objs, pc, resVars, configVars>>

-----------------------------------------------------------------------------
Call ==
  \/ \E c \in Configs, fMultiThreadedMode \in BOOLEAN : Initialize(c, fMultiThreadedMode)
  \/ InitializeAgain \/ Start \/ Shutdown

Continue ==
  \/ EndLoop("make") \/ EndLoop("start") \/ EndLoop("delete")
  \/ \E t \in Threads :
       \/ Make(t) \/ CreateListenSockets(t) \/ CreatePipes(t)
       \/ CreatePollingInstance(t) \/ InitTables(t) \/ InitFails(t) \/ UndoInit(t)
       \/ StartThread(t) \/ StartFails(t)
       \/ DeleteIdle(t) \/ Flag(t) \/ Notify(t) \/ DeleteJoined(t)

Next == Call \/ Continue \/ \E t \in Threads : Run(t) \/ ClientEvent(t)

Spec == Init /\ [][Next]_vars

(* The scheduler runs every thread, and the thread inside a call. *)
Fairness == WF_vars(Continue) /\ \A t \in Threads : WF_vars(Run(t))

FairSpec == Spec /\ Fairness

-----------------------------------------------------------------------------
(* Properties.                                                             *)

(* Every variable keeps its type, and Start() and Shutdown() use only      *)
(* entries of _threads that hold an object.                                *)
TypeOK ==
  /\ objs \subseteq Threads /\ todo \subseteq Threads
  /\ call \in {"start", "delete", "notify", "join"} => todo \subseteq objs
  /\ pc \in [Threads -> {"off", "top", "poll", "busy", "exited"}]
  /\ needToExit \in [Threads -> BOOLEAN]
  /\ listens \in [Threads -> SUBSET Roles]
  /\ pipe \subseteq Threads /\ notified \subseteq pipe /\ polling \subseteq Threads
  /\ config \subseteq Roles /\ multi \in BOOLEAN
  /\ call \in {"idle", "make", "undo", "start", "delete", "notify", "join"} \cup InitSteps

(* Nothing is left of an object that was deleted, whichever step of its    *)
(* Init failed: neither sockets nor a pipe, a poll object or a thread.     *)
NothingLeft ==
  \A t \in Threads \ objs :
    pc[t] = "off" /\ listens[t] = {} /\ t \notin pipe \cup polling

(* A thread has everything it waits on until it has been joined (Stop).    *)
ResourcesOutliveThread ==
  \A t \in Threads : pc[t] # "off" => t \in objs \cap pipe \cap polling /\ listens[t] # {}

(* Between calls a server listens on nothing or, once, on each role of its *)
(* configuration: Initialize does all of it or none.                       *)
EachRoleOnce ==
  Idle => \/ objs = {}
          \/ \A r \in Roles :
               IF r \in config THEN \E t \in objs : {u \in objs : r \in listens[u]} = {t}
               ELSE \A u \in objs : r \notin listens[u]

(* "we don't support restarting a thread (as that would require flushing   *)
(* _pipe)": every thread starts with its flag clear and its pipe empty.    *)
StartsClean ==
  [][\A t \in Threads : (pc[t] = "off" /\ pc'[t] # "off") => ~needToExit'[t] /\ t \notin notified]_vars

(* What the server promises about each thread and its sockets. *)
life ==
  [t \in Threads |->
     IF pc[t] = "exited" THEN "ended" ELSE IF Alive(t) THEN "running"
     ELSE IF listens[t] # {} THEN "ready" ELSE "absent"]
stopping == {t \in Threads : needToExit[t]}

Life == INSTANCE StunListenerLife
        WITH Threads  <- Threads,
             life     <- life,
             stopping <- stopping

(* The server implements it. *)
ImplementsLife == Life!LifeSpec

(* Every call returns: no thread sleeps through its Stop().  So a server   *)
(* whose Start() left some threads running can still be shut down.         *)
CallsReturn == ~Idle ~> Idle
=============================================================================
