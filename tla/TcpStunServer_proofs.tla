-------------------------- MODULE TcpStunServer_proofs -------------------------
(***************************************************************************)
(* Theorems about TcpStunServer, for every set of configurations and every *)
(* set of faults: nothing is left of a deleted thread, a thread keeps what *)
(* it waits on, Initialize does all or nothing, no thread starts with its  *)
(* flag set or a byte in its pipe; no two listen on one socket, and one    *)
(* that is joined can wake.  The server implements StunListenerLife, and   *)
(* runs its threads as TcpThreadLife says.                                 *)
(***************************************************************************)
EXTENDS TcpStunServer, TLAPS

USE ConfigsAssumption, FaultsAssumption
USE DEF Threads, Roles

Making == InitSteps \cup {"make", "undo"}
Deleting == {"delete", "notify", "join"}

(* The threads of a configuration, and one whose Init is done. *)
Plan == IF multi THEN config ELSE {0}
Complete(t) == listens[t] = Managed(t) /\ t \in pipe /\ t \in polling

(* A thread is told to exit only by its own deletion. *)
FlagProgress ==
  /\ \A t \in Threads : t \notin objs => ~needToExit[t]
  /\ \A t \in Threads : needToExit[t] => call \in {"notify", "join"} /\ t = First(todo)
  /\ \A t \in Threads : t \in notified => call = "join" /\ needToExit[t]
  /\ \A t \in Threads : pc[t] = "exited" => needToExit[t]

(* What is flagged and notified is a thread to join. *)
NotifyProgress ==
  call \in {"notify", "join"} => pc[First(todo)] # "off" /\ needToExit[First(todo)]

(* How far Initialize has got: the threads before the first of todo are    *)
(* complete, that one is in the step of Init that call names.              *)
MakeProgress ==
  call \in Making =>
    /\ objs \cup todo = Plan
    /\ \A t \in Threads : pc[t] = "off"
    /\ \A t \in objs \ todo : Complete(t)
    /\ call = "make" => objs \cap todo = {}
    /\ call # "make" => objs \cap todo = {First(todo)}
    /\ call = "listen" => listens[First(todo)] = {}
    /\ call \in {"pipe", "poll", "table"} => listens[First(todo)] = Managed(First(todo))
    /\ call \in {"poll", "table"} => First(todo) \in pipe
    /\ call = "table" => First(todo) \in polling

(* Deletion takes each object of the server, and between calls all of them *)
(* are complete.                                                           *)
CallProgress ==
  /\ call \in Deleting => todo = objs
  /\ call \in {"idle", "start"} => objs = {} \/ (objs = Plan /\ \A t \in objs : Complete(t))
  /\ call \in Making \/ objs # {} => config \in Configs

Inv ==
  /\ TypeOK /\ NothingLeft /\ ResourcesOutliveThread
  /\ FlagProgress /\ NotifyProgress /\ MakeProgress /\ CallProgress

-----------------------------------------------------------------------------
(* The invariant holds initially. *)
LEMMA InitInv == Init => Inv
<1> SUFFICES ASSUME Init PROVE Inv
  OBVIOUS
<1>1. TypeOK
  BY DEF Init, TypeOK
<1>2. NothingLeft /\ ResourcesOutliveThread
  BY DEF Init, NothingLeft, ResourcesOutliveThread
<1>3. FlagProgress /\ NotifyProgress /\ MakeProgress /\ CallProgress
  BY DEF Init, FlagProgress, NotifyProgress, MakeProgress, CallProgress, Making, Deleting, InitSteps
<1> QED
  BY <1>1, <1>2, <1>3 DEF Inv

(* Clearing the flag of a thread whose flag is clear. *)
LEMMA ClearFlag ==
  ASSUME NEW f \in [Threads -> BOOLEAN], NEW g, NEW t \in Threads,
         \A u \in Threads : ~f[u], g = f \/ g = [f EXCEPT ![t] = FALSE]
  PROVE  g \in [Threads -> BOOLEAN] /\ \A u \in Threads : ~g[u]
<1>1. CASE g = f
  BY <1>1
<1>2. CASE g = [f EXCEPT ![t] = FALSE]
  BY <1>2
<1> QED
  BY <1>1, <1>2

(* A thread moves; it is one that runs. *)
LEMMA RunInv ==
  ASSUME Inv, NEW t \in Threads, Run(t) \/ ClientEvent(t)
  PROVE  Inv'
<1> USE DEF Inv, resVars, configVars, ownerVars
<1>1. /\ UNCHANGED <<objs, needToExit, resVars, configVars, ownerVars>>
      /\ pc[t] \notin {"off", "exited"}
      /\ \E where \in {"top", "poll", "busy", "exited"} :
           /\ pc' = [pc EXCEPT ![t] = where]
           /\ where = "exited" => needToExit[t]
  BY DEF Run, LoopExit, Wait, PipeEvent, Served, ClientEvent, Leave, Goto, FlagProgress
<1>2. PICK where \in {"top", "poll", "busy", "exited"} :
        pc' = [pc EXCEPT ![t] = where] /\ (where = "exited" => needToExit[t])
  BY <1>1
<1>3. /\ pc' \in [Threads -> {"off", "top", "poll", "busy", "exited"}]
      /\ \A u \in Threads : (pc'[u] = "off") = (pc[u] = "off")
      /\ \A u \in Threads : pc'[u] = "exited" => needToExit[u]
  BY <1>1, <1>2 DEF TypeOK, FlagProgress
<1>4. TypeOK'
  BY <1>1, <1>3 DEF TypeOK
<1>5. NothingLeft' /\ ResourcesOutliveThread'
  BY <1>1, <1>3 DEF NothingLeft, ResourcesOutliveThread
<1>6. FlagProgress' /\ NotifyProgress'
  BY <1>1, <1>3 DEF FlagProgress, NotifyProgress
<1>7. MakeProgress' /\ CallProgress'
  BY <1>1, <1>3 DEF MakeProgress, CallProgress, Plan, Complete, Managed
<1> QED
  BY <1>4, <1>5, <1>6, <1>7

(* The steps that begin or end a call. *)
LEMMA CallInv ==
  ASSUME Inv, \/ Call
              \/ EndLoop("make") \/ EndLoop("start") \/ EndLoop("delete")
  PROVE  Inv'
<1> USE DEF Inv, threadVars, resVars, configVars, ownerVars
<1>1. CASE \E c \in Configs, fMultiThreadedMode \in BOOLEAN : Initialize(c, fMultiThreadedMode)
  <2>1. PICK c \in Configs, m \in BOOLEAN : Initialize(c, m)
    BY <1>1
  <2>2. objs = {}
    BY <2>1 DEF Initialize, Idle, CallProgress, Plan
  <2>3. \A t \in Threads : pc[t] = "off"
    BY <2>2 DEF NothingLeft
  <2>4. c \subseteq Roles /\ todo' = Plan' /\ todo' \subseteq Threads
    BY <2>1 DEF Initialize, Plan
  <2>5. TypeOK'
    BY <2>1, <2>4 DEF Initialize, TypeOK, InitSteps
  <2>6. NothingLeft' /\ ResourcesOutliveThread'
    BY <2>1 DEF Initialize, NothingLeft, ResourcesOutliveThread
  <2>7. FlagProgress' /\ NotifyProgress'
    BY <2>1 DEF Initialize, FlagProgress, NotifyProgress, Idle
  <2>8. MakeProgress' /\ CallProgress'
    BY <2>1, <2>2, <2>3, <2>4 DEF Initialize, MakeProgress, CallProgress, Making, Deleting, InitSteps
  <2> QED
    BY <2>5, <2>6, <2>7, <2>8
<1>2. CASE InitializeAgain \/ Shutdown
  <2>1. /\ call = "idle" /\ call' = "delete" /\ todo' = objs
        /\ UNCHANGED <<objs, threadVars, resVars, configVars>>
    BY <1>2 DEF InitializeAgain, Shutdown, BeginShutdown, Idle
  <2> QED
    BY <2>1 DEF TypeOK, NothingLeft, ResourcesOutliveThread, FlagProgress, NotifyProgress, MakeProgress,
                CallProgress, Making, Deleting, InitSteps
<1>3. CASE Start
  <2>1. /\ call = "idle" /\ call' = "start" /\ todo' = objs
        /\ UNCHANGED <<objs, threadVars, resVars, configVars>>
    BY <1>3 DEF Start, Idle
  <2> QED
    BY <2>1 DEF TypeOK, NothingLeft, ResourcesOutliveThread, FlagProgress, NotifyProgress, MakeProgress,
                CallProgress, Making, Deleting, InitSteps, Complete, Managed, Plan
<1>4. CASE EndLoop("make") \/ EndLoop("start") \/ EndLoop("delete")
  <2>1. /\ call \in {"make", "start", "delete"} /\ call' = "idle" /\ todo = {}
        /\ UNCHANGED <<todo, objs, threadVars, resVars, configVars>>
    BY <1>4 DEF EndLoop
  <2>2. objs = {} \/ (objs = Plan /\ \A t \in objs : Complete(t))
    BY <2>1 DEF CallProgress, MakeProgress, Making, Deleting
  <2>3. CallProgress'
    BY <2>1, <2>2 DEF CallProgress, Making, Deleting, InitSteps, Complete, Managed, Plan
  <2>4. TypeOK' /\ NothingLeft' /\ ResourcesOutliveThread' /\ FlagProgress' /\ NotifyProgress' /\ MakeProgress'
    BY <2>1 DEF TypeOK, NothingLeft, ResourcesOutliveThread, FlagProgress, NotifyProgress, MakeProgress,
                Making, InitSteps
  <2> QED
    BY <2>3, <2>4
<1> QED
  BY <1>1, <1>2, <1>3, <1>4 DEF Call

(* The steps of Initialize's loop, for the first thread of todo. *)
LEMMA MakeInv ==
  ASSUME Inv, NEW t \in Threads,
         \/ Make(t) \/ CreateListenSockets(t) \/ CreatePipes(t)
         \/ CreatePollingInstance(t) \/ InitTables(t) \/ InitFails(t)
  PROVE  Inv'
<1> USE DEF Inv, threadVars, resVars, configVars, ownerVars
<1>1. /\ call \in Making \ {"undo"} /\ t \in todo /\ t = First(todo) /\ UNCHANGED <<pc, configVars>>
      /\ \A u \in Threads : pc[u] = "off" /\ ~needToExit[u] /\ u \notin notified
      /\ needToExit' \in [Threads -> BOOLEAN] /\ \A u \in Threads : ~needToExit'[u]
      /\ notified' = notified /\ call' \in Making
  <2>1. /\ call \in Making \ {"undo"} /\ t \in todo /\ t = First(todo) /\ call' \in Making
        /\ UNCHANGED <<pc, configVars, notified>>
        /\ needToExit' = needToExit \/ needToExit' = [needToExit EXCEPT ![t] = FALSE]
    BY DEF Make, CreateListenSockets, CreatePipes, CreatePollingInstance, InitTables, InitFails,
           Visit, Visited, Making, InitSteps
  <2>2. \A u \in Threads : pc[u] = "off" /\ ~needToExit[u] /\ u \notin notified
    BY <2>1 DEF MakeProgress, FlagProgress, Making, InitSteps
  <2>3. needToExit' \in [Threads -> BOOLEAN] /\ \A u \in Threads : ~needToExit'[u]
    BY <2>1, <2>2, ClearFlag DEF TypeOK
  <2> QED
    BY <2>1, <2>2, <2>3
<1>2. Managed(t) \subseteq Roles
  BY DEF Managed, TypeOK
<1>3. FlagProgress' /\ NotifyProgress' /\ ResourcesOutliveThread'
  BY <1>1 DEF FlagProgress, NotifyProgress, ResourcesOutliveThread, Making, InitSteps
<1>4. config \in Configs /\ objs \cup todo = Plan /\ \A u \in objs \ todo : Complete(u)
  BY <1>1 DEF CallProgress, MakeProgress
<1>5. CASE Make(t)
  <2>1. /\ objs' = objs \cup {t} /\ call = "make" /\ call' = "listen"
        /\ UNCHANGED <<todo, listens, pipe, polling>>
    BY <1>5 DEF Make, Visit
  <2>2. t \notin objs /\ listens[t] = {} /\ objs' \cap todo' = {t}
    BY <1>1, <2>1 DEF MakeProgress, NothingLeft, Making
  <2>3. MakeProgress' /\ CallProgress'
    BY <1>1, <1>4, <2>1, <2>2 DEF MakeProgress, CallProgress, Deleting, Plan, Complete, Managed
  <2>4. TypeOK' /\ NothingLeft'
    BY <1>1, <2>1 DEF TypeOK, NothingLeft, InitSteps
  <2> QED
    BY <1>3, <2>3, <2>4
<1>6. CASE CreateListenSockets(t) \/ CreatePipes(t) \/ CreatePollingInstance(t) \/ InitFails(t)
  <2>1. /\ call \in InitSteps /\ UNCHANGED <<todo, objs>> /\ call' \in Making \ {"make", "listen"}
        /\ objs \cap todo = {t}
    BY <1>1, <1>6 DEF CreateListenSockets, CreatePipes, CreatePollingInstance, InitFails, Visit,
                      MakeProgress, Making, InitSteps
  <2>2. /\ listens' \in [Threads -> SUBSET Roles] /\ pipe' \subseteq Threads /\ polling' \subseteq Threads
        /\ \A u \in Threads \ {t} : /\ listens'[u] = listens[u] /\ (u \in pipe') = (u \in pipe)
                                    /\ (u \in polling') = (u \in polling)
        /\ pipe \subseteq pipe'
    <3>1. /\ listens' = listens \/ \E opened \in SUBSET Roles : listens' = [listens EXCEPT ![t] = opened]
          /\ pipe' \in {pipe, pipe \cup {t}} /\ polling' \in {polling, polling \cup {t}}
      BY <1>2, <1>6 DEF CreateListenSockets, CreatePipes, CreatePollingInstance, InitFails
    <3>2. /\ listens' \in [Threads -> SUBSET Roles]
          /\ \A u \in Threads \ {t} : listens'[u] = listens[u]
      BY <3>1 DEF TypeOK
    <3>3. /\ pipe' \subseteq Threads /\ polling' \subseteq Threads /\ pipe \subseteq pipe'
          /\ \A u \in Threads \ {t} : /\ (u \in pipe') = (u \in pipe)
                                      /\ (u \in polling') = (u \in polling)
      <4>1. CASE pipe' = pipe
        BY <3>1, <4>1 DEF TypeOK
      <4>2. CASE pipe' = pipe \cup {t}
        BY <3>1, <4>2 DEF TypeOK
      <4> QED
        BY <3>1, <4>1, <4>2
    <3> QED
      BY <3>2, <3>3
  <2>3. /\ call' \in {"pipe", "poll", "table"} => listens'[t] = Managed(t)
        /\ call' \in {"poll", "table"} => t \in pipe'
        /\ call' = "table" => t \in polling'
    BY <1>1, <1>6, <2>1 DEF CreateListenSockets, CreatePipes, CreatePollingInstance, InitFails,
                      Visit, MakeProgress, Making, InitSteps, TypeOK
  <2>4. TypeOK'
    BY <1>1, <2>1, <2>2 DEF TypeOK, Making, InitSteps
  <2>5. NothingLeft'
    BY <1>1, <2>1, <2>2 DEF NothingLeft
  <2>6. \A u \in objs' \ todo' : Complete(u)'
    BY <1>1, <1>4, <2>1, <2>2 DEF Complete, Managed, TypeOK
  <2>7. MakeProgress'
    BY <1>1, <1>4, <2>1, <2>3, <2>6 DEF MakeProgress, Making, Plan, Managed, InitSteps
  <2>8. CallProgress'
    BY <1>1, <1>4, <2>1 DEF CallProgress, Making, Deleting, InitSteps
  <2> QED
    BY <1>3, <2>4, <2>5, <2>7, <2>8
<1>7. CASE InitTables(t)
  <2>1. /\ call = "table" /\ call' = "make" /\ todo' = todo \ {t}
        /\ UNCHANGED <<objs, listens, pipe, polling>>
    BY <1>7 DEF InitTables, Visit, Visited
  <2>2. objs \cap todo = {t} /\ Complete(t)
    BY <1>1, <2>1 DEF MakeProgress, Complete, Making, InitSteps
  <2>3. objs' \cup todo' = objs \cup todo /\ objs' \cap todo' = {}
    BY <2>1, <2>2
  <2>4. MakeProgress' /\ CallProgress'
    BY <1>1, <1>4, <2>1, <2>2, <2>3 DEF MakeProgress, CallProgress, Making, Deleting, Plan,
                                        Complete, Managed, InitSteps
  <2>5. TypeOK' /\ NothingLeft'
    BY <1>1, <2>1 DEF TypeOK, NothingLeft
  <2> QED
    BY <1>3, <2>4, <2>5
<1> QED
  BY <1>5, <1>6, <1>7

(* Reset() of t, whose thread is not running, and what becomes of objs. *)
LEMMA ResetFacts ==
  ASSUME TypeOK, NEW t \in Threads, Reset(t)
  PROVE  /\ listens' \in [Threads -> SUBSET Roles] /\ needToExit' \in [Threads -> BOOLEAN]
         /\ listens'[t] = {} /\ ~needToExit'[t] /\ t \notin pipe' \cup polling' \cup notified'
         /\ pipe' \subseteq Threads /\ polling' \subseteq Threads /\ notified' \subseteq pipe'
         /\ \A u \in Threads \ {t} :
              /\ listens'[u] = listens[u] /\ needToExit'[u] = needToExit[u]
              /\ (u \in pipe') = (u \in pipe) /\ (u \in polling') = (u \in polling)
              /\ (u \in notified') = (u \in notified)
  BY DEF TypeOK, Reset, CloseListenSockets, ClosePipes

(* The steps of Shutdown, and of a failed Init. *)
LEMMA DeleteInv ==
  ASSUME Inv, NEW t \in Threads,
         UndoInit(t) \/ DeleteIdle(t) \/ Flag(t) \/ Notify(t) \/ DeleteJoined(t)
  PROVE  Inv'
<1> USE DEF Inv, threadVars, resVars, configVars, ownerVars
<1>1. CASE UndoInit(t)
  <2>1. /\ call = "undo" /\ t \in todo /\ t = First(todo) /\ Reset(t)
        /\ call' = "delete" /\ todo' = objs /\ UNCHANGED <<objs, pc, configVars>>
    BY <1>1 DEF UndoInit, Visit, BeginShutdown
  <2>2. \A u \in Threads : pc[u] = "off" /\ ~needToExit[u] /\ u \notin notified
    BY <2>1 DEF MakeProgress, FlagProgress, Making
  <2> QED
    BY <2>1, <2>2, ResetFacts DEF TypeOK, NothingLeft, ResourcesOutliveThread, FlagProgress, NotifyProgress,
       MakeProgress, CallProgress, Making, Deleting, InitSteps
<1>2. CASE DeleteIdle(t) \/ DeleteJoined(t)
  <2>1. /\ call \in Deleting /\ t \in todo /\ t = First(todo) /\ Reset(t)
        /\ objs' = objs \ {t} /\ todo' = todo \ {t} /\ call' = "delete"
        /\ UNCHANGED configVars
        /\ pc' \in [Threads -> {"off", "top", "poll", "busy", "exited"}]
        /\ pc'[t] = "off" /\ \A u \in Threads \ {t} : pc'[u] = pc[u]
    BY <1>2 DEF DeleteIdle, DeleteJoined, Visit, Visited, Join, Goto, TypeOK, Deleting
  <2>2. \A u \in Threads : u # t => ~needToExit[u] /\ u \notin notified /\ pc[u] # "exited"
    BY <2>1 DEF FlagProgress, NotifyProgress
  <2>3. TypeOK'
    BY <2>1, ResetFacts DEF TypeOK, Deleting
  <2>4. NothingLeft' /\ ResourcesOutliveThread'
    BY <2>1, ResetFacts DEF NothingLeft, ResourcesOutliveThread, TypeOK
  <2>5. FlagProgress' /\ NotifyProgress'
    <3>1. \A u \in Threads : ~needToExit'[u] /\ u \notin notified' /\ pc'[u] # "exited"
      BY <2>1, <2>2, ResetFacts
    <3> QED
      BY <2>1, <3>1 DEF FlagProgress, NotifyProgress
  <2>6. MakeProgress' /\ CallProgress'
    BY <2>1 DEF MakeProgress, CallProgress, Making, Deleting, InitSteps
  <2> QED
    BY <2>3, <2>4, <2>5, <2>6
<1>3. CASE Flag(t)
  <2>1. /\ call = "delete" /\ call' = "notify" /\ t \in todo /\ t = First(todo) /\ t \in objs
        /\ pc[t] # "off" /\ needToExit' = [needToExit EXCEPT ![t] = TRUE]
        /\ UNCHANGED <<objs, pc, resVars, configVars, todo>>
    BY <1>3 DEF Flag, Visit, CallProgress, Deleting
  <2>2. /\ \A u \in Threads : ~needToExit[u] /\ u \notin notified /\ pc[u] # "exited"
        /\ needToExit' \in [Threads -> BOOLEAN] /\ \A u \in Threads \ {t} : ~needToExit'[u]
    BY <2>1 DEF FlagProgress, NotifyProgress, TypeOK
  <2>3. TypeOK' /\ NothingLeft' /\ ResourcesOutliveThread'
    BY <2>1, <2>2 DEF TypeOK, NothingLeft, ResourcesOutliveThread
  <2>4. FlagProgress' /\ NotifyProgress'
    BY <2>1, <2>2 DEF FlagProgress, NotifyProgress
  <2>5. MakeProgress' /\ CallProgress'
    BY <2>1 DEF MakeProgress, CallProgress, Making, Deleting, InitSteps
  <2> QED
    BY <2>3, <2>4, <2>5
<1>4. CASE Notify(t)
  <2>1. /\ call = "notify" /\ call' = "join" /\ t \in todo /\ t = First(todo) /\ t \in objs
        /\ notified' = notified \cup {t}
        /\ UNCHANGED <<objs, threadVars, listens, pipe, polling, configVars, todo>>
    BY <1>4 DEF Notify, NotifyThreadViaPipe, Visit, CallProgress, Deleting
  <2>2. pc[t] # "off" /\ needToExit[t] /\ t \in pipe
    BY <2>1 DEF NotifyProgress, ResourcesOutliveThread
  <2>3. TypeOK' /\ NothingLeft' /\ ResourcesOutliveThread'
    BY <2>1, <2>2 DEF TypeOK, NothingLeft, ResourcesOutliveThread
  <2>4. FlagProgress' /\ NotifyProgress'
    BY <2>1, <2>2 DEF FlagProgress, NotifyProgress
  <2>5. MakeProgress' /\ CallProgress'
    BY <2>1 DEF MakeProgress, CallProgress, Making, Deleting, InitSteps
  <2> QED
    BY <2>3, <2>4, <2>5
<1> QED
  BY <1>1, <1>2, <1>3, <1>4

(* The steps of Start. *)
LEMMA StartInv ==
  ASSUME Inv, NEW t \in Threads, StartThread(t) \/ StartFails(t)
  PROVE  Inv'
<1> USE DEF Inv, resVars, configVars
<1>1. /\ call = "start" /\ t \in todo /\ t \in objs /\ todo' \subseteq todo
      /\ call' \in {"start", "idle"}
      /\ UNCHANGED <<objs, resVars, configVars>>
      /\ pc' = pc \/ (CanStart(t) /\ pc' = [pc EXCEPT ![t] = "top"])
      /\ needToExit' = needToExit \/ needToExit' = [needToExit EXCEPT ![t] = FALSE]
  BY DEF StartThread, StartFails, Visit, Visited, Goto, TypeOK
<1>2. /\ \A u \in Threads : ~needToExit[u] /\ u \notin notified /\ pc[u] # "exited"
      /\ needToExit' \in [Threads -> BOOLEAN] /\ \A u \in Threads : ~needToExit'[u]
  <2>1. \A u \in Threads : ~needToExit[u] /\ u \notin notified /\ pc[u] # "exited"
    BY <1>1 DEF FlagProgress
  <2> QED
    BY <1>1, <2>1, ClearFlag DEF TypeOK
<1>3. objs # {} /\ \A u \in objs : Complete(u)
  BY <1>1 DEF CallProgress
<1>4. t \in pipe /\ t \in polling /\ listens[t] # {}
  BY <1>1, <1>3 DEF Complete, Managed, CallProgress
<1>5. /\ pc' \in [Threads -> {"off", "top", "poll", "busy", "exited"}]
      /\ pc'[t] \in {pc[t], "top"} /\ \A u \in Threads \ {t} : pc'[u] = pc[u]
  BY <1>1 DEF TypeOK
<1>6. TypeOK'
  BY <1>1, <1>2, <1>5 DEF TypeOK
<1>7. NothingLeft' /\ ResourcesOutliveThread'
  BY <1>1, <1>4, <1>5 DEF NothingLeft, ResourcesOutliveThread
<1>8. FlagProgress' /\ NotifyProgress'
  BY <1>1, <1>2, <1>5 DEF FlagProgress, NotifyProgress
<1>9. MakeProgress' /\ CallProgress'
  BY <1>1 DEF MakeProgress, CallProgress, Making, Deleting, InitSteps, Complete, Managed, Plan
<1> QED
  BY <1>6, <1>7, <1>8, <1>9

(* Every step of the owner and of the threads preserves it. *)
LEMMA NextInv == Inv /\ [Next]_vars => Inv'
<1> SUFFICES ASSUME Inv, [Next]_vars PROVE Inv'
  OBVIOUS
<1>1. CASE UNCHANGED vars
  BY <1>1 DEF vars, threadVars, resVars, configVars, ownerVars, Inv, TypeOK, NothingLeft,
     ResourcesOutliveThread, FlagProgress, NotifyProgress, MakeProgress, CallProgress, Plan, Complete, Managed
<1>2. CASE Next
  BY <1>2, CallInv, RunInv, MakeInv, DeleteInv, StartInv DEF Next, Continue
<1> QED
  BY <1>1, <1>2

(* The invariant holds in every reachable state. *)
THEOREM InvCorrect == Spec => []Inv
  BY InitInv, NextInv, PTL DEF Spec

(* Every variable keeps its type, and no NULL entry is used (Start). *)
THEOREM TypeCorrect == Spec => []TypeOK
<1>1. Inv => TypeOK
  BY DEF Inv
<1> QED
  BY <1>1, InvCorrect, PTL

(* Whatever step of Init fails, a deleted thread leaves nothing (Reset). *)
THEOREM NothingLeftCorrect == Spec => []NothingLeft
<1>1. Inv => NothingLeft
  BY DEF Inv
<1> QED
  BY <1>1, InvCorrect, PTL

(* A thread keeps its sockets, pipe and poll object until joined (Stop). *)
THEOREM ResourcesOutliveThreadCorrect == Spec => []ResourcesOutliveThread
<1>1. Inv => ResourcesOutliveThread
  BY DEF Inv
<1> QED
  BY <1>1, InvCorrect, PTL

(* Initialize listens on each role of the configuration once, or on none.  *)
THEOREM EachRoleOnceCorrect == Spec => []EachRoleOnce
<1>1. Inv => EachRoleOnce
  <2> SUFFICES ASSUME Inv, Idle, objs # {}, NEW r \in Roles
               PROVE  IF r \in config THEN \E t \in objs : {u \in objs : r \in listens[u]} = {t}
                      ELSE \A u \in objs : r \notin listens[u]
    BY DEF EachRoleOnce
  <2>1. objs = Plan /\ \A t \in objs : listens[t] = Managed(t)
    BY DEF Inv, CallProgress, Complete, Idle
  <2>2. CASE multi
    <3>1. objs = config /\ \A t \in objs : listens[t] = {t}
      BY <2>1, <2>2 DEF Plan, Managed
    <3>2. CASE r \in config
      <4>0. \A u \in objs : (r \in listens[u]) = (u = r)
        BY <3>1
      <4>1. {u \in objs : r \in listens[u]} = {r}
        BY <3>1, <3>2, <4>0
      <4> QED
        BY <3>1, <3>2, <4>1
    <3> QED
      BY <3>1, <3>2
  <2>3. CASE ~multi
    <3>1. objs = {0} /\ listens[0] = config
      BY <2>1, <2>3 DEF Plan, Managed
    <3>2. CASE r \in config
      <4>1. {u \in objs : r \in listens[u]} = {0}
        BY <3>1, <3>2
      <4> QED
        BY <3>1, <3>2, <4>1
    <3> QED
      BY <3>1, <3>2
  <2> QED
    BY <2>2, <2>3
<1> QED
  BY <1>1, InvCorrect, PTL

(* Every thread starts with its flag clear and its pipe empty (Start). *)
THEOREM StartsCleanCorrect == Spec => StartsClean
<1>1. Inv /\ [Next]_vars =>
        [\A t \in Threads : (pc[t] = "off" /\ pc'[t] # "off") => ~needToExit'[t] /\ t \notin notified]_vars
  <2> SUFFICES ASSUME Inv, Next, NEW t \in Threads, pc[t] = "off", pc'[t] # "off"
               PROVE  ~needToExit'[t] /\ t \notin notified
    OBVIOUS
  <2>1. StartThread(t)
    BY DEF Next, Call, Continue, Initialize, InitializeAgain, Start, Shutdown, EndLoop, Make,
       CreateListenSockets, CreatePipes, CreatePollingInstance, InitTables, InitFails, UndoInit,
       StartThread, StartFails, DeleteIdle, Flag, Notify, DeleteJoined, Join, Run, LoopExit, Wait,
       PipeEvent, ClientEvent, Served, Leave, Goto, threadVars, Inv, TypeOK
  <2> QED
    BY <2>1 DEF StartThread, Visit, Inv, TypeOK, FlagProgress
<1> QED
  BY <1>1, InvCorrect, PTL DEF Spec, StartsClean

-----------------------------------------------------------------------------
(* The refinement. *)

(* The first state is one of StunListenerLife. *)
LEMMA InitImplements == Init => Life!LifeInit
BY DEF Init, Life!LifeInit, life, stopping, Alive

(* What life and stopping read is unchanged. *)
LEMMA StutterImplements ==
  ASSUME UNCHANGED <<pc, needToExit, listens>>
  PROVE  UNCHANGED Life!lifeVars
BY DEF Life!lifeVars, life, stopping, Alive

(* A thread's own step is its end or a stutter. *)
LEMMA RunImplements ==
  ASSUME Inv, NEW t \in Threads, Run(t) \/ ClientEvent(t)
  PROVE  [Life!LifeNext]_Life!lifeVars
<1> USE DEF Inv
<1>1. /\ UNCHANGED <<needToExit, listens>> /\ pc[t] \notin {"off", "exited"}
      /\ \E where \in {"top", "poll", "busy", "exited"} :
           /\ pc' = [pc EXCEPT ![t] = where]
           /\ where = "exited" => needToExit[t]
  BY DEF Run, LoopExit, Wait, PipeEvent, Served, ClientEvent, Leave, Goto, FlagProgress, resVars
<1>2. PICK where \in {"top", "poll", "busy", "exited"} :
        pc' = [pc EXCEPT ![t] = where] /\ (where = "exited" => needToExit[t])
  BY <1>1
<1>3. pc'[t] = where /\ \A u \in Threads \ {t} : pc'[u] = pc[u]
  BY <1>2 DEF TypeOK
<1>4. stopping' = stopping /\ life[t] = "running"
  BY <1>1 DEF stopping, life, Alive
<1>5. CASE where = "exited"
  <2>1. life' = [life EXCEPT ![t] = "ended"] /\ t \in stopping
    BY <1>1, <1>2, <1>3, <1>5 DEF life, Alive, stopping
  <2> QED
    BY <1>4, <2>1 DEF Life!LifeNext, Life!End
<1>6. CASE where # "exited"
  <2>1. life' = life
    BY <1>1, <1>3, <1>6 DEF life, Alive
  <2> QED
    BY <1>4, <2>1 DEF Life!lifeVars
<1> QED
  BY <1>5, <1>6

(* Init() opens the sockets, or some of them before it fails. *)
LEMMA OpenImplements ==
  ASSUME Inv, NEW t \in Threads, CreateListenSockets(t) \/ InitFails(t)
  PROVE  [Life!LifeNext]_Life!lifeVars
<1> USE DEF Inv
<1>1. /\ call \in InitSteps /\ t = First(todo) /\ UNCHANGED <<pc, needToExit>>
      /\ \/ listens' = listens
         \/ call = "listen" /\ \E opened \in SUBSET Managed(t) : listens' = [listens EXCEPT ![t] = opened]
  BY DEF CreateListenSockets, InitFails, Visit, InitSteps, threadVars
<1>2. CASE listens' = listens
  BY <1>1, <1>2, StutterImplements
<1>3. CASE call = "listen" /\ \E opened \in SUBSET Managed(t) : listens' = [listens EXCEPT ![t] = opened]
  <2>1. PICK opened \in SUBSET Managed(t) : listens' = [listens EXCEPT ![t] = opened]
    BY <1>3
  <2>2. listens[t] = {} /\ pc[t] = "off"
    BY <1>1, <1>3 DEF MakeProgress, Making
  <2>3. listens'[t] = opened /\ \A u \in Threads \ {t} : listens'[u] = listens[u]
    BY <2>1 DEF TypeOK
  <2>4. stopping' = stopping /\ life[t] = "absent"
    BY <1>1, <2>2 DEF stopping, life, Alive
  <2>5. CASE opened = {}
    <3>1. life' = life
      BY <1>1, <2>2, <2>3, <2>5 DEF life, Alive
    <3> QED
      BY <2>4, <3>1 DEF Life!lifeVars
  <2>6. CASE opened # {}
    <3>1. life' = [life EXCEPT ![t] = "ready"]
      BY <1>1, <2>2, <2>3, <2>6 DEF life, Alive
    <3> QED
      BY <2>4, <3>1 DEF Life!LifeNext, Life!Open
  <2> QED
    BY <2>5, <2>6
<1> QED
  BY <1>1, <1>2, <1>3

(* Start begins a thread. *)
LEMMA StartImplements ==
  ASSUME Inv, NEW t \in Threads, StartThread(t) \/ StartFails(t)
  PROVE  [Life!LifeNext]_Life!lifeVars
<1> USE DEF Inv
<1>1. /\ call = "start" /\ t \in todo /\ UNCHANGED listens
      /\ pc' = pc \/ (CanStart(t) /\ pc' = [pc EXCEPT ![t] = "top"])
      /\ needToExit' = needToExit \/ needToExit' = [needToExit EXCEPT ![t] = FALSE]
  BY DEF StartThread, StartFails, Visit, Goto, resVars
<1>2. stopping' = {} /\ stopping = {}
  <2>1. \A u \in Threads : ~needToExit[u]
    BY <1>1 DEF FlagProgress
  <2>2. \A u \in Threads : ~needToExit'[u]
    BY <1>1, <2>1, ClearFlag DEF TypeOK
  <2> QED
    BY <2>1, <2>2 DEF stopping
<1>3. CASE pc' = pc
  BY <1>1, <1>2, <1>3 DEF Life!lifeVars, life, Alive
<1>4. CASE CanStart(t) /\ pc' = [pc EXCEPT ![t] = "top"]
  <2>1. listens[t] # {}
    <3>1. t \in objs
      BY <1>1 DEF TypeOK
    <3>2. Complete(t) /\ config \in Configs
      BY <1>1, <3>1 DEF CallProgress
    <3> QED
      BY <3>2 DEF Complete, Managed
  <2>2. pc'[t] = "top" /\ \A u \in Threads \ {t} : pc'[u] = pc[u]
    BY <1>4 DEF TypeOK
  <2>3. life[t] = "ready" /\ life' = [life EXCEPT ![t] = "running"]
    BY <1>1, <1>4, <2>1, <2>2 DEF life, Alive, CanStart
  <2> QED
    BY <1>2, <2>3 DEF Life!LifeNext, Life!Begin
<1> QED
  BY <1>1, <1>3, <1>4

(* Reset() closes what is open, after the join if there was a thread. *)
LEMMA ResetImplements ==
  ASSUME Inv, NEW t \in Threads, UndoInit(t) \/ DeleteIdle(t) \/ DeleteJoined(t)
  PROVE  [Life!LifeNext]_Life!lifeVars
<1> USE DEF Inv
<1>1. /\ Reset(t) /\ pc[t] \in {"off", "exited"}
      /\ pc'[t] = "off" /\ \A u \in Threads \ {t} : pc'[u] = pc[u]
  BY DEF UndoInit, DeleteIdle, DeleteJoined, Visit, Join, Goto, MakeProgress, Making, TypeOK
<1>2. stopping' = stopping \ {t}
  BY <1>1, ResetFacts DEF stopping
<1>3. life'[t] = "absent" /\ \A u \in Threads \ {t} : life'[u] = life[u]
  BY <1>1, ResetFacts DEF life, Alive
<1>4. life' = [life EXCEPT ![t] = "absent"]
  BY <1>3 DEF life
<1>5. CASE life[t] \in {"ready", "ended"}
  BY <1>2, <1>4, <1>5 DEF Life!LifeNext, Life!Close
<1>6. CASE life[t] \notin {"ready", "ended"}
  <2>1. pc[t] = "off" /\ life[t] = "absent"
    BY <1>1, <1>6 DEF life, Alive
  <2>2. t \notin stopping
    BY <2>1 DEF stopping, FlagProgress, NotifyProgress
  <2>3. life' = life
    BY <1>4, <2>1 DEF life
  <2> QED
    BY <1>2, <2>2, <2>3 DEF Life!lifeVars
<1> QED
  BY <1>5, <1>6

(* Stop of a running thread asks it to end. *)
LEMMA FlagImplements ==
  ASSUME Inv, NEW t \in Threads, Flag(t)
  PROVE  [Life!LifeNext]_Life!lifeVars
<1> USE DEF Inv
<1>1. /\ pc[t] # "off" /\ needToExit' = [needToExit EXCEPT ![t] = TRUE] /\ UNCHANGED <<pc, listens>>
  BY DEF Flag, resVars
<1>2. stopping' = stopping \cup {t}
  BY <1>1 DEF stopping, TypeOK
<1>3. life' = life /\ life[t] \in {"running", "ended"}
  BY <1>1 DEF life, Alive
<1> QED
  BY <1>2, <1>3 DEF Life!LifeNext, Life!Ask

(* Each step of the server is one of StunListenerLife or a stutter. *)
LEMMA NextImplements == Inv /\ [Next]_vars => [Life!LifeNext]_Life!lifeVars
<1> SUFFICES ASSUME Inv, [Next]_vars PROVE [Life!LifeNext]_Life!lifeVars
  OBVIOUS
<1>1. CASE \E t \in Threads : Run(t) \/ ClientEvent(t)
  BY <1>1, RunImplements
<1>2. CASE Call \/ EndLoop("make") \/ EndLoop("start") \/ EndLoop("delete")
  BY <1>2, StutterImplements DEF Call, Initialize, InitializeAgain, Start, Shutdown, EndLoop,
                                 threadVars, resVars
<1>3. CASE \E t \in Threads : \/ Make(t) \/ CreatePipes(t) \/ CreatePollingInstance(t)
                              \/ Notify(t)
  BY <1>3, StutterImplements DEF Make, CreatePipes, CreatePollingInstance, Notify, threadVars,
                                 resVars
<1>4. CASE \E t \in Threads : InitTables(t)
  <2>1. PICK t \in Threads : InitTables(t)
    BY <1>4
  <2>2. \A u \in Threads : ~needToExit[u]
    BY <2>1 DEF InitTables, Visit, Inv, FlagProgress
  <2>3. \A u \in Threads : ~needToExit'[u]
    BY <2>1, <2>2, ClearFlag DEF InitTables, Inv, TypeOK
  <2> QED
    BY <2>1, <2>2, <2>3 DEF InitTables, resVars, Life!lifeVars, life, stopping, Alive
<1>5. CASE \E t \in Threads : CreateListenSockets(t) \/ InitFails(t)
  BY <1>5, OpenImplements
<1>6. CASE \E t \in Threads : StartThread(t) \/ StartFails(t)
  BY <1>6, StartImplements
<1>7. CASE \E t \in Threads : UndoInit(t) \/ DeleteIdle(t) \/ DeleteJoined(t)
  BY <1>7, ResetImplements
<1>8. CASE \E t \in Threads : Flag(t)
  BY <1>8, FlagImplements
<1>9. CASE UNCHANGED vars
  BY <1>9, StutterImplements DEF vars, threadVars, resVars
<1> QED
  BY <1>1, <1>2, <1>3, <1>4, <1>5, <1>6, <1>7, <1>8, <1>9 DEF Next, Continue

(* The TCP server implements StunListenerLife: a thread runs at most once  *)
(* on sockets that are open, ends when told to, and then closes them.      *)
THEOREM ImplementsLifeCorrect == Spec => ImplementsLife
<1> QED
  BY InvCorrect, InitImplements, NextImplements, PTL DEF Spec, ImplementsLife, Life!LifeSpec


-----------------------------------------------------------------------------
(* In the middle of a call. *)

(* No two threads listen on the same socket, even while Initialize or      *)
(* Shutdown is in its loop: each Init takes only what it manages           *)
(* (tsaListen).                                                            *)
ListenersDisjoint ==
  \A t \in Threads, u \in Threads : t # u => listens[t] \cap listens[u] = {}

(* Stop() waits only for a thread that is told and has a byte to wake it:  *)
(* in no state of the wait can the thread sleep on.                        *)
JoinedWakes ==
  call = "join" => /\ First(todo) \in notified /\ needToExit[First(todo)]
                   /\ pc[First(todo)] # "off"

(* The objects are threads of the configuration, on roles they manage. *)
OwnRoles ==
  /\ objs \subseteq Plan
  /\ \A t \in objs : listens[t] \subseteq Managed(t)

MidCall == OwnRoles /\ JoinedWakes

(* Opening sockets, making and resetting objects keep to what is managed. *)
LEMMA NextOwnRoles == Inv /\ OwnRoles /\ [Next]_vars => OwnRoles'
<1> SUFFICES ASSUME Inv, OwnRoles, [Next]_vars PROVE OwnRoles'
  OBVIOUS
<1> USE DEF Inv, threadVars, resVars, configVars, ownerVars
<1>1. ASSUME UNCHANGED <<objs, listens, configVars>> PROVE OwnRoles'
  BY <1>1 DEF OwnRoles, Plan, Managed
<1>2. CASE \E c \in Configs, m \in BOOLEAN : Initialize(c, m)
  <2>1. objs = {} /\ objs' = objs
    BY <1>2 DEF Initialize, Idle, CallProgress, Plan
  <2> QED
    BY <2>1 DEF OwnRoles
<1>3. CASE \/ InitializeAgain \/ Start \/ Shutdown
           \/ EndLoop("make") \/ EndLoop("start") \/ EndLoop("delete") \/ UNCHANGED vars
  BY <1>1, <1>3 DEF InitializeAgain, Start, Shutdown, EndLoop, vars
<1>4. ASSUME NEW t \in Threads,
             \/ CreatePipes(t) \/ CreatePollingInstance(t) \/ InitTables(t)
             \/ StartThread(t) \/ StartFails(t) \/ Flag(t) \/ Notify(t)
             \/ Run(t) \/ ClientEvent(t)
      PROVE  OwnRoles'
  BY <1>1, <1>4 DEF CreatePipes, CreatePollingInstance, InitTables, StartThread, StartFails, Flag,
     Notify, Run, LoopExit, Wait, PipeEvent, Served, ClientEvent, Leave
<1>5. ASSUME NEW t \in Threads, Make(t) PROVE OwnRoles'
  <2>1. /\ objs' = objs \cup {t} /\ UNCHANGED <<listens, configVars>>
        /\ call = "make" /\ t \in todo
    BY <1>5 DEF Make, Visit
  <2>2. t \in Plan /\ listens[t] = {}
    BY <2>1 DEF MakeProgress, Making, NothingLeft
  <2> QED
    BY <2>1, <2>2 DEF OwnRoles, Plan, Managed
<1>6. ASSUME NEW t \in Threads, CreateListenSockets(t) \/ InitFails(t) PROVE OwnRoles'
  <2>1. /\ UNCHANGED <<objs, configVars>>
        /\ listens' = listens
           \/ \E opened \in SUBSET Managed(t) : listens' = [listens EXCEPT ![t] = opened]
    BY <1>6 DEF CreateListenSockets, InitFails
  <2>2. \A u \in Threads : listens'[u] = listens[u] \/ (u = t /\ listens'[u] \subseteq Managed(t))
    BY <2>1 DEF TypeOK
  <2> QED
    BY <2>1, <2>2 DEF OwnRoles, Plan, Managed, TypeOK
<1>7. ASSUME NEW t \in Threads, UndoInit(t) \/ DeleteIdle(t) \/ DeleteJoined(t) PROVE OwnRoles'
  <2>1. Reset(t) /\ objs' \subseteq objs /\ UNCHANGED configVars
    BY <1>7 DEF UndoInit, DeleteIdle, DeleteJoined
  <2>2. \A u \in Threads : listens'[u] \subseteq listens[u]
    BY <2>1, ResetFacts
  <2> QED
    BY <2>1, <2>2 DEF OwnRoles, Plan, Managed, TypeOK
<1> QED
  BY <1>2, <1>3, <1>4, <1>5, <1>6, <1>7 DEF Next, Call, Continue

(* Only the join ends the wait for a thread, and the byte stays until then. *)
LEMMA NextJoinedWakes == Inv /\ JoinedWakes /\ [Next]_vars => JoinedWakes'
<1> SUFFICES ASSUME Inv, JoinedWakes, [Next]_vars, call' = "join"
             PROVE  /\ First(todo') \in notified' /\ needToExit'[First(todo')]
                    /\ pc'[First(todo')] # "off"
  BY DEF JoinedWakes
<1> USE DEF Inv, threadVars, resVars, configVars, ownerVars
<1>1. CASE UNCHANGED vars
  BY <1>1 DEF vars, JoinedWakes
<1>2. CASE \E t \in Threads : Run(t) \/ ClientEvent(t)
  <2>1. PICK t \in Threads : Run(t) \/ ClientEvent(t)
    BY <1>2
  <2>2. /\ UNCHANGED <<needToExit, notified, ownerVars>>
        /\ \E where \in {"top", "poll", "busy", "exited"} : pc' = [pc EXCEPT ![t] = where]
    BY <2>1 DEF Run, LoopExit, Wait, PipeEvent, Served, ClientEvent, Leave, Goto
  <2>3. \A u \in Threads : pc[u] # "off" => pc'[u] # "off"
    BY <2>2 DEF TypeOK
  <2>4. First(todo) \in Threads
    BY <2>2 DEF JoinedWakes, TypeOK
  <2> QED
    BY <2>2, <2>3, <2>4 DEF JoinedWakes
<1>3. CASE \E t \in Threads : Notify(t)
  <2>1. PICK t \in Threads : Notify(t)
    BY <1>3
  <2>2. /\ t = First(todo) /\ call = "notify" /\ notified' = notified \cup {t}
        /\ UNCHANGED <<needToExit, pc, todo>>
    BY <2>1 DEF Notify, NotifyThreadViaPipe, Visit
  <2> QED
    BY <2>2 DEF NotifyProgress
<1> QED
  BY <1>1, <1>2, <1>3 DEF Next, Call, Continue, Initialize, InitializeAgain, Start, Shutdown,
     BeginShutdown, EndLoop, Make, CreateListenSockets, CreatePipes, CreatePollingInstance,
     InitTables, InitFails, UndoInit, StartThread, StartFails, DeleteIdle, Flag, DeleteJoined,
     Visit, Visited, InitSteps

(* MidCall holds in every state. *)
LEMMA MidCallCorrect == Spec => []MidCall
<1>1. Init => MidCall
  BY DEF Init, MidCall, OwnRoles, JoinedWakes
<1>2. Inv /\ MidCall /\ [Next]_vars => MidCall'
  BY NextOwnRoles, NextJoinedWakes DEF MidCall
<1> QED
  BY <1>1, <1>2, InvCorrect, PTL DEF Spec

(* At no step of a call do two threads share a listen socket (tsaListen). *)
THEOREM ListenersDisjointCorrect == Spec => []ListenersDisjoint
<1>1. Inv /\ MidCall => ListenersDisjoint
  <2> SUFFICES ASSUME Inv, OwnRoles, NEW t \in Threads, NEW u \in Threads, t # u
               PROVE  listens[t] \cap listens[u] = {}
    BY DEF ListenersDisjoint, MidCall
  <2>1. CASE t \notin objs \/ u \notin objs
    BY <2>1 DEF Inv, NothingLeft
  <2>2. CASE t \in objs /\ u \in objs
    <3>1. multi
      BY <2>2 DEF OwnRoles, Plan
    <3>2. listens[t] \subseteq {t} /\ listens[u] \subseteq {u}
      BY <2>2, <3>1 DEF OwnRoles, Managed
    <3> QED
      BY <3>2
  <2> QED
    BY <2>1, <2>2
<1> QED
  BY <1>1, InvCorrect, MidCallCorrect, PTL

(* The thread a Stop() waits for is told and can wake (Stop). *)
THEOREM JoinedWakesCorrect == Spec => []JoinedWakes
<1>1. MidCall => JoinedWakes
  BY DEF MidCall
<1> QED
  BY <1>1, MidCallCorrect, PTL


-----------------------------------------------------------------------------
(* What the server and the detailed thread of TcpStunThread agree on.      *)

loopStage ==
  [t \in Threads |->
     IF pc[t] = "off" THEN "absent" ELSE IF pc[t] = "top" THEN "top"
     ELSE IF pc[t] = "poll" THEN "waiting" ELSE IF pc[t] = "busy" THEN "working"
     ELSE "ended"]

Loop == INSTANCE TcpThreadLife
        WITH Threads  <- Threads,
             stage    <- loopStage,
             told     <- stopping,
             notified <- notified

(* The threads of the server turn, and are stopped, as TcpThreadLife says. *)
ImplementsLoop == Loop!LifeSpec

(* What the mapping reads is unchanged. *)
LEMMA StutterLoop ==
  ASSUME UNCHANGED <<pc, needToExit, notified>>
  PROVE  UNCHANGED Loop!lifeVars
BY DEF Loop!lifeVars, loopStage, stopping

(* A thread moves from one place to another. *)
LEMMA MoveLoop ==
  ASSUME TypeOK, NEW t \in Threads, NEW where, Goto(t, where)
  PROVE  loopStage' = [loopStage EXCEPT ![t] =
           IF where = "off" THEN "absent" ELSE IF where = "top" THEN "top"
           ELSE IF where = "poll" THEN "waiting" ELSE IF where = "busy" THEN "working"
           ELSE "ended"]
<1>1. pc'[t] = where /\ \A u \in Threads \ {t} : pc'[u] = pc[u]
  BY DEF Goto, TypeOK
<1> QED
  BY <1>1 DEF loopStage

(* The loop of Run(): a byte in the pipe means that the thread is told. *)
LEMMA RunLoop ==
  ASSUME Inv, NEW t \in Threads, Run(t) \/ ClientEvent(t)
  PROVE  [Loop!LifeNext]_Loop!lifeVars
<1> USE DEF Inv
<1>1. stopping' = stopping /\ notified' = notified
  BY DEF Run, LoopExit, Wait, PipeEvent, Served, ClientEvent, Leave, resVars, stopping
<1>2. CASE /\ Goto(t, "exited") /\ pc[t] \in {"top", "poll"} /\ needToExit[t]
  <2>1. loopStage' = [loopStage EXCEPT ![t] = "ended"]
    BY <1>2, MoveLoop
  <2>2. loopStage[t] \in {"top", "waiting"} /\ t \in stopping
    BY <1>2 DEF loopStage, stopping
  <2>3. Loop!Leave(t)
    BY <1>1, <2>1, <2>2 DEF Loop!Leave, Loop!Goto
  <2> QED
    BY <2>3 DEF Loop!LifeNext
<1>3. CASE Goto(t, "poll") /\ pc[t] = "top" /\ ~needToExit[t]
  <2>1. loopStage' = [loopStage EXCEPT ![t] = "waiting"]
    BY <1>3, MoveLoop
  <2>2. loopStage[t] = "top" /\ t \notin stopping
    BY <1>3 DEF loopStage, stopping
  <2>3. Loop!Wait(t)
    BY <1>1, <2>1, <2>2 DEF Loop!Wait, Loop!Goto
  <2> QED
    BY <2>3 DEF Loop!LifeNext
<1>4. CASE Goto(t, "busy") /\ pc[t] = "poll" /\ ~needToExit[t]
  <2>1. loopStage' = [loopStage EXCEPT ![t] = "working"]
    BY <1>4, MoveLoop
  <2>2. loopStage[t] = "waiting" /\ t \notin stopping
    BY <1>4 DEF loopStage, stopping
  <2>3. Loop!Work(t)
    BY <1>1, <2>1, <2>2 DEF Loop!Work, Loop!Goto
  <2> QED
    BY <2>3 DEF Loop!LifeNext
<1>5. CASE Goto(t, "top") /\ pc[t] = "busy"
  <2>1. loopStage' = [loopStage EXCEPT ![t] = "top"]
    BY <1>5, MoveLoop
  <2>2. loopStage[t] = "working"
    BY <1>5 DEF loopStage
  <2>3. Loop!Turn(t)
    BY <1>1, <2>1, <2>2 DEF Loop!Turn, Loop!Goto
  <2> QED
    BY <2>3 DEF Loop!LifeNext
<1>6. \A u \in Threads : u \in notified => needToExit[u]
  BY DEF FlagProgress
<1> QED
  BY <1>2, <1>3, <1>4, <1>5, <1>6 DEF Run, LoopExit, Wait, PipeEvent, Served, ClientEvent, Leave

(* Start begins a thread that nobody has told. *)
LEMMA StartLoop ==
  ASSUME Inv, NEW t \in Threads, StartThread(t) \/ StartFails(t) \/ InitTables(t)
  PROVE  [Loop!LifeNext]_Loop!lifeVars
<1> USE DEF Inv
<1>1. /\ call \notin {"notify", "join"} /\ UNCHANGED notified
      /\ pc' = pc \/ (pc[t] = "off" /\ Goto(t, "top"))
      /\ needToExit' = needToExit \/ needToExit' = [needToExit EXCEPT ![t] = FALSE]
  BY DEF StartThread, StartFails, InitTables, CanStart, Visit, resVars
<1>2. stopping = {} /\ stopping' = {} /\ t \notin notified
  <2>1. \A u \in Threads : ~needToExit[u] /\ u \notin notified
    BY <1>1 DEF FlagProgress
  <2>2. \A u \in Threads : ~needToExit'[u]
    BY <1>1, <2>1, ClearFlag DEF TypeOK
  <2> QED
    BY <2>1, <2>2 DEF stopping
<1>3. CASE pc' = pc
  BY <1>1, <1>2, <1>3 DEF Loop!lifeVars, loopStage
<1>4. CASE pc[t] = "off" /\ Goto(t, "top")
  <2>1. loopStage' = [loopStage EXCEPT ![t] = "top"]
    BY <1>4, MoveLoop
  <2>2. loopStage[t] = "absent"
    BY <1>4 DEF loopStage
  <2>3. Loop!Begin(t)
    BY <1>1, <1>2, <2>1, <2>2 DEF Loop!Begin, Loop!Goto
  <2> QED
    BY <2>3 DEF Loop!LifeNext
<1> QED
  BY <1>1, <1>3, <1>4

(* Stop: the flag, the byte, the join; a thread that never ran is none. *)
LEMMA StopLoop ==
  ASSUME Inv, JoinedWakes, NEW t \in Threads,
         UndoInit(t) \/ DeleteIdle(t) \/ Flag(t) \/ Notify(t) \/ DeleteJoined(t)
  PROVE  [Loop!LifeNext]_Loop!lifeVars
<1> USE DEF Inv
<1>1. CASE UndoInit(t) \/ DeleteIdle(t)
  <2>1. Reset(t) /\ pc' = pc /\ call \notin {"notify", "join"}
    BY <1>1 DEF UndoInit, DeleteIdle, Visit
  <2>2. ~needToExit[t] /\ t \notin notified
    BY <2>1 DEF FlagProgress
  <2>3. stopping' = stopping
    BY <2>1, <2>2, ResetFacts DEF stopping
  <2>4. notified' = notified
    BY <2>1, <2>2 DEF Reset, ClosePipes
  <2> QED
    BY <2>1, <2>3, <2>4 DEF Loop!lifeVars, loopStage
<1>2. CASE Flag(t)
  <2>1. /\ pc[t] # "off" /\ needToExit' = [needToExit EXCEPT ![t] = TRUE]
        /\ UNCHANGED <<pc, notified>>
    BY <1>2 DEF Flag, resVars
  <2>2. stopping' = stopping \cup {t}
    BY <2>1 DEF stopping, TypeOK
  <2>3. loopStage' = loopStage /\ loopStage[t] # "absent"
    BY <2>1 DEF loopStage
  <2>4. Loop!Tell(t)
    BY <2>1, <2>2, <2>3 DEF Loop!Tell
  <2> QED
    BY <2>4 DEF Loop!LifeNext
<1>3. CASE Notify(t)
  <2>1. /\ call = "notify" /\ t = First(todo) /\ notified' = notified \cup {t}
        /\ UNCHANGED <<pc, needToExit>>
    BY <1>3 DEF Notify, NotifyThreadViaPipe, Visit, threadVars
  <2>2. pc[t] # "off" /\ needToExit[t]
    BY <2>1 DEF NotifyProgress
  <2>3. stopping' = stopping /\ t \in stopping
    BY <2>1, <2>2 DEF stopping
  <2>4. loopStage' = loopStage /\ loopStage[t] # "absent"
    BY <2>1, <2>2 DEF loopStage
  <2>5. Loop!Notify(t)
    BY <2>1, <2>3, <2>4 DEF Loop!Notify
  <2> QED
    BY <2>5 DEF Loop!LifeNext
<1>4. CASE DeleteJoined(t)
  <2>1. /\ call = "join" /\ t = First(todo) /\ Reset(t)
        /\ pc[t] = "exited" /\ Goto(t, "off")
    BY <1>4 DEF DeleteJoined, Visit, Join
  <2>2. needToExit[t] /\ t \in notified
    BY <2>1 DEF JoinedWakes
  <2>3. t \in stopping /\ stopping' = stopping \ {t}
    BY <2>1, <2>2, ResetFacts DEF stopping
  <2>4. notified' = notified \ {t}
    BY <2>1 DEF Reset, ClosePipes
  <2>5. loopStage[t] = "ended" /\ loopStage' = [loopStage EXCEPT ![t] = "absent"]
    BY <2>1, MoveLoop DEF loopStage
  <2>6. Loop!Join(t)
    BY <2>2, <2>3, <2>4, <2>5 DEF Loop!Join
  <2> QED
    BY <2>6 DEF Loop!LifeNext
<1> QED
  BY <1>1, <1>2, <1>3, <1>4

(* Each step of the server is one of TcpThreadLife or a stutter. *)
LEMMA NextLoop == Inv /\ JoinedWakes /\ [Next]_vars => [Loop!LifeNext]_Loop!lifeVars
<1> SUFFICES ASSUME Inv, JoinedWakes, [Next]_vars PROVE [Loop!LifeNext]_Loop!lifeVars
  OBVIOUS
<1>1. CASE \/ Call \/ EndLoop("make") \/ EndLoop("start") \/ EndLoop("delete") \/ UNCHANGED vars
  BY <1>1, StutterLoop DEF Call, Initialize, InitializeAgain, Start, Shutdown, EndLoop, vars,
     threadVars, resVars
<1>2. ASSUME NEW t \in Threads,
             \/ Make(t) \/ CreateListenSockets(t) \/ CreatePipes(t) \/ CreatePollingInstance(t)
             \/ InitFails(t)
      PROVE  [Loop!LifeNext]_Loop!lifeVars
  BY <1>2, StutterLoop DEF Make, CreateListenSockets, CreatePipes, CreatePollingInstance,
     InitFails, threadVars, resVars
<1> QED
  BY <1>1, <1>2, RunLoop, StartLoop, StopLoop DEF Next, Continue

(* The server runs its threads as TcpThreadLife says: what TcpStunThread   *)
(* shows of a thread that obeys the same rules holds of the server's.      *)
THEOREM ImplementsLoopCorrect == Spec => ImplementsLoop
<1>1. Init => Loop!LifeInit
  BY DEF Init, Loop!LifeInit, loopStage, stopping
<1>2. MidCall => JoinedWakes
  BY DEF MidCall
<1> QED
  BY <1>1, <1>2, NextLoop, InvCorrect, MidCallCorrect, PTL DEF Spec, ImplementsLoop, Loop!LifeSpec
=============================================================================
