---------------------------- MODULE TcpStunThread ----------------------------
(***************************************************************************)
(* CTCPStunThread (STUNsvc/server/tcpserver.cpp): the single thread that   *)
(* serves every TCP connection of a STUN server, with the connection pool  *)
(* it draws from (stunconnection.cpp) and the owner that calls Stop().     *)
(*                                                                         *)
(* The thread is the loop of Run(): enable or disable the listen sockets,  *)
(* wait for an event, serve it, sweep.  pc names the call it is in; cur is *)
(* the connection that call works on.  The network, the clock, the rate    *)
(* limiter and the kernel's error returns are nondeterministic.            *)
(***************************************************************************)
EXTENDS Integers, FiniteSets

CONSTANTS
  Conns,            \* StunConnection objects: all the memory Grow() can find
  Socks,            \* descriptors accept() can return
  Roles,            \* roles with a listen socket, in the order of _socketTable
  MaxConnections,   \* _maxConnections
  GrowRate,         \* c_growrate
  SweepTimeout,     \* c_sweepTimeoutSeconds
  AgeCap,           \* bound: a connection's age is counted up to here
  Sizes,            \* sizes of a response, in units send() may split
  Faults,           \* calls that may fail, a subset of FaultKinds
  NoConn, NoSock    \* NULL and -1

FaultKinds ==
  {"accept", "rate", "memory", "nonblock", "pollAdd", "pollChange", "listenAdd", "stale"}

ASSUME ConnsAssumption == IsFiniteSet(Conns) /\ NoConn \notin Conns
ASSUME SocksAssumption == IsFiniteSet(Socks) /\ NoSock \notin Socks
ASSUME RolesAssumption == Roles \subseteq 0..3 /\ Roles # {}
ASSUME LimitsAssumption ==
  /\ MaxConnections \in Nat \ {0}
  /\ GrowRate \in Nat \ {0}
  /\ SweepTimeout \in Nat \ {0}
  /\ AgeCap \in Nat /\ AgeCap >= SweepTimeout
ASSUME SizesAssumption == Sizes \subseteq Nat \ {0} /\ Sizes # {}
ASSUME FaultsAssumption == Faults \subseteq FaultKinds

VARIABLES
  pc,          \* where the thread is
  cur,         \* pConn of the call in progress
  conn,        \* the fields of every StunConnection object
  age,         \* time since GetConnection stamped _timeStart
  heap,        \* objects Grow() has allocated
  free,        \* objects on _freelist
  hash,        \* _hashConnections1 and _hashConnections2
  newList,     \* the table _pNewConnList points to; _pOldConnList is the other
  open,        \* client descriptors open in the process
  interest,    \* event set of every client descriptor in _spPolling
  listenOn,    \* roles whose listen socket is in _spPolling
  listenFlag,  \* _fListenSocketsOnEpoll
  backlog,     \* roles with a connection waiting to be accepted
  sweepAge,    \* time since _timeLastSweep, counted up to SweepTimeout
  pollAge,     \* time spent in WaitForNextEvent, counted up to SweepTimeout
  needToExit,  \* _fNeedToExit
  pipe,        \* a byte is waiting in _pipe
  owner        \* progress of the thread that calls Stop()

poolVars   == <<heap, free>>
tableVars  == <<hash, newList, open, interest>>
listenVars == <<listenOn, listenFlag>>
timeVars   == <<sweepAge, pollAge, age>>
ownerVars  == <<needToExit, pipe, owner>>
vars == <<pc, cur, conn, poolVars, tableVars, listenVars, timeVars, ownerVars, backlog>>

Tables == {1, 2}
Connection ==
  [sock : Socks \cup {NoSock}, id : Tables \cup {-1},
   state : {"idle", "receiving", "transmitting"},
   reader : {"empty", "partial", "validated", "error"},
   tx : Nat, size : Nat]

(* Faults may happen; without them the call succeeds. *)
MayFail(f) == f \in Faults

-----------------------------------------------------------------------------
(* The hash tables.                                                        *)

oldList == 3 - newList
Entries(i) == {s \in Socks : hash[i][s] # NoConn}
Size(i) == Cardinality(Entries(i))
ConnectionCount == Size(newList) + Size(oldList)

(* Mutant: counts the new table only. *)
BuggyIsConnectionCountAtMax == Size(newList) >= MaxConnections

IsConnectionCountAtMax == ConnectionCount >= MaxConnections

(* ProcessConnectionEvent looks in the new table, then in the old one. *)
Lookup(s) == IF hash[newList][s] # NoConn THEN hash[newList][s] ELSE hash[oldList][s]

(* Objects handed out by the pool, and those a table leads to. *)
InUse == heap \ free
Tracked == {c \in Conns : \E i \in Tables, s \in Socks : hash[i][s] = c}

-----------------------------------------------------------------------------
Init ==
  /\ pc = "top" /\ cur = NoConn
  /\ conn = [c \in Conns |-> [sock |-> NoSock, id |-> -1, state |-> "idle",
                              reader |-> "empty", tx |-> 0, size |-> 0]]
  /\ age = [c \in Conns |-> 0]
  /\ heap = {} /\ free = {}
  /\ hash = [i \in Tables |-> [s \in Socks |-> NoConn]]
  /\ newList = 1
  /\ open = {} /\ interest = [s \in Socks |-> "none"]
  /\ listenOn = Roles /\ listenFlag = TRUE
  /\ backlog = {}
  /\ sweepAge = 0 /\ pollAge = 0
  /\ needToExit = FALSE /\ pipe = FALSE /\ owner = "running"

-----------------------------------------------------------------------------
(* Top of the loop: SetListenSocketsOnEpoll(IsConnectionCountAtMax() == false). *)

(* Mutant: never puts the listen sockets back. *)
BuggySetListenSocketsOnEpoll(enable) ==
  enable # listenFlag /\ listenOn' = {} /\ listenFlag' = enable

SetListenSocketsOnEpoll(enable) ==
  /\ enable # listenFlag
  /\ listenOn' = IF enable THEN Roles ELSE {}
  /\ enable => listenOn = {}
  /\ listenFlag' = enable

(* Add fails for role r: the loop stops there and leaves the flag as it was. *)
(* A descriptor that is already registered cannot be added again.          *)
SetListenSocketsFails(r) ==
  /\ ~listenFlag
  /\ r \in listenOn \/ MayFail("listenAdd")
  /\ \A q \in Roles : q < r => q \notin listenOn
  /\ listenOn' = listenOn \cup {q \in Roles : q < r}
  /\ UNCHANGED listenFlag

LoopTop ==
  /\ pc = "top" /\ ~needToExit
  /\ \/ SetListenSocketsOnEpoll(~IsConnectionCountAtMax)
     \/ (IsConnectionCountAtMax = ~listenFlag) /\ UNCHANGED listenVars
     \/ ~IsConnectionCountAtMax /\ \E r \in Roles : SetListenSocketsFails(r)
  /\ pc' = "poll" /\ pollAge' = 0
  /\ UNCHANGED <<cur, conn, poolVars, tableVars, sweepAge, age, ownerVars, backlog>>

LoopExit ==
  /\ pc = "top" /\ needToExit
  /\ pc' = "cleanup"
  /\ UNCHANGED <<cur, conn, poolVars, tableVars, listenVars, timeVars, ownerVars, backlog>>

(* Mutant: GetTimeoutSeconds() counts the new table only. *)
BuggyPollTimedOut == Size(newList) > 0 /\ pollAge >= SweepTimeout

(* WaitForNextEvent returned S_FALSE: no event for 60 seconds.  With no    *)
(* connection GetTimeoutSeconds() is -1 and the wait has no end.           *)
PollTimedOut == ConnectionCount > 0 /\ pollAge >= SweepTimeout

PollTimeout ==
  /\ pc = "poll" /\ ~needToExit /\ PollTimedOut
  /\ pc' = "sweep"
  /\ UNCHANGED <<cur, conn, poolVars, tableVars, listenVars, timeVars, ownerVars, backlog>>

(* An event for s; a stale one may name a socket that is no longer known. *)
Event(s) == interest[s] # "none" \/ MayFail("stale")

(* Mutant: the pipe is not in the poll set. *)
BuggyPipeReady == FALSE
PipeReady == pipe

(* The wait ends and the thread sees _fNeedToExit or the pipe's descriptor. *)
PollExit ==
  /\ pc = "poll"
  /\ \/ PipeReady
     \/ needToExit /\ \/ PollTimedOut
                      \/ listenOn \cap backlog # {}
                      \/ \E s \in Socks : Event(s)
  /\ pc' = "cleanup"
  /\ UNCHANGED <<cur, conn, poolVars, tableVars, listenVars, timeVars, ownerVars, backlog>>

-----------------------------------------------------------------------------
(* The connection pool.                                                    *)

(* What Grow() may add to an empty free list: GrowRate objects, fewer when *)
(* memory runs out on the way.                                             *)
Growth ==
  IF free # {} THEN {{}}
  ELSE {g \in SUBSET (Conns \ heap) :
          \/ Cardinality(g) = GrowRate
          \/ Cardinality(g) < GrowRate /\ (MayFail("memory") \/ g = Conns \ heap)}

(* Mutant: _txCount keeps the value the object's last user left. *)
BuggyFreshConnection(c, s, i) ==
  [conn[c] EXCEPT !.sock = s, !.id = i, !.state = "receiving", !.reader = "empty"]

(* GetConnection prepares the object for its new socket; AcceptConnection sets the id. *)
FreshConnection(c, s, i) ==
  [conn[c] EXCEPT !.sock = s, !.id = i, !.state = "receiving", !.reader = "empty", !.tx = 0]

ResetConnection(k) == [k EXCEPT !.state = "receiving", !.reader = "empty", !.tx = 0]

-----------------------------------------------------------------------------
(* AcceptConnection for the listen socket of role r.                       *)

Accepting(r) == pc = "poll" /\ ~needToExit /\ r \in listenOn \cap backlog

(* accept() fails; the client may or may not still be queued. *)
AcceptFails(r) ==
  /\ Accepting(r) /\ (MayFail("accept") \/ open = Socks)
  /\ backlog' \in {backlog, backlog \ {r}}
  /\ pc' = "sweep"
  /\ UNCHANGED <<cur, conn, poolVars, tableVars, listenVars, timeVars, ownerVars>>

(* Mutant: the refused socket is not closed. *)
BuggyCloseRefused == \E s \in Socks \ open : open' = open \cup {s}
CloseRefused == open # Socks /\ UNCHANGED open

(* The rate limiter refuses the address, or the pool has no object to give: *)
(* the socket just accepted is closed.                                     *)
AcceptRefused(r) ==
  /\ Accepting(r)
  /\ MayFail("rate") \/ (free = {} /\ {} \in Growth)
  /\ CloseRefused
  /\ backlog' = backlog \ {r}
  /\ pc' = "sweep"
  /\ UNCHANGED <<cur, conn, poolVars, hash, newList, interest, listenVars, timeVars, ownerVars>>

(* An object c for the accepted descriptor s, with hash table id i. *)
TakeConnection(r, c, s, i) ==
  /\ Accepting(r)
  /\ s \notin open
  /\ \E g \in Growth : /\ c \in free \cup g
                       /\ heap' = heap \cup g
                       /\ free' = (free \cup g) \ {c}
  /\ open' = open \cup {s}
  /\ conn' = [conn EXCEPT ![c] = FreshConnection(c, s, i)]
  /\ age' = [age EXCEPT ![c] = 0]
  /\ cur' = c
  /\ backlog' = backlog \ {r}
  /\ UNCHANGED <<newList, listenVars, sweepAge, pollAge, ownerVars>>

(* SetNonBlocking or _spPolling->Add fails: nothing registered, id still -1. *)
AcceptSetupFails(r, c, s) ==
  /\ MayFail("nonblock") \/ MayFail("pollAdd")
  /\ TakeConnection(r, c, s, -1)
  /\ pc' = "close"
  /\ UNCHANGED <<hash, interest>>

(* Insert fails when the table already holds _maxConnections entries. *)
AcceptConnection(r, c, s) ==
  /\ TakeConnection(r, c, s, newList)
  /\ interest' = [interest EXCEPT ![s] = "read"]
  /\ IF Size(newList) < MaxConnections
       THEN /\ hash' = [hash EXCEPT ![newList][s] = c]
            /\ pc' = "receive"
       ELSE /\ UNCHANGED hash
            /\ pc' = "close"

-----------------------------------------------------------------------------
(* ProcessConnectionEvent: serve the connection according to its state.    *)

Handler == [receiving |-> "receive", transmitting |-> "write"]

Served(c) == c # NoConn /\ conn[c].state # "idle"

Dispatch(s) ==
  /\ pc = "poll" /\ ~needToExit /\ Event(s)
  /\ Served(Lookup(s))
  /\ cur' = Lookup(s)
  /\ pc' = Handler[conn[Lookup(s)].state]
  /\ UNCHANGED <<conn, poolVars, tableVars, listenVars, timeVars, ownerVars, backlog>>

DispatchUnknown(s) ==
  /\ pc = "poll" /\ ~needToExit /\ Event(s)
  /\ ~Served(Lookup(s))
  /\ pc' = "sweep"
  /\ UNCHANGED <<cur, conn, poolVars, tableVars, listenVars, timeVars, ownerVars, backlog>>

(* Mutant: pConn is still set after the call. *)
BuggyReturn == pc' = "sweep" /\ UNCHANGED cur

(* The call on cur ends well, or fails and must close the connection. *)
Return == pc' = "sweep" /\ cur' = NoConn
Fail   == pc' = "close" /\ UNCHANGED cur

Update(k) == conn' = [conn EXCEPT ![cur] = k]

(* Mutant: ChangeEventSet is not called. *)
BuggySetInterest(e) == UNCHANGED interest

SetInterest(e) == interest' = [interest EXCEPT ![conn[cur].sock] = e]

(* ReceiveBytesForConnection: one turn of its loop. *)
Receiving == pc = "receive"

RecvWouldBlock ==
  /\ Receiving
  /\ Return
  /\ UNCHANGED <<conn, poolVars, tableVars, listenVars, timeVars, ownerVars, backlog>>

(* recv returns 0 or an error. *)
RecvFails ==
  /\ Receiving
  /\ Fail
  /\ UNCHANGED <<conn, poolVars, tableVars, listenVars, timeVars, ownerVars, backlog>>

(* AddBytes: the message is still incomplete, or it cannot be one. *)
RecvBytes(reader) ==
  /\ Receiving
  /\ Update([conn[cur] EXCEPT !.reader = reader])
  /\ IF reader = "error" THEN Fail ELSE UNCHANGED <<pc, cur>>
  /\ UNCHANGED <<poolVars, tableVars, listenVars, timeVars, ownerVars, backlog>>

(* A whole message, refused by the rate limiter or by ProcessRequest. *)
RequestRefused ==
  /\ Receiving
  /\ Update([conn[cur] EXCEPT !.reader = "validated"])
  /\ Fail
  /\ UNCHANGED <<poolVars, tableVars, listenVars, timeVars, ownerVars, backlog>>

(* A whole message and its response of n units: wait for write events, and *)
(* try to send at once.                                                    *)
RequestServed(n) ==
  /\ Receiving
  /\ Update([conn[cur] EXCEPT !.reader = "validated", !.state = "transmitting", !.size = n])
  /\ \/ SetInterest("write") /\ pc' = "write" /\ UNCHANGED cur
     \/ MayFail("pollChange") /\ UNCHANGED interest /\ Fail
  /\ UNCHANGED <<poolVars, hash, newList, open, listenVars, timeVars, ownerVars, backlog>>

-----------------------------------------------------------------------------
(* WriteBytesForConnection: one turn of its loop.                          *)
Transmitting == pc = "write"

SendWouldBlock ==
  /\ Transmitting
  /\ Return
  /\ UNCHANGED <<conn, poolVars, tableVars, listenVars, timeVars, ownerVars, backlog>>

SendFails ==
  /\ Transmitting
  /\ Fail
  /\ UNCHANGED <<conn, poolVars, tableVars, listenVars, timeVars, ownerVars, backlog>>

(* send takes some of the remaining bytes, not all. *)
SendPart ==
  /\ Transmitting
  /\ \E n \in 1 .. conn[cur].size - conn[cur].tx - 1 :
       Update([conn[cur] EXCEPT !.tx = @ + n])
  /\ UNCHANGED <<pc, cur, poolVars, tableVars, listenVars, timeVars, ownerVars, backlog>>

(* The last bytes: the connection is ready for another request. *)
SendLast ==
  /\ Transmitting
  /\ Update(ResetConnection(conn[cur]))
  /\ \/ SetInterest("read") /\ Return
     \/ MayFail("pollChange") /\ UNCHANGED interest /\ Fail
  /\ UNCHANGED <<poolVars, hash, newList, open, listenVars, timeVars, ownerVars, backlog>>

-----------------------------------------------------------------------------
(* Out of the table the connection's id names.  Mutant: out of the new one. *)
BuggyRemoveEntry(c) == hash' = [hash EXCEPT ![newList][conn[c].sock] = NoConn]
RemoveEntry(c) ==
  hash' = IF conn[c].id \in Tables THEN [hash EXCEPT ![conn[c].id][conn[c].sock] = NoConn]
          ELSE hash

(* CloseConnection: out of the poll set, the descriptor and the table, and *)
(* back to the pool.  An age is counted only while in use.                 *)
CloseConnection(c) ==
  /\ interest' = [interest EXCEPT ![conn[c].sock] = "none"]
  /\ open' = open \ {conn[c].sock}
  /\ conn' = [conn EXCEPT ![c].sock = NoSock]
  /\ RemoveEntry(c)
  /\ free' = free \cup {c}
  /\ age' = [age EXCEPT ![c] = 0]
  /\ UNCHANGED <<heap, newList, listenVars, ownerVars, backlog>>

(* The failed call closes the connection it worked on. *)
Close ==
  /\ pc = "close"
  /\ CloseConnection(cur)
  /\ Return
  /\ UNCHANGED <<sweepAge, pollAge>>

(* SweepDeadConnections. *)
SweepDue == sweepAge >= SweepTimeout

SweepNotDue ==
  /\ pc = "sweep" /\ ~SweepDue
  /\ pc' = "top"
  /\ UNCHANGED <<cur, conn, poolVars, tableVars, listenVars, timeVars, ownerVars, backlog>>

SweepClose(c) ==
  /\ pc = "sweep" /\ SweepDue
  /\ \E s \in Socks : hash[oldList][s] = c
  /\ CloseConnection(c)
  /\ UNCHANGED <<pc, cur, sweepAge, pollAge>>

(* Mutants: the tables do not trade places; _timeLastSweep is not stamped. *)
BuggySwapTables == UNCHANGED newList
SwapTables == newList' = oldList
BuggyStampSweep == UNCHANGED sweepAge
StampSweep == sweepAge' = 0

SweepSwap ==
  /\ pc = "sweep" /\ SweepDue
  /\ Size(oldList) = 0
  /\ SwapTables /\ StampSweep
  /\ pc' = "top"
  /\ UNCHANGED <<cur, conn, poolVars, hash, open, interest, listenVars, pollAge, age,
                 ownerVars, backlog>>

(* ThreadCleanup: the old table, then the new one; then the thread ends. *)
CleanupClose(c) ==
  /\ pc = "cleanup"
  /\ \/ \E s \in Socks : hash[oldList][s] = c
     \/ Size(oldList) = 0 /\ \E s \in Socks : hash[newList][s] = c
  /\ CloseConnection(c)
  /\ UNCHANGED <<pc, cur, sweepAge, pollAge>>

(* Mutant: the new table is not emptied. *)
BuggyAllClosed == Size(oldList) = 0
AllClosed == ConnectionCount = 0

ThreadExit ==
  /\ pc = "cleanup" /\ AllClosed
  /\ pc' = "exited"
  /\ UNCHANGED <<cur, conn, poolVars, tableVars, listenVars, timeVars, ownerVars, backlog>>

-----------------------------------------------------------------------------
(* The environment: clients, the clock and the owner.                      *)

ClientConnects(r) ==
  /\ r \notin backlog
  /\ backlog' = backlog \cup {r}
  /\ UNCHANGED <<pc, cur, conn, poolVars, tableVars, listenVars, timeVars, ownerVars>>

Older(a, cap) == IF a < cap THEN a + 1 ELSE a

(* One unit of time passes. *)
Tick ==
  /\ sweepAge' = Older(sweepAge, SweepTimeout)
  /\ pollAge' = IF pc = "poll" THEN Older(pollAge, SweepTimeout) ELSE pollAge
  /\ age' = [c \in Conns |-> IF c \in InUse THEN Older(age[c], AgeCap) ELSE age[c]]
  /\ UNCHANGED <<pc, cur, conn, poolVars, tableVars, listenVars, ownerVars, backlog>>

(* Stop(): set the flag, write to the pipe, join the thread. *)
StopFlag ==
  /\ owner = "running"
  /\ needToExit' = TRUE /\ owner' = "flagged"
  /\ UNCHANGED <<pc, cur, conn, poolVars, tableVars, listenVars, timeVars, pipe, backlog>>

StopNotify ==
  /\ owner = "flagged"
  /\ pipe' = TRUE /\ owner' = "joining"
  /\ UNCHANGED <<pc, cur, conn, poolVars, tableVars, listenVars, timeVars, needToExit, backlog>>

StopJoin ==
  /\ owner = "joining" /\ pc = "exited"
  /\ owner' = "joined"
  /\ UNCHANGED <<pc, cur, conn, poolVars, tableVars, listenVars, timeVars, needToExit, pipe,
                 backlog>>

-----------------------------------------------------------------------------
Accept(r) ==
  \/ AcceptFails(r)
  \/ AcceptRefused(r)
  \/ \E c \in Conns, s \in Socks : AcceptSetupFails(r, c, s) \/ AcceptConnection(r, c, s)

Receive ==
  \/ RecvWouldBlock
  \/ RecvFails
  \/ \E reader \in {"partial", "error"} : RecvBytes(reader)
  \/ RequestRefused
  \/ \E n \in Sizes : RequestServed(n)

Write ==
  \/ SendWouldBlock
  \/ SendFails
  \/ SendPart
  \/ SendLast

Sweep == SweepNotDue \/ SweepSwap \/ \E c \in Conns : SweepClose(c)

Cleanup == ThreadExit \/ \E c \in Conns : CleanupClose(c)

(* What the thread does whatever the clients do. *)
Thread ==
  \/ LoopTop \/ LoopExit \/ PollTimeout \/ (PollExit /\ PipeReady)
  \/ Receive \/ Write \/ Close \/ Sweep \/ Cleanup

Stop == StopFlag \/ StopNotify \/ StopJoin

Step ==
  \/ Thread
  \/ \E s \in Socks : Dispatch(s) \/ DispatchUnknown(s)
  \/ PollExit
  \/ \E r \in Roles : Accept(r) \/ ClientConnects(r)
  \/ Stop

Next == Step \/ Tick

Spec == Init /\ [][Next]_vars

(* The thread and the owner keep running and time passes.  A connection in *)
(* the backlog of an enabled listen socket is not passed over forever.     *)
(* Stop() itself need not be called, and no client need do anything.       *)
Fairness ==
  /\ WF_vars(Thread)
  /\ WF_vars(StopNotify) /\ WF_vars(StopJoin)
  /\ WF_vars(Tick)
  /\ \A r \in Roles : SF_vars(Accept(r))

FairSpec == Spec /\ Fairness

-----------------------------------------------------------------------------
(* Properties.                                                             *)

(* Every field keeps its type; a call in progress has a connection that is *)
(* in use (Run, AcceptConnection, ReceiveBytesForConnection).              *)
TypeOK ==
  /\ pc \in {"top", "poll", "receive", "write", "close", "sweep", "cleanup", "exited"}
  /\ cur \in Conns \cup {NoConn}
  /\ conn \in [Conns -> Connection]
  /\ age \in [Conns -> 0 .. AgeCap]
  /\ heap \subseteq Conns /\ free \subseteq heap
  /\ hash \in [Tables -> [Socks -> Conns \cup {NoConn}]]
  /\ newList \in Tables
  /\ open \subseteq Socks
  /\ interest \in [Socks -> {"none", "read", "write"}]
  /\ listenOn \subseteq Roles /\ listenFlag \in BOOLEAN
  /\ backlog \subseteq Roles
  /\ sweepAge \in 0 .. SweepTimeout /\ pollAge \in 0 .. SweepTimeout
  /\ needToExit \in BOOLEAN /\ pipe \in BOOLEAN
  /\ owner \in {"running", "flagged", "joining", "joined"}
  /\ pc \in {"receive", "write", "close"} <=> cur # NoConn

(* The tables and the connections agree.  An entry leads to a connection   *)
(* in use that has that socket and that _idHashTable; a connection with an *)
(* id is in that table, so the VERIFY of CloseConnection holds and         *)
(* CloseAllConnections ends.                                               *)
TableAgreement ==
  /\ \A i \in Tables, s \in Socks : hash[i][s] # NoConn =>
       /\ hash[i][s] \in InUse
       /\ conn[hash[i][s]].sock = s
       /\ conn[hash[i][s]].id = i
  /\ \A c \in InUse : conn[c].id \in Tables => hash[conn[c].id][conn[c].sock] = c

(* VERIFY(_hashConnections1.Remove(sock) != -1) in CloseConnection: the    *)
(* table that a connection's id names holds its socket.                    *)
RemoveFindsConnection ==
  pc = "close" /\ conn[cur].id \in Tables => hash[conn[cur].id][conn[cur].sock] # NoConn

(* No object and no descriptor is lost or shared: an object out of the     *)
(* free list is tracked by a table or is the one being worked on, it holds *)
(* a descriptor of its own, and every open descriptor is held.             *)
Conservation ==
  /\ InUse = Tracked \cup ({cur} \ {NoConn})
  /\ \A c \in Conns \ InUse : conn[c].sock = NoSock
  /\ \A c \in InUse : conn[c].sock \in open
  /\ \A s \in open : \E c \in InUse : conn[c].sock = s
  /\ \A c, d \in InUse : conn[c].sock = conn[d].sock => c = d

(* The thread waits for what a connection's state needs: a receiving one   *)
(* for read events, a transmitting one for write events, a closed          *)
(* descriptor for none.  Otherwise the connection would never be served.   *)
InterestMatchesState ==
  /\ \A c \in Tracked \ {cur} :
       interest[conn[c].sock] = IF conn[c].state = "receiving" THEN "read" ELSE "write"
  /\ \A s \in Socks \ open : interest[s] = "none"

(* The assertions of ReceiveBytesForConnection and WriteBytesForConnection *)
(* hold however an object was used before: a receiving connection starts   *)
(* from an unfinished message and an unsent response, a transmitting one   *)
(* has bytes left to send.                                                 *)
ReadyToServe ==
  /\ \A c \in Tracked : ~(pc = "close" /\ c = cur) =>
       \/ /\ conn[c].state = "receiving"
          /\ conn[c].reader \in {"empty", "partial"}
          /\ conn[c].tx = 0
       \/ /\ conn[c].state = "transmitting"
          /\ conn[c].reader = "validated"
          /\ conn[c].tx < conn[c].size
  /\ pc = "receive" => conn[cur].state = "receiving"
  /\ pc = "write" => conn[cur].state = "transmitting"

(* While it waits, the thread listens on every role below the limit and on *)
(* none at the limit (the comment above SetListenSocketsOnEpoll in Run).   *)
ListensBelowMax ==
  pc = "poll" => listenOn = IF ConnectionCount < MaxConnections THEN Roles ELSE {}

(* The thread never tracks more connections than _maxConnections. *)
ConnectionLimit == ConnectionCount <= MaxConnections

(* A sweep closes no connection accepted less than the timeout before it:  *)
(* one survives in the old table until a whole period has passed.          *)
SweepGrace == [][\A c \in Conns : SweepClose(c) => age[c] >= SweepTimeout]_vars

(* When the thread ends every connection is back in the pool, every        *)
(* descriptor closed and the tables empty, as Reset() asserts.             *)
CleanExit ==
  pc = "exited" => /\ Tracked = {} /\ free = heap
                   /\ open = {} /\ \A s \in Socks : interest[s] = "none"

(* The pool as the thread uses it: no object is handed out while it is in  *)
(* use, and each is given back once (see ConnectionPool).                  *)
Pool == INSTANCE ConnectionPoolLife WITH Conns <- Conns, heap <- heap, free <- free

ImplementsPool == Pool!Spec

(* A Stop() that has begun returns. *)
StopCompletes == needToExit ~> owner = "joined"

(* No connection lives forever, whatever its client does. *)
EveryConnectionEnds == \A c \in Conns : c \in InUse ~> c \notin InUse

(* A client waiting on a listen socket is accepted or turned away, even    *)
(* when the limit had the listen sockets disabled, unless the server stops. *)
BacklogServed == \A r \in Roles : r \in backlog ~> (r \notin backlog \/ needToExit)
=============================================================================
