# A verification project for the STUN server of TestCpp

The repository is a collection of C++ programs. Its largest and only concurrent
one is a STUN server (`STUNsvc/server`): a UDP server with one or four threads,
a TCP server with a poll-driven thread for each listening role, and their
start-up code. Around it are the sample authentication of that server, a Windows
service shell, and a small contact server with three clients. This project
models all of these in TLA+, checks small instances with TLC and proves theorems
about the models, for every value of their constants, with TLAPS. The rest of
the repository is inventoried below.

Contents: [inventory](#1-inventory) - [modules](#2-modules) -
[runs](#3-runs) - [fairness](#4-fairness) - [proofs](#5-proofs) -
[assumptions and abstractions](#6-assumptions-and-abstractions) -
[findings](#7-findings) - [what is not modelled](#8-not-modelled).

## 1. Inventory

Paths are relative to `src/`.

| Component | State it keeps | Operations | Talks to |
|---|---|---|---|
| TCP service thread, `CTCPStunThread` (`STUNsvc/server/tcpserver.cpp`) | two socket-to-connection tables that trade places, `_fListenSocketsOnEpoll`, the poll set, `_timeLastSweep`, the exit flag and pipe | `Init`, `Start`, `Run` (accept, receive, write, close, sweep), `Stop` | clients, the poll object, the pool, the rate limiter, its owner |
| Connection pool, `CConnectionPool` (`stunconnection.cpp`) | a free list threaded through the objects | `GetConnection`, `Grow`, `ReleaseConnection`, `ResetConnection`, `Reset` | the TCP thread |
| TCP server, `CTCPServer` (`tcpserver.cpp`) | one or four threads | `Initialize`, `Start`, `Stop`, `Shutdown` | `main` |
| UDP server, `CStunServer` (`server.cpp`) | four sockets, the thread objects | `Initialize`, `Start`, `Stop`, `Shutdown` | `main`, its threads |
| UDP thread, `CStunSocketThread` (`stunsocketthread.cpp`) | the sockets it reads, the rotation, the exit flag | `Init`, `Start`, `Run`, `SignalForStop`, `WaitForStopAndClose` | clients, the rate limiter |
| Authentication (`sampleauthprovider.cpp`) | none; a nonce carries a time and its HMAC | short-term and long-term checks, `CreateNonce`, `ValidateNonce` | the request handler |
| Start-up (`STUNsvc/server/main.cpp`) | the list of running servers | arguments, configuration file, validation, start in order, stop all | both servers |
| Service control (`STUNsvc/svc.cpp`, `STUNsvc/main.cpp`) | `bRunning`, the reported status; the entry in the manager's database | `ServiceMain`, `ServiceHandler`, `InstallService`, `UninstallService` | the Windows service manager |
| Contact server and clients (`CONTACT`, `client_*`) | an accept loop; a request/retry loop | one request and one answer per connection | each other |
| Exercises (`TestMD5`, `MusicForMCU`, `DNS`, `boostjson`, ...) | none | a computation each | - |

The STUN library the server links with (message reader, request handler,
sockets, poll object, hash table, rate limiter) is not in the repository. It is
modelled from its use and marked external in `PROJECT.json`.

What is hard in this code, and what makes it correct:

* **TCP thread.** One thread, but every call it makes can fail and every
  failure closes connections on the way. The order of events is the clients'
  choice. Two tables trade places at each sweep, so the table an object says it
  is in, the table it is in, and the role of that table are three different
  things. The limit on connections is enforced by taking the listen sockets out
  of the poll set and putting them back. It must lose no object and no
  descriptor, keep the limit, wait for the event each connection needs, close
  every connection in bounded time but not before its time, and stop when told.
* **UDP server.** The owner sets an unsynchronised flag, then sends a datagram
  to wake a thread that is blocked in `select` or `recvfrom`, then joins it.
  Threads share the sockets that Shutdown closes. No thread may sleep through
  its stop, outlive its sockets, or run again afterwards. A busy socket may not
  starve the others of a single-threaded server.
* **TCP server.** Its threads are created, initialised and started one by one,
  each in several steps that can fail. A failed `Initialize` must give back all
  it took; a failed `Start` leaves some threads running, which a later
  `Shutdown` must end. A stopped thread leaves a byte in its pipe.
* **Start-up.** Servers are started one after the other and owned by smart
  pointers that move from the loop's body to a list. What has started must be
  stopped when the next one fails; a signal may come at any point. Options have
  limits and defaults that must fit those of the servers.
* **Connection pool.** A list threaded through the objects it holds: an object
  released twice, a list left half built by a failed `Grow`, or a stale `pNext`
  would hand one object to two clients.
* **Authentication.** The server keeps nothing between a challenge and its
  answer, so all it needs to know must be in the nonce. A client that answers in
  time must be accepted, whatever was lost or repeated on the way.
* **Service control.** The control handler runs on a thread of its own and
  shares the status and `bRunning` with `ServiceMain`, without a lock; each of
  them reports the status when it likes. Stops are accepted from the first
  report on, before the service runs; none may be lost, and none undone.
* **Contact server.** It answers each connection once and keeps the socket open,
  while clients send again until the answer suits them. Both sides must agree on
  whose turn it is; nobody has a timeout.

The full list, with the line at which each hazard bites, is `hazards` in
`PROJECT.json`.

## 2. Modules

| Module | Contents |
|---|---|
| `TcpStunThread` | `CTCPStunThread::Run` with its pool, clients, clock and owner |
| `MCTcpStunThread` | its instances: symmetry, fault sets |
| `MCTcpLive` | `TcpStunThread` with a history variable, `waited`: how long each connection has been waited for; `LifetimeBound` |
| `MCTcpQuiet` | `TcpStunThread` with a history variable: when each connection last had traffic |
| `TcpStunThread_proofs` | five parts: `Structure`, an inductive invariant that holds whatever fails; serving; the use of the pool; the limit on connections and on their lives; `TcpThreadLife` implemented |
| `ConnectionPoolLife` | abstract: what the pool promises its user, and how the TCP thread uses it |
| `ConnectionPool` | `CConnectionPool`, the linked list; refines `ConnectionPoolLife` |
| `ConnectionPool_proofs` | its inductive invariant and the refinement |
| `StunThreadLife` | abstract: what a server promises about its threads and sockets |
| `UdpStunServer` | `CStunServer` and its `CStunSocketThread`s; refines `StunThreadLife` |
| `MCUdpStunServer` | its instances |
| `UdpStunServer_proofs` | its inductive invariant, the refinement, and the end of its threads |
| `StunListenerLife` | abstract: what a server promises about threads that own their sockets |
| `TcpStunServer` | `CTCPServer` and `Init`, `Start`, `Stop`, `Reset` of its `CTCPStunThread`s; refines `StunListenerLife` |
| `MCTcpStunServer` | its instance |
| `TcpThreadLife` | abstract: how a thread's loop turns and is left, which the TCP server and the TCP thread agree on |
| `TcpStunServer_proofs` | its inductive invariant and the two refinements |
| `ServerConfig` | `BuildServerConfigurationFromArgs` as operators: options to configurations |
| `ServerStartup` | `main()`: starts, waits, stops; extends `ServerConfig` |
| `MCServerStartup` | its instances: options at their limits, files, a host with two adapters |
| `ServerStartup_proofs` | its inductive invariant and the lemmas on configurations |
| `StunAuth` | `CShortTermAuth`, `CLongTermAuth`, their nonces, and a client that answers challenges |
| `MCStunAuth` | its instance |
| `StunAuth_proofs` | what finding 4 amounts to for every instance: the long-term provider refuses all |
| `ServiceControl` | `ServiceMain`, `ServiceHandler`, the service manager, `InstallService`, `UninstallService` |
| `MCServiceControl` | its instance |
| `ServiceControl_proofs` | the phases of a process of the service, an inductive invariant; the path of the recorded state |
| `ContactProtocol` | the contact server, the clients 0.1, 0.3 and 0.4, and their connections |
| `MCContactProtocol` | its instance: one client of each version |
| `ContactProtocol_proofs` | its type, who was heard, and whose turn it is |

How they compose: `TcpStunThread` is the inside of the thread that
`TcpStunServer` shows as `poll` or `busy`: both are proved to implement
`TcpThreadLife`, one for each of its threads, one for the thread it is;
`ServerStartup` knows a server only
as a stage (`bound`, `running`, `stopped`, `closed`), and relies on what
`udp_server` and `tcp_server` show: a failed creation leaves nothing, `Stop`
returns and ends every thread, a destructor closes the sockets. `ConnectionPool`
is the inside of the `free` and `heap` of `TcpStunThread`: both are proved to
implement `ConnectionPoolLife`, one as the pool, the other as its user.

`map` in `PROJECT.json` gives the source lines of every definition.

### TcpStunThread

`pc` is the call the thread is in: `top` (loop condition and
`SetListenSocketsOnEpoll`), `poll` (`WaitForNextEvent`), `receive`, `write`,
`close` (the cleanup of a failed call), `sweep`, `cleanup`, `exited`; `cur` is
the connection that call works on. The reads of the two loops that touch the
network, `recv` and `send`, are a step each, so that other actors act between
them. A record holds each pool object's fields. `hash` is the two tables,
`newList` the one `_pNewConnList` points to, `open` the descriptors and
`interest` the event set of each descriptor in the poll object.

Actions are named for what they translate: `Accept(r)` has one disjunct per way
`AcceptConnection` ends, `Receive` and `Write` one per result of `recv` and
`send`. `Sweep` closes the old table one connection at a time
(`CloseAllConnections`), then swaps. `Stop` is the owner's three steps. The environment is
`ClientConnects` and `Tick`.

`Faults` names the calls an instance lets fail: `accept`, `rate` (the limiter
refuses), `memory` (`Grow`), `nonblock`, `pollAdd`, `pollChange`, `listenAdd`
(re-adding a listen socket) and `stale` (an event for a socket no longer known).
`recv` and `send` may always fail.

### ConnectionPool

The list is `freelist` and the function `pNext`, which is defined for objects
that do not exist, too: `Init` lets it be anything. A turn of a loop (`Grow`,
`Reset`) is an action, and memory may run out at any of them. `OnList` is what
the list leads to, as the smallest set closed under `pNext`, so that it needs no
recursion. `ConnectionPoolLife` has the objects that exist and those that are
free; the mapping hides the objects `Grow` has made until `GetConnection`
returns. The fields that serve a connection are set in `TcpStunThread`.

### UdpStunServer

A thread is named by the first role it reads, so one module covers both modes:
`Create` chooses the roles of the configuration and the mode. `pc[t]` is `off`
when there is no thread to join (`_fThreadIsValid`), `exited` when there is one
to join that has returned. `socks[t]` is `_socks`, emptied by
`WaitForStopAndClose`. The owner is in one call at a time; `call` is its step
(`flag`, `post` and `join` are the three loops of `Stop`), `todo` the threads
the loop has yet to visit, and `then` what `Stop` returns to: the owner,
the rest of `Shutdown`, or the rest of `Initialize`. A socket's receive buffer
is a count of datagrams; a full one drops what arrives, the wake-up included.

`StunThreadLife` has a stage per thread (absent, ready, running, ended,
retired), the set told to stop and whether the sockets are open. The mapping is
`life`, `stopping` and `serving` in `UdpStunServer`.

### TcpStunServer

The owner is in one call at a time: `call` is the step that comes next, `todo`
the threads the loop of that call has yet to do. `Initialize` creates a thread
(`Make`) and runs its `Init` in four steps (`listen`, `pipe`, `poll`, `table`),
each of which may fail, some of them half done. The failure resets the thread
(`UndoInit`) and shuts the server down. `Shutdown` deletes each thread: flag,
notify, join, `Reset` if it runs, `Reset` alone if not; the destructors and
`Stop` of the server are the same. `Start` returns at the first thread that
fails and leaves the earlier ones running, as the code does
(`tcpserver.cpp:925`). `main()` never sets `fMultiThreadedMode`, so a
half-failed `Start` is reached by other callers of the class only; `multi` is
both values here.

`StunListenerLife` differs from `StunThreadLife` in that each thread owns its
sockets: it is absent, ready, running or ended.

### ServerConfig and ServerStartup

Options are normalised records over small sets; numbers are themselves, so that
limits and defaults are exact. `BuildServerConfigurationFromArgs` is the
configuration the function returns, as a set that is empty if it fails. An
interface that is left to the host is `BestAdapter`, for a primary or an
alternate address of a family: it does not depend on the other option, so full
mode fails when that names the adapter the host picks. Addresses are pairs of an
adapter and a port, the port cast as in the code.

In `ServerStartup`, `pc` follows `main()`, `cur` is the smart pointer of the
loop's body, `udpServers` and `tcpServers` the lists, `todo` what the current
stop loop has left. `Release` is what the end of the body does to a server that
is on no list, `ReturnFromMain` what the lists' destruction does. Ports in use
decide `Available`. `Signal` is the environment's only step.

### StunAuth

The providers keep no state, so the state is the network's: the requests and the
responses ever sent, sets that only grow, which makes loss, repetition, delay and
reordering the same thing, a request handled late or again. A nonce is a record of
the time it was made, whether it holds a colon, and its HMAC, an injective
function of the text; the texts of `CreateNonce` and `ValidateNonce` are those the
code has at the call, with and without the colon. `Handle` is one call of
`DoAuthCheck`. `handled` records the last call and its result.

### ServiceControl

`pc` has the place of `ServiceMain` and of the handler. `SetServiceStatus` takes
two steps, a copy and its arrival at the service control manager, so that two
reports may arrive in either order. `recorded` and `accepted` are the manager's
view, which decides whether it delivers a control: a stop as soon as the first
report has arrived, which says that stops are accepted (`svc.cpp:43`, 49),
any other once the service is recorded as running. `SERVICE_CONTROL_STOP` and
`SERVICE_CONTROL_SHUTDOWN` do the same and are one action; any other control
only reports. `stops` and `early` are history: the stops of this process, counted
up to two, and whether one came before RUNNING was recorded. An administrator's process installs and uninstalls meanwhile:
`entry` is the database, `handles` what the call in progress holds open.

### ContactProtocol

One connection for each client, since a client makes one. `net` is the
connection as the client finds it: `up`, `fin` (the server's end is gone, no
reset yet), `reset`, or `closed` by the client. `unread` counts the client's
requests in the server's buffer, `inbox` holds the bytes of the answer in the
client's. The answer is three bytes, "OK" and its zero, of which clients 0.3 and
0.4 receive two; with `Splits` TCP may deliver them in pieces. The server never
closes a connection it has answered. `heard` is history: the clients whose
request the server has received.

## 3. Runs

| Run | Instance | Shows |
|---|---|---|
| `tcp_thread` | 3 objects, 3 descriptors, 1 role, limit 2, period 2, every fault but `memory` | `TypeOK`, `TableAgreement`, `Conservation`, `InterestMatchesState`, `ReadyToServe`, `ConnectionLimit`, `CleanExit`, `SweepGrace` |
| `tcp_live` | 2 objects, 2 descriptors, 1 role, limit 1, period 2, faults `rate`, `memory`, `pollChange` | `LifetimeBound`: no connection outlives four periods, less two units, of waiting, however slow the thread; `ListensBelowMax`; `StopCompletes`, `EveryConnectionEnds`, `BacklogServed` |
| `tcp_verify` | 2 objects, 2 roles, limit 1, fault `listenAdd` | violates `RemoveFindsConnection` (finding 2) |
| `tcp_quiet` | 1 object, no faults | violates `ClosesOnlyQuiet` (finding 1) |
| `udp_server` | 3 roles, both modes, every configuration, buffers of 2, every fault | `TypeOK`, `SocketsOutliveThreads`, `AllOrNothing`, `StartsClean`, `ImplementsLife` |
| `udp_live` | 2 roles, both modes, buffers of 1, faults `thread`, `rate` | `CallsReturn`, `DatagramServed` |
| `tcp_server` | `{PP}` and all four roles, both modes, every fault, calls in any order | `TypeOK`, `NothingLeft`, `ResourcesOutliveThread`, `EachRoleOnce`, `StartsClean`, `ImplementsLife`, `CallsReturn` |
| `startup` | 2 adapters, an address in use, options varied in groups at and beyond their limits, files of all pairs of 19 entries and some triples, both faults | `TypeOK`, `ServersHeld`, `WaitsServing`, `ExitStopsAll`, `SocketsDiffer`, `RunsUntilTold`, `EndsWhenTold` |
| `maxconn` | `--maxconn` from 99990 to 100010 | violates `AcceptedMaxConnections` (finding 3) |
| `auth` | 1 user, 1 stranger, nonces valid for 2 of 4 units | violates `ChallengeAnswered` (finding 4) |
| `contact` | a client of each version, answers in one piece, killed at any point | `OkMeansHeard`, `NoVainWait`, `ClientEnds` |
| `service` | both threads, one administrator; controls from the first report on, calls and restarts, without bound | `UndoneOnlyByStart`, `StopEndsStopped`, `UninstallCompletes` |

Why these bounds: the tables, the pool and the limit interact through at most
three connections (one in each table and one in hand), and the limit is reached
with two. With a period of two a connection can be in either table at an age
below, at and above the period. A response of two units can be sent whole or in
parts. Two roles are needed to re-add listen sockets partly. Three roles with
buffers of two let a UDP thread pass over two ready sockets and receive from
one that stays ready. A buffer of one is full after the first datagram, which is
when the wake-up is lost. `AgeCap`, `QueueCap` and the caps of `sweepAge` and
`pollAge` bound counters whose larger values the code does not tell apart, and
`waited` stops one above its limit.

Four roles are all there are, so `tcp_server` is complete up to the
configurations between one role and four. Three entries of a file let the last
fail with servers of both protocols running. The groups of options vary
together what the code tests together (mode with ports, mode with interfaces,
protocol with connections).

`service` is finite but for its count of stops, which ends at two (`StopCap`):
the properties tell no stop, one and more apart. In `contact` a client
makes one connection and at most one of its requests is unanswered, so its state
is finite too; three clients are enough for one to be answered, one to be served
and one to wait, and the proofs hold for any number. `auth` needs two units of
life and four of time for a nonce to be fresh, at its limit and stale.
`ConnectionPool` has no run of its own: its invariants and the refinement are
proved for every number of objects and every growth rate.

`SYMMETRY` is used in safety runs only; objects and descriptors are
interchangeable there. Roles are not, since they are visited in order.

Deadlock is checked except in the runs of `ServerStartup`, which ends when
`main()` returns, of `ContactProtocol`, where the server may be killed and all
clients end, and of `ServiceControl`, where the service may never be started
again. Elsewhere the client, the clock or the owner always has a step, and a
thread that waits with nothing to come is caught by the liveness properties.

## 4. Fairness

*TCP* (`Fairness`). Weak fairness of `Thread`, the steps that need no client:
the scheduler keeps running the thread. Weak fairness of `StopNotify` and
`StopJoin`: an owner that set the flag goes on. Weak fairness of `Tick`: time
passes. Strong fairness of `Accept(r)`: listen sockets are level-triggered
(`tcpserver.cpp:29-32`), so a queued client is reported again at each wait in
which its socket is enabled, and the poll object does not report other sockets
for ever instead. Nothing is assumed of the clients, nor that `Stop()` is called.

*UDP*. Weak fairness of each thread and of the call in progress. That a call is
made, or a datagram arrives, is not assumed. `DatagramServed` therefore rests on
the rotation alone. `udp_live` leaves out the fault `drop`: if the wake-up is
lost to a full buffer and the kernel then finds every datagram of that buffer
corrupt, the thread sleeps through its stop. The hazard list records it.

*TCP server*. Weak fairness of the call in progress and of each thread's steps
that need no client. No call is assumed to be made.

*Start-up*. Weak fairness of `Main`; a signal is not assumed.

*Contact*. Weak fairness of the server's loop and of each connected client, and
of `Reset`: the answer of a host to data for a connection it no longer has
arrives in the end. No client need connect, and nobody need be killed.

*Service*. Weak fairness of `ServiceMain`, of the handler, of `Exit` and of a
call of the administrator that is in progress. Strong fairness of `Remove`: the
manager looks at a marked service whenever a handle to it is closed, not only if
none is ever open again. No control and no call is assumed to be made.

Failures are never required to cease: under `FairSpec` the rate limiter may
refuse every client.

## 5. Proofs

All theorems hold for every number of connections, sockets, roles, for every
limit and period, and for every set of faults unless said otherwise. The named
assumptions on the constants (`ConnsAssumption` ...) are evaluated by TLC in
each run.

**Structure** (`TcpStunThread_proofs`). `Conservation` is not inductive: a step
that closes the connection in hand keeps it only if that connection is in use,
and a sweep only if what an entry leads to has that socket and that id.
`Structure` adds `EntriesLead` (an entry leads to an object in use with that
socket and id), `CallTracked` (the connection in hand) and `OldAges` (what is
in the old table is at least as old as the last sweep). Steps fall into four
kinds, a lemma each: those that leave the tables alone (`SameTables`), a close
(`CloseStructure`), an accept (`AcceptStructure`), and a swap
(`SwapStructure`). It gives `TypeCorrect`, `ConservationCorrect` and
`SweepGraceCorrect`, for every set of faults: *no object or descriptor is lost
or shared whatever fails*.

**Serving** (`TcpStunThread_proofs`), on top of `Structure`: the event each
descriptor is registered for, the reader and the count of bytes of each
connection, and, during a call, what that call has already changed.
`InterestMatchesState` and `ReadyToServe` speak of the time between calls and
are not inductive without it. It gives both, `CleanExitCorrect`, and
`ImplementsPoolCorrect`: the thread takes from the pool and gives back as
`ConnectionPoolLife` allows. All hold for every set of faults.

**Inv** (`ConnectionPool_proofs`). The list is simple (no cycle, no shared tail)
and what it leads to is what exists and was not handed out. Since `OnList` is a
smallest closed set, each push and pop is a lemma about closed sets; no induction
is needed. It gives `NoneLostOrSharedCorrect`, `ListIsSimpleCorrect` and
`ImplementsLifeCorrect`, assuming only that `NULL` is not an object.

**Limit** (`TcpStunThread_proofs`, fourth part), under `NoListenFault`, that re-adding a
listen socket does not fail. `ListenState` ties the flag to the listen sockets in
the poll set and, while the thread waits, to the limit. Then an accept finds
room, `Insert` succeeds, and an id always names the table the connection is in
(`IdsTracked`). It gives `ConnectionLimitCorrect`, `ListensBelowMaxCorrect` and
`TableAgreementCorrect`. The assumption is needed: without it `tcp_verify`
violates the last.

**WaitInv** (`TcpStunThread_proofs`, fourth part), over `MCTcpLive` with its
history variable `waited`, and for every set of faults. A connection is kept for
two stretches: in the new table until a sweep, then in the old one until the
next. `WithinPeriod` bounds a stretch by the time since the last sweep, plus, in
the wait, the time waited so far; `Structure` says which connections are in the
old table. A wait begins before the next sweep is due and counts up to its own
timeout, which `GetTimeoutSeconds` gives it as long as there is a connection; the
sweep follows the wait. So a stretch is shorter than two periods, which gives
`LifetimeBoundCorrect`.

**OwnerInv** (`TcpStunThread_proofs`, fifth part) ties the flag, the pipe and the
thread's place to how far `Stop()` is: a thread leaves its loop only when told.
It gives `ImplementsLoopCorrect`: with the calls of a turn hidden, the thread
begins, waits, works and ends as `TcpThreadLife` allows. The theorem of that name
in `TcpStunServer_proofs` says the same of each thread of the server, so what the
server assumes of a thread it only shows as `poll` or `busy` (that it returns to
its loop or ends, and ends only when told) is what the detailed one does.

**Inv** (`UdpStunServer_proofs`). `ThreadsServe` says what a thread to join
still has; `FlagProgress`, `JoinProgress` and `StartProgress` say how far each
loop of a call has got. It gives `TypeCorrect`,
`SocketsOutliveThreadsCorrect`, `AllOrNothingCorrect`, `StartsCleanCorrect`, and
`ImplementsLifeCorrect`: each step of the server is a step of `StunThreadLife`
or leaves its variables alone.

**WakeInv** (`UdpStunServer_proofs`) is about the wake-up. Stop() sets all flags
before it sends the first datagram, threads do not share sockets
(`SocksDisjoint`), and a thread that takes a datagram after its flag is set ends
without waiting again. So whoever was sent its datagrams is not blocked, even
where they were lost to a full buffer, since what fills it wakes the thread:
`NoSleeperCorrect`, for any number of roles and any size of buffers. It assumes
`NoDrop`, that the kernel does not discard what it queued; with the fault `drop`
TLC violates it (section 4). `WindsDownCorrect` needs no such assumption: after
its flag is set, each step of a thread brings it nearer to its end. The two are
the safety half of the liveness property `CallsReturn`.

**Inv** (`TcpStunServer_proofs`). `MakeProgress` and `CallProgress` say, per
value of `call`, what the thread in hand already has and that those before it
are complete; `FlagProgress` that only a thread being deleted is told to exit.
They are needed because `EachRoleOnce` speaks of the time between calls only.
It gives the five safety properties of the run, and `ImplementsLifeCorrect`.
`MidCall` adds what holds inside the loops: the objects are those of the
configuration, on roles they manage, which gives `ListenersDisjointCorrect`; and
the thread being joined has its flag and its byte, `JoinedWakesCorrect`, which
`ImplementsLoopCorrect` needs for its `Join`.

**Inv** (`ServerStartup_proofs`). `ServersHeld` is not inductive alone: at the
end of the loop's body it depends on whether the server in hand was put on a
list, which `LoopProgress` ties to `pc` and `hr`. `Serving` says that listed
servers run until the stop phase, `Stopping` that one that still runs is in the
current loop or the next. `SocketsDifferCorrect` rests on lemmas about
`ServerConfig`: the two ports are valid and differ, the cast keeps them, the
two adapters of full mode differ; so the addresses of the four roles do, for
every set of adapters and all options. `ListInv` (a server is on one list, where
it is put once it runs) gives `StageOrderCorrect`: nothing is started or stopped
twice. `OnlyMaximumRefusedCorrect` is finding 3 for all values: of the maxima the
validation lets through, `Init` refuses 100000 and accepts the rest.

**HeardInv and TurnInv** (`ContactProtocol_proofs`). `HeardInv`: who has bytes
of an answer, or is about to be answered on a live connection, was heard; it
gives `OkMeansHeardCorrect`, also when TCP delivers the answer in pieces.
`TurnInv`: on a live connection exactly one of three holds, the client has sent
or will send and waits to be served, the server has its request and will answer,
or the answer is there. It needs `~Splits`, as `NoVainWait` does, and gives
`NoVainWaitCorrect` and `AsksOnceCorrect`: on a connection that is up no client
asks twice. `ServerNeverClosesCorrect` holds with split answers too: `AsChar`
never yields 0xAA, so every request is answered, and a connection ends only with
the server or its client.

**PhaseInv** (`ServiceControl_proofs`). A process of the service is starting,
running, between the handler's two assignments, or stopping; each phase says
which reports can be under way. An early stop, one that comes before RUNNING is
recorded, leads to a phase of its own, `EarlyPhase`, which lasts until the
process exits: both threads then write and report the status at once, and the
phase says which combinations of the state, the copies and the record that
allows. Its heart is in `EarlyHandler`: when STOP_PENDING is recorded while the
handler is in a control, or about to be by `ServiceMain`, no copy of RUNNING is
with the handler. So a stop that is recorded is undone by `ServiceMain`'s report
of line 55 and by nothing else: `UndoneOnlyByStartCorrect`. `OneStop` says that
after a single stop the handler cannot write over STOPPED any more, which gives
`StopRecordedCorrect` (a stop does not end at STOP_PENDING, early or not);
`SecondStopNeedsEarlyCorrect` says that there is a second only after an early
one. `StatusPathCorrect` gives every step the record can take: onward, out of
RUNNING only after a stop, and two more that need an early stop.

**RefuseInv** (`StunAuth_proofs`) turns the counterexample of finding 4 into a
theorem about every instance. Every nonce that goes around is empty or was made
by `CreateNonce` (`NonceInv`), and none of these is the realm: so
`LongTermRefusesCorrect`, every answer of the long-term provider is a refusal.
And no nonce in a response is valid (`NoNonceValidCorrect`), whatever its age.
Of the HMAC it uses only that the two texts of one time, with the colon and
without, have different hashes.

Every safety and action property that a passing run checks is now a theorem,
and so are the refinements. The properties stated in proof modules only
(`NoSleeper`, `WindsDown`, `ListenersDisjoint`, `JoinedWakes`, `StageOrder`,
`OnlyMaximumRefused`, `StopRecorded`, `SecondStopNeedsEarly`, `StatusPath`, `AsksOnce`,
`ServerNeverCloses`, `LongTermRefuses`, `NoNonceValid`, and `ImplementsLoop` of
both modules) are no part of a run: the proofs are what shows them.

Model-checked only: liveness under fairness (`StopCompletes`,
`EveryConnectionEnds`, `BacklogServed`, both `CallsReturn`, `DatagramServed`,
`EndsWhenTold`, `ClientEnds`, `StopEndsStopped`, `UninstallCompletes`), which is
out of the prover's reach.

## 6. Assumptions and abstractions

* `time(NULL)` does not go back. Ages are counted from the accept, in units of
  which `SweepTimeout` make 60 seconds.
* The adapter the host picks for an interface that is not named
  (`GetBestAddressForSocketBind`) is one of its adapters, the same each time it
  is asked for the same family and the same one of the two addresses.
* The write to the pipe succeeds. `WaitForNextEvent` returns `S_OK` or `S_FALSE`
  (the code asserts it), and a descriptor is closed with the descriptor's events.
* Adding a descriptor that is already in the poll set fails; removing one does
  not. A table's `Insert` fails only when it is full.
* A message is a stage of the reader (`empty`, `partial`, `validated`, `error`);
  what is parsed and answered is external.
* `_fNeedToExit` is an unsynchronised bool that is read in loops full of opaque
  calls: the read sees the write, at the step at which it is made or later.
* The thread's `Init` has succeeded before the first state of `TcpStunThread`.
* In `TcpStunServer` the write to the pipe succeeds and a thread that is served
  returns to its loop; `TcpStunThread` is about how.
* `BuildServerConfigurationFromArgs` sets `fHasPP` in every configuration, so
  `Configs` holds sets with the role PP. `Initialize`'s `ChkIfA` on a server
  that is initialised is a failure that shuts it down, and is modelled.
* The text of options (`trim`, `tolower`), the syntax of the command line and of
  the configuration file are abstracted to the options they give. A file that
  is empty or not well-formed is a failure (`UsageOrBadFile`). `bind` fails for an address in
  use; two UDP sockets may share one if both servers allow it.
* `new` in `Grow` returns NULL when memory runs out, as the code expects; where
  it throws, the call ends elsewhere. The pool's user gives back only what it
  was handed out: `ImplementsPool` of `TcpStunThread` is that promise.
* The long-term provider is asked once for each request; the server builds the
  response from what it returns and checks the message integrity (external).
  Times are below the 2^31 that `atoi` returns.
* The service control manager does what the Windows documentation of
  `ControlService` says: it delivers a stop to a service it has recorded as
  running, or as starting and accepting stops, other controls to a running one
  only, and none to one that is stopping or stopped. It delivers one at a time,
  and ignores reports once it has recorded STOPPED. `RegisterServiceCtrlHandler` may fail, the reports do not. A service
  marked for deletion is removed when it is stopped and no handle to it is open.
* In `ContactProtocol`, `accept` fails only before the server listens. TCP may
  cut the client's eight bytes as well; the first two, which the server looks
  at, arrive together. `Splits` is FALSE in the run: when the two bytes of "OK"
  arrive one by one, `ret == 2` fails, the client sends again and waits for an
  answer the server, now in `accept`, will not give.
* In UDP mode a failed `recvfrom` and a refusal of the rate limiter both lead
  back to the top of the loop; the limiter's state is external.

## 7. Findings

1. `tcpserver.cpp:422` says the sweep closes "any connection that we haven't
   heard from in a while". `SweepDeadConnections` (754-777) closes by the time
   since the accept, whatever the connection did since. Run `tcp_quiet`.
2. `tcpserver.cpp:728` asserts that the socket of a connection with a table id
   is in that table. After a partial failure to re-add the listen sockets (156)
   the thread accepts at the limit, `Insert` fails with the id already set
   (525-529), and the assertion fails. Run `tcp_verify`.
3. `main.cpp:349` promises 1 to 100000 connections; `CTCPStunThread::Init`
   refuses 100000 (`tcpserver.cpp:245`, `>=`). Run `maxconn`.
4. `sampleauthprovider.cpp:158` says a nonce is validated by its age and its
   HMAC. `DoAuthCheck` (119) passes the nonce to `LookupPassword` as the realm,
   so every answer to a challenge is refused before that. With line 119
   corrected it still is: `CreateNonce` signs `"<time>:"` (169), `ValidateNonce`
   hashes `"<time>"` (202, 214). With both corrected the property holds on the
   instance. Run `auth`.

Observations without a run:

* `main.cpp:498` reports `--altadvertised` without full mode as an error, but
  the `ChkIf` that follows tests `config.fHasAA`, which only full mode sets: the
  options are accepted. `AdvertisedValid` models this.
* After a failed re-add of the listen sockets (`tcpserver.cpp:156`) with no
  connection left, `GetTimeoutSeconds` (351) gives no timeout, so the thread
  waits for ever and does not try again. `BacklogServed` does not hold with the
  fault `listenAdd`, and `tcp_live` leaves it out.
* `ServiceMain` says that stops are accepted in its first report, before the
  service runs (`svc.cpp:43`, 49). If one comes then, the handler reports
  STOP_PENDING (19, 29) and `ServiceMain`, which looks at nothing, writes and
  reports RUNNING over it (52-55): a stop is undone in the record. The loop still
  sees `bRunning`, so the service stops all the same. `UndoneOnlyByStart` has this
  as its one exception.
* Since the service is then recorded as running, a second stop is delivered. The
  handler may write STOP_PENDING (19) between `ServiceMain`'s STOPPED (65) and
  its report (66), which then says STOP_PENDING: nothing reports STOPPED any
  more, and the service is left in STOP_PENDING. `StoppedTwice` excepts this from
  `StopEndsStopped` and `UninstallCompletes`, which both fail without it. No
  comment or test of the repository says otherwise, so neither is a finding.
* `CONTACT.cpp:23` calls 0xBB a flag that tells the server not to answer. The
  server answers it, and must: client 0.3 sends it and waits for "OK" (the
  mutant `BuggyAnswered` shows what happens otherwise). The test for 0xAA (111)
  is never true, since `flag` is a signed char, so no command is ever looked at.

## 8. Not modelled

* *Exercises* (`TestMD5`, `MusicForMCU`, `MusicCodeForMCU`): a computation on
  one input, without state between calls; known results test them. The FFT of
  `TestMD5` is floating point.
* *DNS, JSON, OpenCV, `OpenURL` and the language demonstrations*: straight-line
  calls of libraries that print a result.
* *The contents of STUN messages*, the poll object, the hash table and the rate
  limiter: not in the repository, modelled from their use.
* *`LogEvent`* of the service, which reports and changes nothing.
* *The syntax* of the command line and of the configuration file.

Left to do for a reader with more machine time: a liveness run of the UDP server
with discarded datagrams in which only the lost wake-up is excluded, and larger
instances of `tcp_thread` with two roles.
