--------------------------- MODULE ContactProtocol ---------------------------
(***************************************************************************)
(* The contact server (CONTACT/CONTACT.cpp) and its clients (client_0.1,   *)
(* client_0.3, client_0.4), each a process with one TCP connection.        *)
(*                                                                         *)
(* The server accepts a client, receives once, sends "OK" and goes back to *)
(* accept without closing the socket.  Clients 0.3 and 0.4 send and        *)
(* receive until they get "OK"; client 0.1 receives until its connection   *)
(* is closed.  TCP is a stream: a receive may return a part of what was    *)
(* sent.  Clients and the server may be killed at any point.               *)
(***************************************************************************)
EXTENDS Integers, Sequences

CONSTANTS
  Clients,  \* client processes
  Version,  \* the program each one runs: "0.1", "0.3" or "0.4"
  Splits    \* whether TCP may deliver the answer in pieces

ASSUME VersionAssumption == Version \in [Clients -> {"0.1", "0.3", "0.4"}]
ASSUME SplitsAssumption == Splits \in BOOLEAN

VARIABLES
  spc,      \* where the server is: "start", "accept", "recv", "reply" or "down"
  serving,  \* RemoteClient1: the clients accept() returned last, none or one
  message,  \* szMessage[0] and szMessage[1]
  backlog,  \* connections waiting for accept()
  pc,       \* where each client is
  net,      \* each connection as its client finds it
  unread,   \* requests of each client in the server's receive buffer
  inbox,    \* bytes of the answer in each client's receive buffer
  heard     \* history: clients from which the server received a request

serverVars == <<spc, serving, message>>
vars == <<serverVars, backlog, pc, net, unread, inbox, heard>>

(* FLAG_ASK, FLAG_NAK, and the first bytes of every program's message. *)
FLAG_ASK == 170
FLAG_NAK == 187
Request(c) ==
  CASE Version[c] = "0.1" -> <<67, 108>>
    [] Version[c] = "0.3" -> <<FLAG_NAK, 1>>
    [] Version[c] = "0.4" -> <<FLAG_ASK, 1>>
NoRequest == <<0, 0>>

Retries(c) == Version[c] # "0.1"
Ended(c) == pc[c] \in {"done", "failed"}
OK == <<"O", "K">>
Answer == <<"O", "K", "NUL">>

Init ==
  /\ spc = "start" /\ serving = {} /\ message = NoRequest
  /\ backlog = <<>>
  /\ pc = [c \in Clients |-> "start"]
  /\ net = [c \in Clients |-> "none"]
  /\ unread = [c \in Clients |-> 0]
  /\ inbox = [c \in Clients |-> <<>>]
  /\ heard = {}

-----------------------------------------------------------------------------
(* The server.                                                             *)

Queued == {backlog[i] : i \in 1 .. Len(backlog)}
Listening == spc \in {"accept", "recv", "reply"}

(* Socket, bind and the database may fail and end it.  (When listen() fails *)
(* it goes on; the loop then spins and no client can connect.)             *)
Startup ==
  /\ spc = "start"
  /\ spc' \in {"accept", "down"}
  /\ UNCHANGED <<serving, message, backlog, pc, net, unread, inbox, heard>>

Accept ==
  /\ spc = "accept" /\ backlog # <<>>
  /\ serving' = {Head(backlog)}
  /\ backlog' = Tail(backlog)
  /\ spc' = "recv"
  /\ UNCHANGED <<message, pc, net, unread, inbox, heard>>

(* Mutant: the socket does not block, so nothing may have come yet. *)
BuggyReceived(c) == IF unread[c] > 0 THEN {Request(c)} ELSE {NoRequest}

(* What recv can return: what the client sent, or an end or an error once  *)
(* the client is gone, which may discard what it sent.                     *)
Received(c) ==
  {Request(c) : i \in 1 .. unread[c]} \cup (IF net[c] = "closed" THEN {NoRequest} ELSE {})

(* One recv takes all that has arrived; szMessage is zero where it did not write. *)
Receive(c) ==
  /\ spc = "recv" /\ serving = {c}
  /\ message' \in Received(c)
  /\ heard' = IF message' # NoRequest THEN heard \cup {c} ELSE heard
  /\ unread' = [unread EXCEPT ![c] = 0]
  /\ spc' = "reply"
  /\ UNCHANGED <<serving, backlog, pc, net, inbox>>

(* The flag is a signed char: it is never equal to FLAG_ASK (line 111). *)
AsChar(byte) == IF byte < 128 THEN byte ELSE byte - 256
UnknownCommand == AsChar(message[1]) = FLAG_ASK /\ message[2] \notin 1 .. 3

(* Mutant: FLAG_NAK is not answered, as its comment has it. *)
BuggyAnswered == ~UnknownCommand /\ message[1] # FLAG_NAK
Answered == ~UnknownCommand

(* "OK" with its zero byte, or the socket is closed; on to the next client. *)
Reply(c) ==
  /\ spc = "reply" /\ serving = {c}
  /\ spc' = "accept"
  /\ net' = [net EXCEPT ![c] = IF UnknownCommand /\ @ = "up" THEN "fin" ELSE @]
  /\ inbox' = [inbox EXCEPT ![c] = IF Answered /\ net[c] = "up" THEN @ \o Answer ELSE @]
  /\ UNCHANGED <<serving, message, backlog, pc, unread, heard>>

(* The process is killed, and its connections with it. *)
ServerEnds ==
  /\ Listening
  /\ spc' = "down"
  /\ backlog' = <<>>
  /\ net' = [c \in Clients |-> IF net[c] = "up" THEN "fin" ELSE net[c]]
  /\ UNCHANGED <<serving, message, pc, unread, inbox, heard>>

-----------------------------------------------------------------------------
(* The clients.                                                            *)

Goto(c, label) == pc' = [pc EXCEPT ![c] = label]

(* WSACleanup and return: the process ends, its socket is closed. *)
Return(c, result) ==
  /\ Goto(c, result)
  /\ net' = [net EXCEPT ![c] = IF @ = "none" THEN @ ELSE "closed"]
  /\ UNCHANGED <<serverVars, backlog, unread, inbox, heard>>

Connect(c) ==
  /\ pc[c] = "start" /\ Listening
  /\ Goto(c, "send")
  /\ net' = [net EXCEPT ![c] = "up"]
  /\ backlog' = Append(backlog, c)
  /\ UNCHANGED <<serverVars, unread, inbox, heard>>

(* No host, no socket, no connection; or the process is killed. *)
Fails(c) == ~Ended(c) /\ Return(c, "failed")

(* send() on a connection that was closed works until the reset arrives. *)
Send(c) ==
  /\ pc[c] = "send" /\ net[c] \in {"up", "fin"}
  /\ unread' = [unread EXCEPT ![c] = IF net[c] = "up" THEN @ + 1 ELSE @]
  /\ Goto(c, IF Retries(c) THEN "recv" ELSE "shutdown")
  /\ UNCHANGED <<serverVars, backlog, net, inbox, heard>>

(* Mutant: a send that failed is tried again. *)
BuggySendFails(c) == FALSE
SendFails(c) == pc[c] = "send" /\ net[c] = "reset" /\ Return(c, "failed")

(* What recv may return of the answer: two bytes, if they are there.  *)
Pieces(c) ==
  {n \in 1 .. 2 : n <= Len(inbox[c]) /\ (Splits \/ n = 2 \/ n = Len(inbox[c]))}

(* Mutant: the answer is compared with its zero byte. *)
BuggyIsOK(bytes) == bytes = Answer
IsOK(bytes) == bytes = OK

(* Clients 0.3 and 0.4: "OK", or SEND_DAT again. *)
RecvAnswer(c) ==
  /\ pc[c] = "recv" /\ Retries(c)
  /\ \E n \in Pieces(c) :
       /\ Goto(c, IF IsOK(SubSeq(inbox[c], 1, n)) THEN "shutdown" ELSE "send")
       /\ inbox' = [inbox EXCEPT ![c] = SubSeq(@, n + 1, Len(@))]
  /\ UNCHANGED <<serverVars, backlog, net, unread, heard>>

(* recv returns zero or an error: send again. *)
RecvEnd(c) ==
  /\ pc[c] = "recv" /\ Retries(c)
  /\ inbox[c] = <<>> /\ net[c] \in {"fin", "reset"}
  /\ Goto(c, "send")
  /\ UNCHANGED <<serverVars, backlog, net, unread, inbox, heard>>

(* shutdown and closesocket, either of which fails on a reset connection. *)
Shutdown(c) ==
  /\ pc[c] = "shutdown" /\ Retries(c)
  /\ Return(c, IF net[c] = "reset" THEN "failed" ELSE "done")

(* Client 0.1 shuts down its side first, then receives until the end. *)
ShutdownSend(c) ==
  /\ pc[c] = "shutdown" /\ ~Retries(c)
  /\ IF net[c] = "reset" THEN Return(c, "failed")
     ELSE /\ Goto(c, "recv")
          /\ UNCHANGED <<serverVars, backlog, net, unread, inbox, heard>>

RecvRest(c) ==
  /\ pc[c] = "recv" /\ ~Retries(c) /\ inbox[c] # <<>>
  /\ inbox' = [inbox EXCEPT ![c] = <<>>]
  /\ UNCHANGED <<serverVars, backlog, pc, net, unread, heard>>

RecvClosed(c) ==
  /\ pc[c] = "recv" /\ ~Retries(c)
  /\ inbox[c] = <<>> /\ net[c] \in {"fin", "reset"}
  /\ Return(c, "done")

(* The server's host resets a connection that is gone; what the client has *)
(* not yet received may be discarded.                                      *)
Reset(c) ==
  /\ net[c] = "fin"
  /\ net' = [net EXCEPT ![c] = "reset"]
  /\ inbox' \in {inbox, [inbox EXCEPT ![c] = <<>>]}
  /\ UNCHANGED <<serverVars, backlog, pc, unread, heard>>

-----------------------------------------------------------------------------
Server == Accept \/ \E c \in Clients : Receive(c) \/ Reply(c)

Client(c) ==
  \/ Send(c) \/ SendFails(c) \/ RecvAnswer(c) \/ RecvEnd(c) \/ Shutdown(c)
  \/ ShutdownSend(c) \/ RecvRest(c) \/ RecvClosed(c)

Next ==
  \/ Startup \/ Server \/ ServerEnds
  \/ \E c \in Clients : Connect(c) \/ Client(c) \/ Fails(c) \/ Reset(c)

Spec == Init /\ [][Next]_vars

(* The server and every client that is connected keep running, and a reset *)
(* arrives in the end.  No client need connect and nothing need fail.      *)
Fairness ==
  /\ WF_vars(Server)
  /\ \A c \in Clients : WF_vars(Client(c)) /\ WF_vars(Reset(c))

FairSpec == Spec /\ Fairness

-----------------------------------------------------------------------------
(* Properties.                                                             *)

TypeOK ==
  /\ spc \in {"start", "accept", "recv", "reply", "down"}
  /\ serving \in SUBSET Clients
  /\ message \in {Request(c) : c \in Clients} \cup {NoRequest}
  /\ backlog \in Seq(Clients)
  /\ pc \in [Clients -> {"start", "send", "recv", "shutdown", "done", "failed"}]
  /\ net \in [Clients -> {"none", "up", "fin", "reset", "closed"}]
  /\ unread \in [Clients -> Nat]
  /\ inbox \in [Clients -> Seq({"O", "K", "NUL"})]
  /\ heard \subseteq Clients

(* A client that retries and returns 0 has been heard: "OK" is the answer  *)
(* to its request and to no other (the order of recv and send in the       *)
(* server's loop, SEND_DAT in the clients).                                *)
OkMeansHeard == \A c \in Clients : Retries(c) /\ pc[c] = "done" => c \in heard

(* No client waits for an answer that will not come: the server, which     *)
(* answers a connection once, has yet to answer it.                        *)
NoVainWait ==
  \A c \in Clients :
    Retries(c) /\ pc[c] = "recv" /\ inbox[c] = <<>> /\ net[c] = "up" =>
      c \in Queued \/ (serving = {c} /\ spc \in {"recv", "reply"})

(* A client 0.3 or 0.4 that got its connection ends, whatever the other    *)
(* clients do and also when the server is killed.                          *)
ClientEnds == \A c \in Clients : Retries(c) => (pc[c] = "send" ~> Ended(c))
=============================================================================
