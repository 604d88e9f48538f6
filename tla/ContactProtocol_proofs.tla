------------------------ MODULE ContactProtocol_proofs ------------------------
(***************************************************************************)
(* Theorems about ContactProtocol for every set of clients: whom success   *)
(* is told to, who may wait and send, and that a server answers everyone   *)
(* and closes no connection of its own accord.                             *)
(***************************************************************************)
EXTENDS ContactProtocol, SequenceTheorems, TLAPS

USE VersionAssumption, SplitsAssumption

-----------------------------------------------------------------------------
(* Sequences and messages.                                                 *)

(* The queue of accept(). *)
LEMMA QueueFacts ==
  ASSUME NEW q \in Seq(Clients)
  PROVE  /\ \A c \in Clients :
              /\ Append(q, c) \in Seq(Clients)
              /\ {Append(q, c)[i] : i \in 1 .. Len(Append(q, c))} = {q[i] : i \in 1 .. Len(q)} \cup {c}
         /\ q # <<>> =>
              /\ Head(q) \in Clients /\ Tail(q) \in Seq(Clients)
              /\ {q[i] : i \in 1 .. Len(q)} = {Tail(q)[i] : i \in 1 .. Len(Tail(q))} \cup {Head(q)}
<1>1. ASSUME NEW c \in Clients
      PROVE  /\ Append(q, c) \in Seq(Clients)
             /\ {Append(q, c)[i] : i \in 1 .. Len(Append(q, c))} = {q[i] : i \in 1 .. Len(q)} \cup {c}
  <2>1. /\ Append(q, c) \in Seq(Clients) /\ Len(Append(q, c)) = Len(q) + 1 /\ Len(q) \in Nat
        /\ \A i \in 1 .. Len(q) : Append(q, c)[i] = q[i]
        /\ Append(q, c)[Len(q) + 1] = c
    OBVIOUS
  <2>2. 1 .. Len(q) + 1 = (1 .. Len(q)) \cup {Len(q) + 1}
    BY <2>1
  <2> QED
    BY <2>1, <2>2
<1>2. ASSUME q # <<>>
      PROVE  /\ Head(q) \in Clients /\ Tail(q) \in Seq(Clients)
             /\ {q[i] : i \in 1 .. Len(q)} = {Tail(q)[i] : i \in 1 .. Len(Tail(q))} \cup {Head(q)}
  <2>1. /\ Head(q) \in Clients /\ Tail(q) \in Seq(Clients) /\ Head(q) = q[1]
        /\ Len(Tail(q)) = Len(q) - 1 /\ Len(q) \in Nat /\ Len(q) > 0
        /\ \A i \in 1 .. Len(Tail(q)) : Tail(q)[i] = q[i + 1]
    BY <1>2
  <2>2. ASSUME NEW i \in 1 .. Len(q)
        PROVE  q[i] \in {Tail(q)[j] : j \in 1 .. Len(Tail(q))} \cup {Head(q)}
    <3>1. CASE i = 1
      BY <2>1, <3>1
    <3>2. CASE i # 1
      <4>1. i - 1 \in 1 .. Len(Tail(q)) /\ Tail(q)[i - 1] = q[i]
        BY <2>1, <3>2
      <4> QED
        BY <4>1
    <3> QED
      BY <3>1, <3>2
  <2>3. ASSUME NEW j \in 1 .. Len(Tail(q)) PROVE Tail(q)[j] \in {q[i] : i \in 1 .. Len(q)}
    <3>1. j + 1 \in 1 .. Len(q) /\ Tail(q)[j] = q[j + 1]
      BY <2>1
    <3> QED
      BY <3>1
  <2>4. Head(q) \in {q[i] : i \in 1 .. Len(q)}
    BY <2>1
  <2> QED
    BY <2>1, <2>2, <2>3, <2>4
<1> QED
  BY <1>1, <1>2

Bytes == {"O", "K", "NUL"}

(* The answer and its parts. *)
LEMMA AnswerFacts ==
  /\ Answer \in Seq(Bytes) /\ Answer # <<>> /\ Len(Answer) = 3
  /\ <<>> \o Answer = Answer
  /\ SubSeq(Answer, 1, 2) = OK
  /\ SubSeq(Answer, 3, 3) = <<"NUL">>
<1> USE DEF Answer, OK, Bytes
<1>1. Answer \in Seq(Bytes) /\ Len(Answer) = 3 /\ Answer # <<>>
  OBVIOUS
<1>2. <<>> \o Answer = Answer
  BY <1>1
<1>3. SubSeq(Answer, 1, 2) = OK
  <2>1. SubSeq(Answer, 1, 2) \in Seq(Bytes) /\ Len(SubSeq(Answer, 1, 2)) = 2
    BY <1>1, SubSeqProperties
  <2>2. \A i \in 1 .. 2 : SubSeq(Answer, 1, 2)[i] = Answer[i]
    BY <1>1, SubSeqProperties
  <2>3. OK \in Seq(Bytes) /\ Len(OK) = 2 /\ \A i \in 1 .. 2 : OK[i] = Answer[i]
    OBVIOUS
  <2> HIDE DEF Answer, OK, Bytes
  <2>4. \A i \in 1 .. 2 : SubSeq(Answer, 1, 2)[i] = OK[i]
    BY <2>2, <2>3
  <2> QED
    BY <2>1, <2>3, <2>4, SeqEqual
<1>4. SubSeq(Answer, 3, 3) = <<"NUL">>
  <2>1. SubSeq(Answer, 3, 3) \in Seq(Bytes) /\ Len(SubSeq(Answer, 3, 3)) = 1
    BY <1>1, SubSeqProperties
  <2>2. SubSeq(Answer, 3, 3)[1] = "NUL"
    BY <1>1, SubSeqProperties
  <2> DEFINE end == <<"NUL">>
  <2>3. end \in Seq(Bytes) /\ Len(end) = 1 /\ end[1] = "NUL"
    OBVIOUS
  <2> HIDE DEF Answer, OK, Bytes, end
  <2>4. \A i \in 1 .. 1 : SubSeq(Answer, 3, 3)[i] = end[i]
    BY <2>2, <2>3
  <2>5. SubSeq(Answer, 3, 3) = end
    BY <2>1, <2>3, <2>4, SeqEqual
  <2> QED
    BY <2>5 DEF end
<1> QED
  BY <1>1, <1>2, <1>3, <1>4

(* The flag, a signed char, is never FLAG_ASK: every request is answered. *)
LEMMA AlwaysAnswered == ASSUME TypeOK PROVE ~UnknownCommand
<1>1. \A c \in Clients : Request(c)[1] \in {67, 187, 170}
  BY DEF Request, FLAG_ASK, FLAG_NAK
<1>2. message[1] \in {0, 67, 187, 170}
  BY <1>1 DEF TypeOK, NoRequest
<1> QED
  BY <1>2 DEF UnknownCommand, AsChar, FLAG_ASK

-----------------------------------------------------------------------------
(* Type correctness.                                                       *)

(* The process of a client ends in Return. *)
LEMMA ReturnSteps ==
  ASSUME NEW c \in Clients,
         \/ SendFails(c) \/ Shutdown(c) \/ RecvClosed(c) \/ Fails(c)
         \/ ShutdownSend(c) /\ net[c] = "reset"
  PROVE  \E result \in {"done", "failed"} :
           /\ Return(c, result)
           /\ Retries(c) /\ result = "done" => pc[c] = "shutdown"
BY DEF SendFails, Shutdown, RecvClosed, Fails, ShutdownSend

(* The steps of a client that end its process. *)
Returns(c) == \E result \in {"done", "failed"} :
                /\ Return(c, result)
                /\ Retries(c) /\ result = "done" => pc[c] = "shutdown"

(* Every step is one of these. *)
LEMMA Steps ==
  ASSUME Next
  PROVE  \/ Startup \/ Accept \/ ServerEnds
         \/ \E c \in Clients :
              \/ Receive(c) \/ Reply(c) \/ Connect(c) \/ Reset(c) \/ Returns(c)
              \/ Send(c) \/ RecvAnswer(c) \/ RecvEnd(c) \/ RecvRest(c)
              \/ ShutdownSend(c) /\ net[c] # "reset"
BY ReturnSteps DEF Next, Server, Client, Returns

(* The requests and the answer. *)
LEMMA InitType == Init => TypeOK
BY DEF Init, TypeOK

(* What a client receives is a part of what was sent. *)
LEMMA InboxType ==
  ASSUME TypeOK, NEW c \in Clients
  PROVE  /\ inbox[c] \o Answer \in Seq(Bytes)
         /\ \A n \in 1 .. 2 : n <= Len(inbox[c]) =>
              SubSeq(inbox[c], n + 1, Len(inbox[c])) \in Seq(Bytes)
<1>1. inbox[c] \in Seq(Bytes)
  BY DEF TypeOK, Bytes
<1> HIDE DEF Bytes
<1>2. inbox[c] \o Answer \in Seq(Bytes)
  BY <1>1, AnswerFacts, ConcatProperties
<1>3. ASSUME NEW n \in 1 .. 2, n <= Len(inbox[c])
      PROVE  SubSeq(inbox[c], n + 1, Len(inbox[c])) \in Seq(Bytes)
  <2>1. Len(inbox[c]) \in Nat /\ \A i \in n + 1 .. Len(inbox[c]) : inbox[c][i] \in Bytes
    BY <1>1
  <2> QED
    BY <2>1, SubSeqProperties
<1> QED
  BY <1>2, <1>3

(* A step keeps the types. *)
LEMMA NextType == TypeOK /\ [Next]_vars => TypeOK'
<1> SUFFICES ASSUME TypeOK, [Next]_vars PROVE TypeOK'
  OBVIOUS
<1>1. CASE UNCHANGED vars
  BY <1>1 DEF vars, serverVars, TypeOK
<1>2. CASE Startup \/ ServerEnds
  BY <1>2, EmptySeq DEF Startup, ServerEnds, Listening, TypeOK
<1>3. CASE Accept
  <2>1. Head(backlog) \in Clients /\ Tail(backlog) \in Seq(Clients)
    BY <1>3, QueueFacts DEF Accept, TypeOK
  <2> QED
    BY <1>3, <2>1 DEF Accept, TypeOK
<1>4. ASSUME NEW c \in Clients, Receive(c) PROVE TypeOK'
  <2>1. message' \in {Request(d) : d \in Clients} \cup {NoRequest}
    BY <1>4 DEF Receive, Received
  <2> QED
    BY <1>4, <2>1 DEF Receive, TypeOK
<1>5. ASSUME NEW c \in Clients, Reply(c) PROVE TypeOK'
  <2>1. inbox[c] \o Answer \in Seq({"O", "K", "NUL"})
    BY InboxType DEF Bytes
  <2>2. inbox' \in [Clients -> Seq({"O", "K", "NUL"})]
    BY <1>5, <2>1 DEF Reply, TypeOK
  <2> QED
    BY <1>5, <2>2 DEF Reply, TypeOK
<1>6. ASSUME NEW c \in Clients, Connect(c) PROVE TypeOK'
  <2>1. backlog' \in Seq(Clients)
    BY <1>6, QueueFacts DEF Connect, TypeOK
  <2> QED
    BY <1>6, <2>1 DEF Connect, Goto, serverVars, TypeOK
<1>7. ASSUME NEW c \in Clients, Returns(c) PROVE TypeOK'
  BY <1>7 DEF Returns, Return, Goto, serverVars, TypeOK
<1>8. ASSUME NEW c \in Clients,
             Send(c) \/ RecvEnd(c) \/ (ShutdownSend(c) /\ net[c] # "reset")
      PROVE  TypeOK'
  <2>1. pc' \in [Clients -> {"start", "send", "recv", "shutdown", "done", "failed"}]
    <3>1. CASE Send(c)
      BY <3>1 DEF Send, Goto, TypeOK
    <3>2. CASE RecvEnd(c)
      BY <3>2 DEF RecvEnd, Goto, TypeOK
    <3>3. CASE ShutdownSend(c) /\ net[c] # "reset"
      BY <3>3 DEF ShutdownSend, Goto, TypeOK
    <3> QED
      BY <1>8, <3>1, <3>2, <3>3
  <2>2. unread' \in [Clients -> Nat]
    <3>1. CASE Send(c)
      <4>1. unread[c] \in Nat /\ unread[c] + 1 \in Nat /\ unread \in [Clients -> Nat]
        BY DEF TypeOK
      <4>2. unread' = [unread EXCEPT ![c] = unread[c] + 1] \/ unread' = [unread EXCEPT ![c] = unread[c]]
        BY <3>1 DEF Send
      <4> QED
        BY <4>1, <4>2
    <3>2. CASE RecvEnd(c) \/ (ShutdownSend(c) /\ net[c] # "reset")
      BY <3>2 DEF RecvEnd, ShutdownSend, TypeOK
    <3> QED
      BY <1>8, <3>1, <3>2
  <2> QED
    BY <1>8, <2>1, <2>2 DEF Send, RecvEnd, ShutdownSend, serverVars, TypeOK
<1>9. ASSUME NEW c \in Clients, Reset(c) \/ RecvRest(c) PROVE TypeOK'
  <2>1. <<>> \in Seq({"O", "K", "NUL"})
    BY EmptySeq
  <2>2. inbox' \in [Clients -> Seq({"O", "K", "NUL"})]
    BY <1>9, <2>1 DEF Reset, RecvRest, TypeOK
  <2>3. net' \in [Clients -> {"none", "up", "fin", "reset", "closed"}]
    BY <1>9 DEF Reset, RecvRest, TypeOK
  <2> QED
    BY <1>9, <2>2, <2>3 DEF Reset, RecvRest, serverVars, TypeOK
<1>10. ASSUME NEW c \in Clients, RecvAnswer(c) PROVE TypeOK'
  <2>1. PICK n \in Pieces(c) :
          /\ Goto(c, IF IsOK(SubSeq(inbox[c], 1, n)) THEN "shutdown" ELSE "send")
          /\ inbox' = [inbox EXCEPT ![c] = SubSeq(@, n + 1, Len(@))]
    BY <1>10 DEF RecvAnswer
  <2>2. SubSeq(inbox[c], n + 1, Len(inbox[c])) \in Seq({"O", "K", "NUL"})
    BY InboxType DEF Pieces, Bytes
  <2>3. inbox' \in [Clients -> Seq({"O", "K", "NUL"})]
    BY <2>1, <2>2 DEF TypeOK
  <2>4. pc' \in [Clients -> {"start", "send", "recv", "shutdown", "done", "failed"}]
    BY <2>1 DEF Goto, TypeOK
  <2> QED
    BY <1>10, <2>3, <2>4 DEF RecvAnswer, serverVars, TypeOK
<1> QED
  BY <1>1, <1>2, <1>3, <1>4, <1>5, <1>6, <1>7, <1>8, <1>9, <1>10, Steps

(* Every variable keeps its type. *)
THEOREM TypeCorrect == Spec => []TypeOK
BY InitType, NextType, PTL DEF Spec

-----------------------------------------------------------------------------
(* The queue. *)

(* Connect and Accept as changes of the set of clients that wait. *)
LEMMA QueuedSteps ==
  ASSUME TypeOK
  PROVE  /\ \A c \in Clients : backlog' = Append(backlog, c) => Queued' = Queued \cup {c}
         /\ backlog # <<>> /\ backlog' = Tail(backlog) => Queued = Queued' \cup {Head(backlog)}
         /\ backlog' = backlog => Queued' = Queued
<1>1. backlog \in Seq(Clients)
  BY DEF TypeOK
<1>2. ASSUME NEW c \in Clients, backlog' = Append(backlog, c) PROVE Queued' = Queued \cup {c}
  BY <1>1, <1>2, QueueFacts DEF Queued
<1>3. ASSUME backlog # <<>>, backlog' = Tail(backlog)
      PROVE  Queued = Queued' \cup {Head(backlog)}
  <2>1. Queued = {Tail(backlog)[i] : i \in 1 .. Len(Tail(backlog))} \cup {Head(backlog)}
    BY <1>1, <1>3, QueueFacts DEF Queued
  <2>2. Queued' = {Tail(backlog)[i] : i \in 1 .. Len(Tail(backlog))}
    BY <1>3 DEF Queued
  <2> QED
    BY <2>1, <2>2
<1>4. backlog' = backlog => Queued' = Queued
  BY DEF Queued
<1> QED
  BY <1>2, <1>3, <1>4

InReply(c) == spc = "reply" /\ serving = {c}

(* A client that has not connected is unknown to the server. *)
Unknown(c) == c \notin Queued /\ serving # {c} /\ inbox[c] = <<>> /\ unread[c] = 0

(* Whoever has received bytes, or is about to, was heard. *)
HeardInv ==
  \A c \in Clients :
    /\ pc[c] = "start" => Unknown(c)
    /\ inbox[c] # <<>> => c \in heard
    /\ InReply(c) /\ net[c] = "up" => c \in heard
    /\ Retries(c) /\ pc[c] \in {"shutdown", "done"} => c \in heard

(* It holds before anyone starts, *)
LEMMA InitHeard == Init => HeardInv
<1>1. Init => Queued = {}
  BY DEF Init, Queued
<1> QED
  BY <1>1 DEF Init, HeardInv, Unknown, InReply

(* and after every step. *)
LEMMA NextHeard == TypeOK /\ TypeOK' /\ HeardInv /\ [Next]_vars => HeardInv'
<1> SUFFICES ASSUME TypeOK, TypeOK', HeardInv, [Next]_vars, NEW d \in Clients
             PROVE  /\ pc'[d] = "start" => Unknown(d)'
                    /\ inbox'[d] # <<>> => d \in heard'
                    /\ InReply(d)' /\ net'[d] = "up" => d \in heard'
                    /\ Retries(d) /\ pc'[d] \in {"shutdown", "done"} => d \in heard'
  BY DEF HeardInv, Retries
<1> USE DEF HeardInv, Unknown, InReply
<1>1. CASE UNCHANGED vars
  BY <1>1, QueuedSteps DEF vars, serverVars
<1>2. CASE Startup
  BY <1>2, QueuedSteps DEF Startup
<1>3. CASE ServerEnds
  <2>1. Queued' = {}
    BY <1>3 DEF ServerEnds, Queued
  <2> QED
    BY <1>3, <2>1 DEF ServerEnds, TypeOK
<1>4. CASE Accept
  <2>1. Queued = Queued' \cup {Head(backlog)}
    BY <1>4, QueuedSteps DEF Accept
  <2> QED
    BY <1>4, <2>1 DEF Accept
<1>5. ASSUME NEW c \in Clients, Receive(c) PROVE heard \subseteq heard' /\ (net[c] = "up" => c \in heard')
  BY <1>5 DEF Receive, Received, NoRequest, Request, FLAG_NAK, FLAG_ASK, TypeOK
<1>6. ASSUME NEW c \in Clients, Receive(c)
      PROVE  /\ pc'[d] = "start" => Unknown(d)'
             /\ inbox'[d] # <<>> => d \in heard'
             /\ InReply(d)' /\ net'[d] = "up" => d \in heard'
             /\ Retries(d) /\ pc'[d] \in {"shutdown", "done"} => d \in heard'
  BY <1>5, <1>6, QueuedSteps DEF Receive, TypeOK
<1>7. ASSUME NEW c \in Clients, Reply(c)
      PROVE  /\ pc'[d] = "start" => Unknown(d)'
             /\ inbox'[d] # <<>> => d \in heard'
             /\ InReply(d)' /\ net'[d] = "up" => d \in heard'
             /\ Retries(d) /\ pc'[d] \in {"shutdown", "done"} => d \in heard'
  <2>1. inbox'[d] = inbox[d] \/ (d = c /\ net[c] = "up")
    BY <1>7 DEF Reply, TypeOK
  <2> QED
    BY <1>7, <2>1, QueuedSteps DEF Reply
<1>8. ASSUME NEW c \in Clients, Connect(c)
      PROVE  /\ pc'[d] = "start" => Unknown(d)'
             /\ inbox'[d] # <<>> => d \in heard'
             /\ InReply(d)' /\ net'[d] = "up" => d \in heard'
             /\ Retries(d) /\ pc'[d] \in {"shutdown", "done"} => d \in heard'
  <2>1. Queued' = Queued \cup {c}
    BY <1>8, QueuedSteps DEF Connect
  <2> QED
    BY <1>8, <2>1 DEF Connect, Goto, serverVars, TypeOK
<1>9. ASSUME NEW c \in Clients,
             \/ Returns(c) \/ Send(c) \/ RecvEnd(c) \/ RecvRest(c) \/ Reset(c)
             \/ ShutdownSend(c) /\ net[c] # "reset"
      PROVE  /\ pc'[d] = "start" => Unknown(d)'
             /\ inbox'[d] # <<>> => d \in heard'
             /\ InReply(d)' /\ net'[d] = "up" => d \in heard'
             /\ Retries(d) /\ pc'[d] \in {"shutdown", "done"} => d \in heard'
  <2>1. Queued' = Queued /\ UNCHANGED <<serving, spc, heard>>
    BY <1>9, QueuedSteps DEF Returns, Return, Send, RecvEnd, RecvRest, Reset, ShutdownSend, serverVars
  <2>2. net'[d] = "up" => net[d] = "up"
    BY <1>9 DEF Returns, Return, Send, RecvEnd, RecvRest, Reset, ShutdownSend, TypeOK
  <2>3. inbox'[d] = inbox[d] \/ inbox'[d] = <<>>
    BY <1>9 DEF Returns, Return, Send, RecvEnd, RecvRest, Reset, ShutdownSend, TypeOK
  <2>4. \/ pc'[d] = pc[d] \/ pc'[d] \in {"send", "recv", "failed"}
        \/ pc'[d] = "done" /\ (Retries(d) => pc[d] = "shutdown")
        \/ pc'[d] = "shutdown" /\ ~Retries(d)
    BY <1>9 DEF Returns, Return, Send, RecvEnd, RecvRest, Reset, ShutdownSend, Goto, TypeOK
  <2>5. pc[d] = "start" /\ pc'[d] = "start" => unread'[d] = unread[d]
    BY <1>9 DEF Returns, Return, Send, RecvEnd, RecvRest, Reset, ShutdownSend, Goto, TypeOK
  <2> QED
    BY <2>1, <2>2, <2>3, <2>4, <2>5
<1>10. ASSUME NEW c \in Clients, RecvAnswer(c)
      PROVE  /\ pc'[d] = "start" => Unknown(d)'
             /\ inbox'[d] # <<>> => d \in heard'
             /\ InReply(d)' /\ net'[d] = "up" => d \in heard'
             /\ Retries(d) /\ pc'[d] \in {"shutdown", "done"} => d \in heard'
  <2>1. inbox[c] # <<>>
    BY <1>10, EmptySeq DEF RecvAnswer, Pieces
  <2>2. c \in heard /\ pc[c] # "start"
    BY <2>1
  <2>3. /\ Queued' = Queued /\ UNCHANGED <<serving, spc, heard, net, unread>>
        /\ pc'[c] # "start" /\ \A e \in Clients \ {c} : pc'[e] = pc[e] /\ inbox'[e] = inbox[e]
    BY <1>10, QueuedSteps DEF RecvAnswer, Goto, serverVars, TypeOK
  <2> QED
    BY <2>2, <2>3
<1> QED
  BY <1>1, <1>2, <1>3, <1>4, <1>6, <1>7, <1>8, <1>9, <1>10, Steps

(* A client that retries and ends with 0 has been heard by the server,     *)
(* also when TCP delivers the answer in pieces.                            *)
THEOREM OkMeansHeardCorrect == Spec => []OkMeansHeard
<1>1. HeardInv => OkMeansHeard
  BY DEF HeardInv, OkMeansHeard
<1>2. Spec => []HeardInv
  BY InitHeard, NextHeard, TypeCorrect, PTL DEF Spec
<1> QED
  BY <1>1, <1>2, PTL

-----------------------------------------------------------------------------
(***************************************************************************)
(* Whose turn it is, on a connection that is up, when an answer arrives in *)
(* one piece: the client's, the server's, or the client's again.           *)
(***************************************************************************)

Waiting(c) ==
  /\ c \in Queued \/ (serving = {c} /\ spc = "recv")
  /\ inbox[c] = <<>>
  /\ \/ pc[c] = "send" /\ unread[c] = 0
     \/ pc[c] = "recv" /\ unread[c] = 1
  /\ ~InReply(c)

Answering(c) == InReply(c) /\ pc[c] = "recv" /\ inbox[c] = <<>> /\ unread[c] = 0

AnswerSent(c) ==
  /\ \/ pc[c] = "recv" /\ inbox[c] = Answer
     \/ pc[c] = "shutdown"
  /\ unread[c] = 0 /\ ~InReply(c)

Turn(c) == Waiting(c) \/ Answering(c) \/ AnswerSent(c)

TurnInv == \A c \in Clients : Retries(c) /\ net[c] = "up" => Turn(c)

(* Nobody has a connection at first. *)
LEMMA InitTurn == Init => TurnInv
BY DEF Init, TurnInv

(* A step of the server or of another client does not take a turn away. *)
LEMMA OthersTurn ==
  ASSUME TypeOK, NEW d \in Clients, Turn(d),
         pc'[d] = pc[d], inbox'[d] = inbox[d], unread'[d] = unread[d],
         UNCHANGED <<spc, serving>>, Queued \subseteq Queued'
  PROVE  Turn(d)'
BY DEF Turn, Waiting, Answering, AnswerSent, InReply

(* The turn passes as described. *)
LEMMA NextTurn ==
  ASSUME ~Splits
  PROVE  TypeOK /\ HeardInv /\ TurnInv /\ [Next]_vars => TurnInv'
<1> SUFFICES ASSUME TypeOK, HeardInv, TurnInv, [Next]_vars,
                    NEW d \in Clients, Retries(d), net'[d] = "up"
             PROVE  Turn(d)'
  BY DEF TurnInv, Retries
<1> USE DEF TurnInv
<1>1. CASE UNCHANGED vars
  BY <1>1, QueuedSteps, OthersTurn DEF vars, serverVars
<1>2. CASE Startup
  <2>1. Queued' = Queued /\ net[d] = "up"
    BY <1>2, QueuedSteps DEF Startup
  <2> QED
    BY <1>2, <2>1 DEF Startup, Turn, Waiting, Answering, AnswerSent, InReply
<1>3. CASE ServerEnds
  BY <1>3 DEF ServerEnds, TypeOK
<1>4. CASE Accept
  <2>1. Queued = Queued' \cup {Head(backlog)} /\ net[d] = "up"
    BY <1>4, QueuedSteps DEF Accept
  <2> QED
    BY <1>4, <2>1 DEF Accept, Turn, Waiting, Answering, AnswerSent, InReply
<1>5. ASSUME NEW c \in Clients, Receive(c) PROVE Turn(d)'
  <2>1. Queued' = Queued /\ net[d] = "up"
    BY <1>5, QueuedSteps DEF Receive
  <2>2. CASE d = c
    <3>1. unread[d] > 0
      BY <1>5, <2>1, <2>2 DEF Receive, Received, TypeOK
    <3>2. unread'[d] = 0
      BY <1>5, <2>2 DEF Receive, TypeOK
    <3> QED
      BY <1>5, <2>1, <2>2, <3>1, <3>2
         DEF Receive, Turn, Waiting, Answering, AnswerSent, InReply, TypeOK
  <2>3. CASE d # c
    BY <1>5, <2>1, <2>3 DEF Receive, Turn, Waiting, Answering, AnswerSent, InReply, TypeOK
  <2> QED
    BY <2>2, <2>3
<1>6. ASSUME NEW c \in Clients, Reply(c) PROVE Turn(d)'
  <2>1. Queued' = Queued /\ net[d] = "up"
    BY <1>6, QueuedSteps, AlwaysAnswered DEF Reply, TypeOK
  <2>2. CASE d = c
    <3>1. Answering(d)
      BY <1>6, <2>1, <2>2 DEF Reply, Turn, Waiting, AnswerSent, InReply
    <3>2. inbox'[d] = Answer
      BY <1>6, <2>1, <2>2, <3>1, AlwaysAnswered, AnswerFacts DEF Reply, Answered, Answering, TypeOK
    <3> QED
      BY <1>6, <3>1, <3>2 DEF Reply, Turn, Answering, AnswerSent, InReply
  <2>3. CASE d # c
    BY <1>6, <2>1, <2>3 DEF Reply, Turn, Waiting, Answering, AnswerSent, InReply, TypeOK
  <2> QED
    BY <2>2, <2>3
<1>7. ASSUME NEW c \in Clients, Connect(c) PROVE Turn(d)'
  <2>1. Queued' = Queued \cup {c}
    BY <1>7, QueuedSteps DEF Connect
  <2>2. CASE d = c
    <3>1. Unknown(d) /\ pc'[d] = "send" /\ inbox'[d] = inbox[d] /\ unread'[d] = unread[d]
      BY <1>7, <2>2 DEF Connect, Goto, HeardInv, TypeOK
    <3> QED
      BY <1>7, <2>1, <2>2, <3>1 DEF Connect, serverVars, Turn, Waiting, Unknown, InReply
  <2>3. CASE d # c
    <3>1. /\ pc'[d] = pc[d] /\ inbox'[d] = inbox[d] /\ unread'[d] = unread[d] /\ net[d] = "up"
          /\ UNCHANGED <<spc, serving>>
      BY <1>7, <2>3 DEF Connect, Goto, serverVars, TypeOK
    <3> QED
      BY <2>1, <3>1, OthersTurn
  <2> QED
    BY <2>2, <2>3
<1>8. ASSUME NEW c \in Clients, c # d,
             \/ Returns(c) \/ Send(c) \/ RecvAnswer(c) \/ RecvEnd(c) \/ RecvRest(c) \/ Reset(c)
             \/ ShutdownSend(c) /\ net[c] # "reset"
      PROVE  Turn(d)'
  <2>1. Queued' = Queued /\ UNCHANGED <<serving, spc>>
    BY <1>8, QueuedSteps
       DEF Returns, Return, Send, RecvAnswer, RecvEnd, RecvRest, Reset, ShutdownSend, serverVars
  <2>2. pc'[d] = pc[d] /\ unread'[d] = unread[d] /\ net[d] = "up"
    BY <1>8 DEF Returns, Return, Send, RecvAnswer, RecvEnd, RecvRest, Reset, ShutdownSend, Goto, TypeOK
  <2>3. inbox'[d] = inbox[d]
    BY <1>8 DEF Returns, Return, Send, RecvAnswer, RecvEnd, RecvRest, Reset, ShutdownSend, TypeOK
  <2> QED
    BY <2>1, <2>2, <2>3, OthersTurn
<1>9. CASE Returns(d) \/ RecvEnd(d) \/ RecvRest(d) \/ Reset(d) \/ ShutdownSend(d)
  BY <1>9 DEF Returns, Return, RecvEnd, RecvRest, Reset, ShutdownSend, TypeOK
<1>10. CASE Send(d)
  <2>1. Queued' = Queued /\ UNCHANGED <<serving, spc, inbox>> /\ net[d] = "up"
    BY <1>10, QueuedSteps DEF Send, serverVars
  <2>2. pc'[d] = "recv" /\ pc[d] = "send" /\ unread'[d] = unread[d] + 1
    BY <1>10, <2>1 DEF Send, Goto, TypeOK
  <2> QED
    BY <2>1, <2>2 DEF Turn, Waiting, Answering, AnswerSent, InReply
<1>11. CASE RecvAnswer(d)
  <2>1. Queued' = Queued /\ UNCHANGED <<serving, spc, unread>> /\ net[d] = "up" /\ pc[d] = "recv"
    BY <1>11, QueuedSteps DEF RecvAnswer, serverVars
  <2>2. PICK n \in Pieces(d) : Goto(d, IF IsOK(SubSeq(inbox[d], 1, n)) THEN "shutdown" ELSE "send")
    BY <1>11 DEF RecvAnswer
  <2>3. inbox[d] # <<>>
    BY <2>2, EmptySeq DEF Pieces
  <2>4. inbox[d] = Answer /\ AnswerSent(d)
    BY <2>1, <2>3 DEF Turn, Waiting, Answering, AnswerSent
  <2>5. n = 2
    BY <2>2, <2>4, AnswerFacts DEF Pieces
  <2>6. pc'[d] = "shutdown"
    BY <2>2, <2>4, <2>5, AnswerFacts DEF IsOK, Goto, TypeOK
  <2> QED
    BY <2>1, <2>4, <2>6 DEF Turn, AnswerSent, InReply
<1> QED
  BY <1>1, <1>2, <1>3, <1>4, <1>5, <1>6, <1>7, <1>8, <1>9, <1>10, <1>11, Steps

(* Turns are taken in every state, when an answer arrives in one piece.    *)
LEMMA TurnCorrect == ASSUME ~Splits PROVE Spec => []TurnInv
<1>1. Spec => []HeardInv
  BY InitHeard, NextHeard, TypeCorrect, PTL DEF Spec
<1> QED
  BY InitTurn, NextTurn, <1>1, TypeCorrect, PTL DEF Spec

(* When an answer arrives in one piece, no client waits for an answer that *)
(* will not come.                                                          *)
THEOREM NoVainWaitCorrect == ASSUME ~Splits PROVE Spec => []NoVainWait
<1>1. TurnInv => NoVainWait
  <2> SUFFICES ASSUME TurnInv, NEW c \in Clients, Retries(c), pc[c] = "recv",
                      inbox[c] = <<>>, net[c] = "up"
               PROVE  c \in Queued \/ (serving = {c} /\ spc \in {"recv", "reply"})
    BY DEF NoVainWait
  <2>1. Turn(c)
    BY DEF TurnInv
  <2> QED
    BY <2>1, AnswerFacts DEF Turn, Waiting, Answering, AnswerSent, InReply
<1> QED
  BY <1>1, TurnCorrect, PTL


-----------------------------------------------------------------------------
(* The other side of an answer.                                            *)

(* The comparison of a signed char with FLAG_ASK never holds, so every     *)
(* client is answered "OK", whatever it asked for, and no connection ends  *)
(* before the server does: it closes none of its own accord.               *)
ServerNeverCloses ==
  /\ spc = "reply" => Answered
  /\ \A c \in Clients : net[c] \in {"fin", "reset"} => spc = "down"

(* A retrying client whose connection is up sends nothing twice: it is     *)
(* about to send only as long as the server has yet to receive from it.    *)
AsksOnce ==
  \A c \in Clients : Retries(c) /\ net[c] = "up" =>
    /\ unread[c] <= 1
    /\ pc[c] = "send" => /\ unread[c] = 0
                         /\ c \in Queued \/ (serving = {c} /\ spc = "recv")

(* A connection that has an end had a server that is down. *)
EndMeansDown == \A c \in Clients : net[c] \in {"fin", "reset"} => spc = "down"

(* Only the end of the server ends a connection that a client still has. *)
LEMMA NextEnd == TypeOK /\ EndMeansDown /\ [Next]_vars => EndMeansDown'
<1> SUFFICES ASSUME TypeOK, EndMeansDown, [Next]_vars,
                    NEW d \in Clients, net'[d] \in {"fin", "reset"}
             PROVE  spc' = "down"
  BY DEF EndMeansDown
<1> USE DEF EndMeansDown, serverVars
<1>1. CASE Startup \/ Accept \/ ServerEnds \/ UNCHANGED vars
  BY <1>1 DEF Startup, Accept, ServerEnds, vars
<1>2. ASSUME NEW c \in Clients, Receive(c) PROVE spc' = "down"
  BY <1>2 DEF Receive
<1>3. ASSUME NEW c \in Clients, Reply(c) PROVE spc' = "down"
  <2>1. ~UnknownCommand
    BY AlwaysAnswered
  <2>2. net' = net /\ spc = "reply"
    BY <1>3, <2>1 DEF Reply, TypeOK
  <2> QED
    BY <2>2
<1>4. ASSUME NEW c \in Clients, Connect(c) \/ Client(c) \/ Fails(c) \/ Reset(c)
      PROVE  spc' = "down"
  <2>1. spc' = spc
    BY <1>4 DEF Connect, Client, Fails, Reset, Return, Send, SendFails, RecvAnswer, RecvEnd,
       Shutdown, ShutdownSend, RecvRest, RecvClosed
  <2>2. net[d] \in {"fin", "reset"}
    <3>1. \/ net' = net
          \/ net' = [net EXCEPT ![c] = IF @ = "none" THEN @ ELSE "closed"]
          \/ net' = [net EXCEPT ![c] = "up"]
          \/ net[c] = "fin" /\ net' = [net EXCEPT ![c] = "reset"]
      BY <1>4 DEF Connect, Client, Fails, Reset, Return, Send, SendFails, RecvAnswer, RecvEnd,
         Shutdown, ShutdownSend, RecvRest, RecvClosed
    <3> QED
      BY <3>1 DEF TypeOK
  <2> QED
    BY <2>1, <2>2
<1> QED
  BY <1>1, <1>2, <1>3, <1>4 DEF Next, Server

(* The server answers everyone and closes no connection. *)
THEOREM ServerNeverClosesCorrect == Spec => []ServerNeverCloses
<1>1. Init => EndMeansDown
  BY DEF Init, EndMeansDown
<1>2. TypeOK /\ EndMeansDown => ServerNeverCloses
  BY AlwaysAnswered DEF Answered, EndMeansDown, ServerNeverCloses
<1> QED
  BY <1>1, <1>2, NextEnd, TypeCorrect, PTL DEF Spec

(* When an answer arrives in one piece, no client sends its request twice  *)
(* on a connection that is up (SEND_DAT of the two clients).               *)
THEOREM AsksOnceCorrect == ASSUME ~Splits PROVE Spec => []AsksOnce
<1>1. TurnInv => AsksOnce
  <2> SUFFICES ASSUME TurnInv, NEW c \in Clients, Retries(c), net[c] = "up"
               PROVE  /\ unread[c] <= 1
                      /\ pc[c] = "send" => /\ unread[c] = 0
                                           /\ c \in Queued \/ (serving = {c} /\ spc = "recv")
    BY DEF AsksOnce
  <2>1. Turn(c)
    BY DEF TurnInv
  <2> QED
    BY <2>1 DEF Turn, Waiting, Answering, AnswerSent
<1> QED
  BY <1>1, TurnCorrect, PTL
=============================================================================
