------------------------ MODULE TcpStunThread_proofs ------------------------
(***************************************************************************)
(* Theorems about TcpStunThread for every value of its constants.          *)
(*                                                                         *)
(* The first part holds whatever calls fail: Structure is an inductive     *)
(* invariant that relates the tables, the pool, the descriptors and the    *)
(* connection in hand.  The second part adds that every connection can be  *)
(* served, the third that the thread uses its pool as the pool allows, the *)
(* fourth how many connections there are and how long each may live, the   *)
(* fifth that TcpStunServer may take this thread for one of its own.       *)
(***************************************************************************)
EXTENDS MCTcpLive, FiniteSetTheorems, TLAPS

(* An entry of a table leads to a connection in use with that socket and id. *)
EntriesLead ==
  \A i \in Tables, s \in Socks : hash[i][s] # NoConn =>
    /\ hash[i][s] \in InUse
    /\ conn[hash[i][s]].sock = s
    /\ conn[hash[i][s]].id = i

(* ReceiveBytesForConnection and WriteBytesForConnection work on a tracked *)
(* connection; CloseConnection on one in use.                              *)
CallTracked ==
  /\ pc \in {"receive", "write"} => cur \in Tracked
  /\ cur # NoConn => cur \in InUse

(* A connection of the old table was already there, in the new one, at the *)
(* last sweep.                                                             *)
OldAges ==
  \A s \in Socks : hash[oldList][s] # NoConn => age[hash[oldList][s]] >= sweepAge

Structure == TypeOK /\ EntriesLead /\ CallTracked /\ Conservation /\ OldAges

USE ConnsAssumption, SocksAssumption, RolesAssumption, LimitsAssumption,
    SizesAssumption, FaultsAssumption
USE DEF RemoveEntry, SwapTables, StampSweep, CloseRefused

-----------------------------------------------------------------------------
(* Structure holds before the thread starts. *)
LEMMA InitStructure == Init => Structure
<1> SUFFICES ASSUME Init PROVE Structure
  OBVIOUS
<1> USE DEF Init
<1>1. TypeOK
  <2>1. conn \in [Conns -> Connection]
    BY DEF Connection
  <2>2. age \in [Conns -> 0 .. AgeCap] /\ hash \in [Tables -> [Socks -> Conns \cup {NoConn}]]
    OBVIOUS
  <2>3. interest \in [Socks -> {"none", "read", "write"}]
    OBVIOUS
  <2>4. 0 \in 0 .. SweepTimeout
    OBVIOUS
  <2>5. newList \in Tables
    BY DEF Tables
  <2>6. pc \in {"receive", "write", "close"} <=> cur # NoConn
    OBVIOUS
  <2> QED
    BY <2>1, <2>2, <2>3, <2>4, <2>5, <2>6 DEF TypeOK
<1>2. EntriesLead /\ OldAges
  BY DEF EntriesLead, OldAges, oldList, Tables
<1>3. Tracked = {} /\ InUse = {}
  BY DEF Tracked, InUse, Tables
<1>4. Conservation /\ CallTracked
  BY <1>3 DEF Conservation, CallTracked
<1> QED
  BY <1>1, <1>2, <1>4 DEF Structure

(* A step that leaves the tables, the pool and every socket and id alone   *)
(* keeps the structure, provided the connection in hand is tracked.        *)
LEMMA SameTables ==
  ASSUME Structure, TypeOK',
         UNCHANGED <<heap, free, hash, newList, open, age, sweepAge>>,
         \A c \in Conns : conn'[c].sock = conn[c].sock /\ conn'[c].id = conn[c].id,
         cur' = cur \/ (cur \in Tracked \cup {NoConn} /\ cur' \in Tracked \cup {NoConn}),
         pc' \in {"receive", "write"} => cur' \in Tracked
  PROVE  Structure'
<1> USE DEF Structure
<1>1. InUse' = InUse /\ Tracked' = Tracked /\ oldList' = oldList
  BY DEF InUse, Tracked, oldList
<1>2. InUse \subseteq Conns /\ Tracked \subseteq InUse /\ free \subseteq Conns
  BY DEF TypeOK, InUse, Conservation
<1>3. EntriesLead'
  BY <1>1, <1>2 DEF EntriesLead
<1>4. CallTracked'
  BY <1>1, <1>2 DEF CallTracked
<1>5. InUse = Tracked \cup ({cur'} \ {NoConn})
  BY DEF Conservation
<1>6. Conservation'
  BY <1>1, <1>2, <1>5 DEF Conservation
<1>7. OldAges'
  BY <1>1 DEF OldAges
<1> QED
  BY <1>3, <1>4, <1>6, <1>7

-----------------------------------------------------------------------------
(* Type correctness of each kind of step. *)

(* Updating the connection in hand keeps the type of the pool. *)
LEMMA UpdateType ==
  ASSUME TypeOK, cur # NoConn, NEW k, Update(k), k \in Connection
  PROVE  conn' \in [Conns -> Connection]
BY DEF TypeOK, Update

(* CloseConnection: what it does to a connection in use. *)
LEMMA CloseEffect ==
  ASSUME Structure, NEW c \in InUse, CloseConnection(c)
  PROVE  /\ conn[c].sock \in Socks /\ c \in Conns /\ c \in heap
         /\ conn[c].id \in Tables \cup {-1}
         /\ conn' \in [Conns -> Connection]
         /\ hash' \in [Tables -> [Socks -> Conns \cup {NoConn}]]
         /\ interest' \in [Socks -> {"none", "read", "write"}]
         /\ age' \in [Conns -> 0 .. AgeCap]
         /\ InUse' = InUse \ {c}
         /\ conn'[c].sock = NoSock
         /\ \A d \in Conns : d # c => conn'[d] = conn[d] /\ age'[d] = age[d]
         /\ \A j \in Tables, t \in Socks :
              hash'[j][t] = IF j = conn[c].id /\ t = conn[c].sock THEN NoConn ELSE hash[j][t]
<1> USE DEF Structure
<1>1. c \in Conns /\ c \in heap
  BY DEF TypeOK, InUse
<1>2. conn[c] \in Connection
  BY <1>1 DEF TypeOK
<1>3. conn[c].sock \in Socks
  BY DEF Conservation, TypeOK
<1>4. conn[c].id \in Tables \cup {-1}
  BY <1>2 DEF Connection
<1>5. conn' = [conn EXCEPT ![c].sock = NoSock]
  BY DEF CloseConnection
<1>6. [conn[c] EXCEPT !.sock = NoSock] \in Connection
  BY <1>2 DEF Connection
<1>7. conn' \in [Conns -> Connection]
  BY <1>1, <1>5, <1>6 DEF TypeOK
<1>8. conn'[c].sock = NoSock
  BY <1>1, <1>2, <1>5 DEF TypeOK, Connection
<1>9. interest' \in [Socks -> {"none", "read", "write"}] /\ age' \in [Conns -> 0 .. AgeCap]
  BY <1>1, <1>3 DEF CloseConnection, TypeOK
<1>10. \A d \in Conns : d # c => conn'[d] = conn[d] /\ age'[d] = age[d]
  BY <1>1, <1>5 DEF CloseConnection, TypeOK
<1>11. InUse' = InUse \ {c}
  BY DEF CloseConnection, InUse
<1>12. hash' = IF conn[c].id \in Tables
                THEN [hash EXCEPT ![conn[c].id][conn[c].sock] = NoConn] ELSE hash
  BY DEF CloseConnection
<1>13. hash' \in [Tables -> [Socks -> Conns \cup {NoConn}]]
  BY <1>3, <1>12 DEF TypeOK
<1>14. \A j \in Tables, t \in Socks :
         hash'[j][t] = IF j = conn[c].id /\ t = conn[c].sock THEN NoConn ELSE hash[j][t]
  BY <1>3, <1>12 DEF TypeOK
<1> QED
  BY <1>1, <1>3, <1>4, <1>7, <1>8, <1>9, <1>10, <1>11, <1>13, <1>14

(* Closing a connection, the one in hand or one of a table, keeps the      *)
(* structure.                                                              *)
LEMMA CloseStructure ==
  ASSUME Structure, NEW c \in InUse, CloseConnection(c),
         cur \in {c, NoConn}, cur' = NoConn,
         pc' \in {"sweep", "cleanup"}, UNCHANGED <<sweepAge, pollAge>>
  PROVE  Structure'
<1> DEFINE s == conn[c].sock
           i == conn[c].id
<1>1. /\ s \in Socks /\ c \in Conns /\ c \in heap
      /\ conn' \in [Conns -> Connection]
      /\ hash' \in [Tables -> [Socks -> Conns \cup {NoConn}]]
      /\ interest' \in [Socks -> {"none", "read", "write"}]
      /\ age' \in [Conns -> 0 .. AgeCap]
      /\ InUse' = InUse \ {c}
      /\ conn'[c].sock = NoSock
      /\ \A d \in Conns : d # c => conn'[d] = conn[d] /\ age'[d] = age[d]
  BY CloseEffect
<1>2. \A j \in Tables, t \in Socks :
        hash'[j][t] = IF j = i /\ t = s THEN NoConn ELSE hash[j][t]
  BY CloseEffect
<1> HIDE DEF s, i
<1> USE DEF Structure
<1>3. TypeOK'
  BY <1>1 DEF TypeOK, CloseConnection, listenVars, ownerVars
<1>4. \A j \in Tables, t \in Socks : hash[j][t] = c => j = i /\ t = s
  BY <1>1 DEF EntriesLead, s, i
<1>5. ASSUME i \in Tables PROVE hash[i][s] \in {c, NoConn}
  <2>1. CASE hash[i][s] # NoConn
    <3>1. hash[i][s] \in InUse /\ conn[hash[i][s]].sock = s
      BY <1>1, <1>5, <2>1 DEF EntriesLead
    <3> QED
      BY <3>1 DEF Conservation, s
  <2> QED
    BY <2>1
<1>6. \A j \in Tables, t \in Socks :
        hash'[j][t] = IF hash[j][t] = c THEN NoConn ELSE hash[j][t]
  BY <1>1, <1>2, <1>4, <1>5
<1>7. Tracked' = Tracked \ {c}
  <2>1. \A d \in Conns : d # NoConn
    OBVIOUS
  <2> QED
    BY <1>6, <2>1 DEF Tracked
<1>8. InUse \subseteq Conns /\ \A j \in Tables, t \in Socks : hash[j][t] # NoConn => hash[j][t] \in Conns
  BY DEF TypeOK, InUse, EntriesLead
<1>9. EntriesLead'
  BY <1>1, <1>6, <1>8 DEF EntriesLead
<1>10. CallTracked'
  BY DEF CallTracked
<1>11. InUse' = Tracked' \cup ({cur'} \ {NoConn})
  BY <1>1, <1>7 DEF Conservation
<1>12. Conservation'
  <2>1. open' = open \ {s} /\ free' = free \cup {c}
    BY DEF CloseConnection, s
  <2>3. \A d \in Conns \ InUse' : conn'[d].sock = NoSock
    BY <1>1 DEF Conservation
  <2>4. \A d \in InUse' : conn'[d].sock \in open'
    BY <1>1, <1>8, <2>1 DEF Conservation, s
  <2>5. \A t \in open' : \E d \in InUse' : conn'[d].sock = t
    BY <1>1, <1>8, <2>1 DEF Conservation, s
  <2>6. \A d, e \in InUse' : conn'[d].sock = conn'[e].sock => d = e
    BY <1>1, <1>8 DEF Conservation
  <2> QED
    BY <1>11, <2>3, <2>4, <2>5, <2>6 DEF Conservation
<1>13. OldAges'
  <2>1. oldList' = oldList /\ oldList \in Tables
    BY DEF oldList, CloseConnection, TypeOK, Tables
  <2> QED
    BY <1>1, <1>6, <1>8, <2>1 DEF OldAges
<1> QED
  BY <1>3, <1>9, <1>10, <1>12, <1>13

(* AcceptConnection takes an object nobody uses for a descriptor nobody    *)
(* holds; the table it goes to, if any, had no entry for it.               *)
LEMMA TakeEffect ==
  ASSUME Structure, NEW r \in Roles, NEW c \in Conns, NEW s \in Socks,
         NEW i \in Tables \cup {-1}, TakeConnection(r, c, s, i)
  PROVE  /\ pc = "poll" /\ cur = NoConn
         /\ c \notin InUse /\ c \notin Tracked
         /\ heap' \subseteq Conns /\ free' \subseteq heap'
         /\ InUse' = InUse \cup {c}
         /\ conn' \in [Conns -> Connection]
         /\ age' \in [Conns -> 0 .. AgeCap]
         /\ conn'[c].sock = s /\ conn'[c].id = i
         /\ \A d \in Conns : d # c => conn'[d] = conn[d] /\ age'[d] = age[d]
         /\ \A j \in Tables : hash[j][s] = NoConn
<1> USE DEF Structure
<1>1. PICK g \in Growth : /\ c \in free \cup g
                          /\ heap' = heap \cup g
                          /\ free' = (free \cup g) \ {c}
  BY DEF TakeConnection
<1>2. g \subseteq Conns \ heap
  <2>1. CASE free # {}
    BY <2>1 DEF Growth
  <2>2. CASE free = {}
    BY <2>2 DEF Growth
  <2> QED
    BY <2>1, <2>2
<1>3. free \subseteq heap /\ heap \subseteq Conns
  BY DEF TypeOK
<1>4. c \notin InUse /\ InUse' = InUse \cup {c}
  BY <1>1, <1>2, <1>3 DEF InUse
<1>5. c \notin Tracked
  BY <1>4 DEF Conservation
<1>6. pc = "poll" /\ cur = NoConn
  BY DEF TakeConnection, Accepting, TypeOK
<1>7. conn[c] \in Connection
  BY DEF TypeOK
<1>8. FreshConnection(c, s, i) \in Connection
  BY <1>7 DEF FreshConnection, Connection
<1>9. FreshConnection(c, s, i).sock = s /\ FreshConnection(c, s, i).id = i
  BY <1>7 DEF FreshConnection, Connection
<1>10. conn' = [conn EXCEPT ![c] = FreshConnection(c, s, i)] /\ age' = [age EXCEPT ![c] = 0]
  BY DEF TakeConnection
<1> HIDE DEF FreshConnection
<1>11. /\ conn' \in [Conns -> Connection] /\ age' \in [Conns -> 0 .. AgeCap]
       /\ conn'[c].sock = s /\ conn'[c].id = i
       /\ \A d \in Conns : d # c => conn'[d] = conn[d] /\ age'[d] = age[d]
  BY <1>8, <1>9, <1>10 DEF TypeOK
<1>13. \A j \in Tables : hash[j][s] = NoConn
  BY DEF EntriesLead, Conservation, TakeConnection
<1> QED
  BY <1>1, <1>2, <1>3, <1>4, <1>5, <1>6, <1>11, <1>13

(* AcceptConnection, successful or undone, preserves Structure. *)
LEMMA AcceptStructure ==
  ASSUME Structure, NEW r \in Roles, NEW c \in Conns, NEW s \in Socks,
         AcceptSetupFails(r, c, s) \/ AcceptConnection(r, c, s)
  PROVE  Structure'
<1> USE DEF Structure
<1>1. newList \in Tables /\ newList' = newList /\ -1 \notin Tables
  BY DEF TypeOK, AcceptSetupFails, AcceptConnection, TakeConnection, Tables
<1>2. PICK i \in Tables \cup {-1} :
        /\ TakeConnection(r, c, s, i)
        /\ \/ hash' = hash /\ pc' = "close"
           \/ hash' = [hash EXCEPT ![newList][s] = c] /\ i = newList /\ pc' = "receive"
  <2>1. CASE AcceptSetupFails(r, c, s)
    BY <2>1 DEF AcceptSetupFails
  <2>2. CASE AcceptConnection(r, c, s)
    BY <1>1, <2>2 DEF AcceptConnection
  <2> QED
    BY <2>1, <2>2
<1>3. /\ pc = "poll" /\ cur = NoConn
      /\ c \notin InUse /\ c \notin Tracked
      /\ heap' \subseteq Conns /\ free' \subseteq heap'
      /\ InUse' = InUse \cup {c}
      /\ conn' \in [Conns -> Connection]
      /\ age' \in [Conns -> 0 .. AgeCap]
      /\ conn'[c].sock = s /\ conn'[c].id = i
      /\ \A d \in Conns : d # c => conn'[d] = conn[d] /\ age'[d] = age[d]
      /\ \A j \in Tables : hash[j][s] = NoConn
  BY <1>2, TakeEffect
<1>4. /\ s \notin open /\ open' = open \cup {s} /\ cur' = c
      /\ UNCHANGED <<newList, listenOn, listenFlag, sweepAge, pollAge, needToExit, pipe, owner>>
      /\ backlog' = backlog \ {r}
  BY <1>2 DEF TakeConnection, listenVars, ownerVars
<1>5. \/ hash' = hash /\ pc' = "close"
      \/ hash' = [hash EXCEPT ![newList][s] = c] /\ i = newList /\ pc' = "receive"
  BY <1>2
<1>6. interest' \in [Socks -> {"none", "read", "write"}]
  BY DEF AcceptSetupFails, AcceptConnection, TypeOK
<1>7. hash' \in [Tables -> [Socks -> Conns \cup {NoConn}]]
  BY <1>1, <1>5 DEF TypeOK
<1>8. TypeOK'
  BY <1>3, <1>4, <1>5, <1>6, <1>7 DEF TypeOK
<1>9. \A j \in Tables, t \in Socks :
        \/ hash'[j][t] = hash[j][t]
        \/ j = newList /\ i = newList /\ t = s /\ hash'[j][t] = c /\ pc' = "receive"
  BY <1>1, <1>5 DEF TypeOK
<1>10. \A d \in InUse : d \in Conns /\ d # c
  BY <1>3 DEF InUse, TypeOK
<1>11. EntriesLead'
  BY <1>3, <1>4, <1>9, <1>10 DEF EntriesLead
<1>12. Tracked' \cup {c} = Tracked \cup {c}
  BY <1>1, <1>3, <1>5 DEF Tracked, TypeOK
<1>13. pc' = "receive" => c \in Tracked'
  BY <1>1, <1>5 DEF Tracked, TypeOK
<1>14. CallTracked'
  BY <1>3, <1>4, <1>5, <1>13 DEF CallTracked
<1>15. Conservation'
  <2>1. InUse' = Tracked' \cup ({cur'} \ {NoConn})
    BY <1>3, <1>4, <1>12 DEF Conservation
  <2>2. \A d \in Conns \ InUse' : conn'[d].sock = NoSock
    BY <1>3 DEF Conservation
  <2>3. \A d \in InUse' : conn'[d].sock \in open'
    BY <1>3, <1>4, <1>10 DEF Conservation
  <2>4. \A t \in open' : \E d \in InUse' : conn'[d].sock = t
    BY <1>3, <1>4, <1>10 DEF Conservation
  <2>5. \A d, e \in InUse' : conn'[d].sock = conn'[e].sock => d = e
    BY <1>3, <1>4, <1>10 DEF Conservation
  <2> QED
    BY <2>1, <2>2, <2>3, <2>4, <2>5 DEF Conservation
<1>16. OldAges'
  <2>1. oldList' = oldList /\ oldList \in Tables /\ oldList # newList
    BY <1>1, <1>4 DEF oldList, Tables
  <2>2. \A t \in Socks : hash'[oldList][t] = hash[oldList][t]
    BY <1>9, <2>1
  <2>3. \A t \in Socks : hash[oldList][t] # NoConn => hash[oldList][t] \in InUse
    BY <2>1 DEF EntriesLead
  <2> QED
    BY <1>3, <1>4, <1>10, <2>1, <2>2, <2>3 DEF OldAges
<1> QED
  BY <1>8, <1>11, <1>14, <1>15, <1>16

(* The tables trade places when the old one is empty and the clock restarts. *)
LEMMA SwapStructure ==
  ASSUME Structure, SweepSwap
  PROVE  Structure'
<1> USE DEF Structure, SweepSwap
<1>1. oldList \in Tables
  BY DEF oldList, TypeOK, Tables
<1>2. TypeOK'
  BY <1>1 DEF TypeOK, poolVars, listenVars, ownerVars
<1>3. InUse' = InUse /\ Tracked' = Tracked
  BY DEF InUse, Tracked, poolVars
<1>4. EntriesLead' /\ CallTracked' /\ Conservation'
  BY <1>3 DEF EntriesLead, CallTracked, Conservation, poolVars
<1>5. OldAges'
  <2>1. oldList' \in Tables
    BY <1>1 DEF oldList, TypeOK, Tables
  <2>2. \A s \in Socks : hash[oldList'][s] # NoConn => hash[oldList'][s] \in Conns
    BY <2>1 DEF TypeOK
  <2> QED
    BY <2>1, <2>2 DEF OldAges, TypeOK
<1> QED
  BY <1>2, <1>4, <1>5

(* The passing of time preserves it. *)
LEMMA TickStructure ==
  ASSUME Structure, Tick
  PROVE  Structure'
<1> USE DEF Structure, Tick, Older
<1>1. TypeOK'
  BY DEF TypeOK, poolVars, tableVars, listenVars, ownerVars
<1>2. InUse' = InUse /\ Tracked' = Tracked /\ oldList' = oldList /\ oldList \in Tables
  BY DEF InUse, Tracked, oldList, poolVars, tableVars, TypeOK, Tables
<1>3. EntriesLead' /\ CallTracked' /\ Conservation'
  BY <1>2 DEF EntriesLead, CallTracked, Conservation, poolVars, tableVars
<1>4. OldAges'
  <2> SUFFICES ASSUME NEW s \in Socks, hash[oldList][s] # NoConn
               PROVE  age'[hash[oldList][s]] >= sweepAge'
    BY <1>2 DEF OldAges, tableVars
  <2> DEFINE c == hash[oldList][s]
  <2>1. c \in InUse /\ c \in Conns
    BY <1>2 DEF EntriesLead, InUse, TypeOK
  <2>2. age[c] >= sweepAge
    BY DEF OldAges
  <2>3. age'[c] = Older(age[c], AgeCap) /\ sweepAge' = Older(sweepAge, SweepTimeout)
    BY <2>1
  <2> QED
    BY <2>1, <2>2, <2>3 DEF TypeOK
<1> QED
  BY <1>1, <1>3, <1>4

(* The steps that touch neither a table, nor the pool, nor a connection. *)
LEMMA ControlStructure ==
  ASSUME Structure,
         UNCHANGED <<conn, heap, free, hash, newList, open, interest, age, sweepAge>>,
         listenOn' \subseteq Roles, listenFlag' \in BOOLEAN, backlog' \subseteq Roles,
         pollAge' \in 0 .. SweepTimeout, needToExit' \in BOOLEAN, pipe' \in BOOLEAN,
         owner' \in {"running", "flagged", "joining", "joined"},
         \/ UNCHANGED <<pc, cur>>
         \/ UNCHANGED cur /\ cur = NoConn /\ pc' \in {"top", "poll", "sweep", "cleanup", "exited"}
         \/ cur \in Tracked /\ cur' = NoConn /\ pc' = "sweep"
         \/ cur \in Tracked /\ cur' = cur /\ pc' = "close"
         \/ cur = NoConn /\ cur' \in Tracked /\ pc' \in {"receive", "write"}
  PROVE  Structure'
<1> USE DEF Structure
<1>1. Tracked \subseteq Conns
  BY DEF Tracked
<1>2. TypeOK'
  BY <1>1 DEF TypeOK
<1>3. pc' \in {"receive", "write"} => cur' \in Tracked
  BY DEF CallTracked
<1>4. cur' = cur \/ (cur \in Tracked \cup {NoConn} /\ cur' \in Tracked \cup {NoConn})
  OBVIOUS
<1> QED
  BY <1>2, <1>3, <1>4, SameTables

(* The steps of the connection in hand that change its state. *)
LEMMA UpdateStructure ==
  ASSUME Structure, cur \in Tracked, NEW k \in Connection, Update(k),
         k.sock = conn[cur].sock, k.id = conn[cur].id,
         UNCHANGED <<heap, free, hash, newList, open, listenVars, timeVars, ownerVars, backlog>>,
         interest' \in [Socks -> {"none", "read", "write"}],
         \/ UNCHANGED <<pc, cur>>
         \/ cur' = cur /\ pc' \in {"receive", "write", "close"}
         \/ cur' = NoConn /\ pc' = "sweep"
  PROVE  Structure'
<1> USE DEF Structure
<1>1. cur \in Conns /\ cur # NoConn
  BY DEF Tracked
<1>2. conn' \in [Conns -> Connection]
  BY <1>1 DEF Update, TypeOK
<1>3. \A c \in Conns : conn'[c].sock = conn[c].sock /\ conn'[c].id = conn[c].id
  BY <1>1 DEF Update, TypeOK
<1>4. TypeOK'
  BY <1>1, <1>2 DEF TypeOK, listenVars, timeVars, ownerVars
<1>5. UNCHANGED <<heap, free, hash, newList, open, age, sweepAge>>
  BY DEF timeVars
<1>6. /\ cur' = cur \/ (cur \in Tracked \cup {NoConn} /\ cur' \in Tracked \cup {NoConn})
      /\ pc' \in {"receive", "write"} => cur' \in Tracked
  OBVIOUS
<1> QED
  BY <1>3, <1>4, <1>5, <1>6, SameTables

(* So do the steps of Run's loop that only move control. *)
LEMMA LoopStructure ==
  ASSUME Structure,
         \/ LoopTop \/ LoopExit \/ PollTimeout \/ PollExit \/ SweepNotDue \/ ThreadExit
         \/ \E s \in Socks : Dispatch(s) \/ DispatchUnknown(s)
         \/ \E r \in Roles : AcceptFails(r) \/ AcceptRefused(r) \/ ClientConnects(r)
         \/ Stop
  PROVE  Structure'
<1> USE DEF Structure, poolVars, tableVars, listenVars, timeVars, ownerVars
<1>1. CASE LoopTop
  <2>1. listenOn' \subseteq Roles /\ listenFlag' \in BOOLEAN
    BY <1>1 DEF LoopTop, SetListenSocketsOnEpoll, SetListenSocketsFails,
                IsConnectionCountAtMax, TypeOK
  <2>2. /\ pc = "top" /\ pc' = "poll" /\ pollAge' = 0
        /\ UNCHANGED <<cur, conn, poolVars, tableVars, sweepAge, age, ownerVars, backlog>>
    BY <1>1 DEF LoopTop
  <2> QED
    BY <2>1, <2>2, ControlStructure DEF TypeOK
<1>2. CASE LoopExit
  BY <1>2, ControlStructure DEF LoopExit, TypeOK
<1>3. CASE PollTimeout
  BY <1>3, ControlStructure DEF PollTimeout, TypeOK
<1>4. CASE PollExit
  BY <1>4, ControlStructure DEF PollExit, TypeOK
<1>5. CASE SweepNotDue
  BY <1>5, ControlStructure DEF SweepNotDue, TypeOK
<1>6. CASE ThreadExit
  BY <1>6, ControlStructure DEF ThreadExit, TypeOK
<1>7. ASSUME NEW s \in Socks, Dispatch(s) PROVE Structure'
  <2>1. newList \in Tables /\ oldList \in Tables
    BY DEF TypeOK, oldList, Tables
  <2>2. Lookup(s) # NoConn => Lookup(s) \in Tracked
    BY <2>1 DEF Lookup, Tracked, TypeOK
  <2>3. cur' \in Tracked /\ cur' = Lookup(s)
    BY <1>7, <2>2 DEF Dispatch, Served
  <2>4. conn[cur'] \in Connection /\ conn[cur'].state # "idle"
    BY <1>7, <2>3 DEF Dispatch, Served, TypeOK, Tracked
  <2>5. conn[cur'].state \in {"receiving", "transmitting"}
    BY <2>4 DEF Connection
  <2>6. pc' \in {"receive", "write"}
    BY <1>7, <2>3, <2>5 DEF Dispatch, Handler
  <2>7. pc = "poll" /\ UNCHANGED <<conn, poolVars, tableVars, listenVars, timeVars, ownerVars, backlog>>
    BY <1>7 DEF Dispatch
  <2>8. cur = NoConn
    BY <2>7 DEF TypeOK
  <2> QED
    BY <2>3, <2>6, <2>7, <2>8, ControlStructure DEF TypeOK
<1>8. ASSUME NEW s \in Socks, DispatchUnknown(s) PROVE Structure'
  BY <1>8, ControlStructure DEF DispatchUnknown, TypeOK
<1>9. ASSUME NEW r \in Roles, AcceptFails(r) PROVE Structure'
  BY <1>9, ControlStructure DEF AcceptFails, Accepting, TypeOK
<1>10. ASSUME NEW r \in Roles, AcceptRefused(r) PROVE Structure'
  BY <1>10, ControlStructure DEF AcceptRefused, Accepting, TypeOK
<1>11. ASSUME NEW r \in Roles, ClientConnects(r) PROVE Structure'
  BY <1>11, ControlStructure DEF ClientConnects, TypeOK
<1>12. CASE Stop
  BY <1>12, ControlStructure DEF Stop, StopFlag, StopNotify, StopJoin, TypeOK
<1> QED
  BY <1>1, <1>2, <1>3, <1>4, <1>5, <1>6, <1>7, <1>8, <1>9, <1>10, <1>11, <1>12

(* So does each outcome of ReceiveBytesForConnection. *)
LEMMA ReceiveStructure ==
  ASSUME Structure, Receive
  PROVE  Structure'
<1> USE DEF Structure, poolVars, tableVars
<1>1. pc = "receive" /\ cur \in Tracked /\ cur \in Conns /\ cur # NoConn
  BY DEF Receive, Receiving, RecvWouldBlock, RecvFails, RecvBytes, RequestRefused,
         RequestServed, CallTracked, Tracked
<1>2. conn[cur] \in Connection
  BY <1>1 DEF TypeOK
<1>3. CASE RecvWouldBlock
  BY <1>1, <1>3, ControlStructure
     DEF RecvWouldBlock, Return, TypeOK, listenVars, timeVars, ownerVars
<1>4. CASE RecvFails
  BY <1>1, <1>4, ControlStructure DEF RecvFails, Fail, TypeOK, listenVars, timeVars, ownerVars
<1>5. ASSUME NEW reader \in {"partial", "error"}, RecvBytes(reader) PROVE Structure'
  <2> DEFINE k == [conn[cur] EXCEPT !.reader = reader]
  <2>1. k \in Connection /\ k.sock = conn[cur].sock /\ k.id = conn[cur].id
    BY <1>2, <1>5 DEF Connection
  <2>2. Update(k)
    BY <1>5 DEF RecvBytes
  <2> HIDE DEF k
  <2>3. interest' \in [Socks -> {"none", "read", "write"}]
    BY <1>5 DEF RecvBytes, TypeOK
  <2> QED
    BY <1>1, <1>5, <2>1, <2>2, <2>3, UpdateStructure DEF RecvBytes, Fail
<1>6. CASE RequestRefused
  <2> DEFINE k == [conn[cur] EXCEPT !.reader = "validated"]
  <2>1. k \in Connection /\ k.sock = conn[cur].sock /\ k.id = conn[cur].id
    BY <1>2 DEF Connection
  <2>2. Update(k)
    BY <1>6 DEF RequestRefused
  <2> HIDE DEF k
  <2>3. interest' \in [Socks -> {"none", "read", "write"}]
    BY <1>6 DEF RequestRefused, TypeOK
  <2> QED
    BY <1>1, <1>6, <2>1, <2>2, <2>3, UpdateStructure DEF RequestRefused, Fail
<1>7. ASSUME NEW n \in Sizes, RequestServed(n) PROVE Structure'
  <2> DEFINE k == [conn[cur] EXCEPT !.reader = "validated", !.state = "transmitting", !.size = n]
  <2>1. n \in Nat
    OBVIOUS
  <2>2. k \in Connection /\ k.sock = conn[cur].sock /\ k.id = conn[cur].id
    BY <1>2, <2>1 DEF Connection
  <2>3. Update(k)
    BY <1>7 DEF RequestServed
  <2> HIDE DEF k
  <2>4. interest' \in [Socks -> {"none", "read", "write"}]
    BY <1>7 DEF RequestServed, SetInterest, TypeOK
  <2>5. \/ cur' = cur /\ pc' = "write"
        \/ cur' = cur /\ pc' = "close"
    BY <1>7 DEF RequestServed, Fail
  <2>6. UNCHANGED <<heap, free, hash, newList, open, listenVars, timeVars, ownerVars, backlog>>
    BY <1>7 DEF RequestServed
  <2> QED
    BY <1>1, <2>2, <2>3, <2>4, <2>5, <2>6, UpdateStructure
<1> QED
  BY <1>3, <1>4, <1>5, <1>6, <1>7 DEF Receive

(* So does each outcome of WriteBytesForConnection. *)
LEMMA WriteStructure ==
  ASSUME Structure, Write
  PROVE  Structure'
<1> USE DEF Structure, poolVars, tableVars
<1>1. pc = "write" /\ cur \in Tracked /\ cur \in Conns /\ cur # NoConn
  BY DEF Write, Transmitting, SendWouldBlock, SendFails, SendPart, SendLast,
         CallTracked, Tracked
<1>2. conn[cur] \in Connection
  BY <1>1 DEF TypeOK
<1>3. CASE SendWouldBlock
  BY <1>1, <1>3, ControlStructure
     DEF SendWouldBlock, Return, TypeOK, listenVars, timeVars, ownerVars
<1>4. CASE SendFails
  BY <1>1, <1>4, ControlStructure DEF SendFails, Fail, TypeOK, listenVars, timeVars, ownerVars
<1>5. CASE SendPart
  <2>1. PICK n \in 1 .. conn[cur].size - conn[cur].tx - 1 :
               Update([conn[cur] EXCEPT !.tx = @ + n])
    BY <1>5 DEF SendPart
  <2> DEFINE k == [conn[cur] EXCEPT !.tx = @ + n]
  <2>2. conn[cur].tx + n \in Nat
    BY <1>2 DEF Connection
  <2>3. k = [conn[cur] EXCEPT !.tx = conn[cur].tx + n]
    BY <1>2 DEF Connection
  <2>4. k \in Connection /\ k.sock = conn[cur].sock /\ k.id = conn[cur].id
    BY <1>2, <2>2, <2>3 DEF Connection
  <2>5. Update(k)
    BY <2>1
  <2> HIDE DEF k
  <2>6. interest' \in [Socks -> {"none", "read", "write"}]
    BY <1>5 DEF SendPart, TypeOK
  <2> QED
    BY <1>1, <1>5, <2>4, <2>5, <2>6, UpdateStructure DEF SendPart
<1>6. CASE SendLast
  <2> DEFINE k == ResetConnection(conn[cur])
  <2>1. k \in Connection /\ k.sock = conn[cur].sock /\ k.id = conn[cur].id
    BY <1>2 DEF Connection, ResetConnection
  <2>2. Update(k)
    BY <1>6 DEF SendLast
  <2> HIDE DEF k
  <2>3. interest' \in [Socks -> {"none", "read", "write"}]
    BY <1>6 DEF SendLast, SetInterest, TypeOK
  <2>4. \/ cur' = NoConn /\ pc' = "sweep"
        \/ cur' = cur /\ pc' = "close"
    BY <1>6 DEF SendLast, Return, Fail
  <2>5. UNCHANGED <<heap, free, hash, newList, open, listenVars, timeVars, ownerVars, backlog>>
    BY <1>6 DEF SendLast
  <2> QED
    BY <1>1, <2>1, <2>2, <2>3, <2>4, <2>5, UpdateStructure
<1> QED
  BY <1>3, <1>4, <1>5, <1>6 DEF Write

(* So does every close: of a failed call, a sweep, the end. *)
LEMMA ClosingStructure ==
  ASSUME Structure,
         Close \/ \E c \in Conns : SweepClose(c) \/ CleanupClose(c)
  PROVE  Structure'
<1> USE DEF Structure
<1>1. CASE Close
  BY <1>1, CloseStructure DEF Close, Return, CallTracked, TypeOK
<1>2. ASSUME NEW c \in Conns, SweepClose(c) \/ CleanupClose(c) PROVE Structure'
  <2>1. oldList \in Tables /\ newList \in Tables
    BY DEF oldList, TypeOK, Tables
  <2>2. c \in Tracked
    BY <1>2, <2>1 DEF SweepClose, CleanupClose, Tracked
  <2>3. c \in InUse
    BY <2>2 DEF Conservation
  <2>4. cur = NoConn /\ cur' = cur /\ pc' \in {"sweep", "cleanup"}
    BY <1>2 DEF SweepClose, CleanupClose, TypeOK
  <2>5. CloseConnection(c) /\ UNCHANGED <<sweepAge, pollAge>>
    BY <1>2 DEF SweepClose, CleanupClose
  <2> QED
    BY <2>3, <2>4, <2>5, CloseStructure
<1> QED
  BY <1>1, <1>2

(* Every step of the thread, its clients and its owner preserves it. *)
LEMMA NextStructure == Structure /\ [Next]_vars => Structure'
<1> SUFFICES ASSUME Structure, [Next]_vars PROVE Structure'
  OBVIOUS
<1>1. CASE UNCHANGED vars
  BY <1>1, ControlStructure
     DEF vars, Structure, TypeOK, poolVars, tableVars, listenVars, timeVars, ownerVars
<1>2. ASSUME NEW r \in Roles, Accept(r) PROVE Structure'
  BY <1>2, AcceptStructure, LoopStructure DEF Accept
<1>3. CASE Thread
  BY <1>3, LoopStructure, ReceiveStructure, WriteStructure, ClosingStructure, SwapStructure
     DEF Thread, Sweep, Cleanup
<1> QED
  BY <1>1, <1>2, <1>3, LoopStructure, TickStructure DEF Next, Step

-----------------------------------------------------------------------------
(* The structure holds in every behaviour, whatever calls fail. *)
THEOREM StructureCorrect == Spec => []Structure
<1> QED
  BY InitStructure, NextStructure, PTL DEF Spec

(* Every variable keeps its type and the thread works on a connection      *)
(* exactly while a call of ReceiveBytesForConnection,                      *)
(* WriteBytesForConnection or CloseConnection is in progress.              *)
THEOREM TypeCorrect == Spec => []TypeOK
<1>1. Structure => TypeOK
  BY DEF Structure
<1> QED
  BY <1>1, StructureCorrect, PTL

(* Accepting, serving, sweeping and stopping lose or share no connection   *)
(* object and no descriptor.                                               *)
THEOREM ConservationCorrect == Spec => []Conservation
<1>1. Structure => Conservation
  BY DEF Structure
<1> QED
  BY <1>1, StructureCorrect, PTL

(* SweepDeadConnections closes no connection younger than the timeout. *)
THEOREM SweepGraceCorrect == Spec => SweepGrace
<1>1. Structure => [\A c \in Conns : SweepClose(c) => age[c] >= SweepTimeout]_vars
  <2> SUFFICES ASSUME Structure, NEW c \in Conns, SweepClose(c)
               PROVE  age[c] >= SweepTimeout
    OBVIOUS
  <2>1. PICK s \in Socks : hash[oldList][s] = c
    BY DEF SweepClose
  <2>2. age[c] >= sweepAge
    BY <2>1 DEF Structure, OldAges
  <2>3. sweepAge >= SweepTimeout
    BY DEF SweepClose, SweepDue
  <2>4. age[c] \in Int /\ sweepAge \in Int
    BY DEF Structure, TypeOK
  <2> QED
    BY <2>2, <2>3, <2>4
<1> QED
  BY <1>1, StructureCorrect, PTL DEF SweepGrace

-----------------------------------------------------------------------------
(***************************************************************************)
(* The second part: every tracked connection can be served.  Only the one  *)
(* that is about to be closed need not be.                                 *)
(***************************************************************************)

ReceiveReady(c) ==
  /\ conn[c].state = "receiving"
  /\ conn[c].reader \in {"empty", "partial"}
  /\ conn[c].tx = 0
  /\ interest[conn[c].sock] = "read"

TransmitReady(c) ==
  /\ conn[c].state = "transmitting"
  /\ conn[c].reader = "validated"
  /\ conn[c].tx < conn[c].size
  /\ interest[conn[c].sock] = "write"

Closing(c) == pc = "close" /\ c = cur

AllReady == \A c \in Tracked : ~Closing(c) => ReceiveReady(c) \/ TransmitReady(c)

(* The call in progress is the one for the state of its connection. *)
CallMatchesState ==
  /\ pc = "receive" => conn[cur].state = "receiving"
  /\ pc = "write" => conn[cur].state = "transmitting"

(* Nothing is known of a closed descriptor; an ended thread tracks nothing. *)
NothingStale ==
  /\ \A s \in Socks \ open : interest[s] = "none"
  /\ pc = "exited" => Tracked = {}

(* The inductive invariant of this part, together with Structure. *)
Serving == AllReady /\ CallMatchesState /\ NothingStale

(* It holds before the thread starts. *)
LEMMA InitServing == Init => Serving
<1> SUFFICES ASSUME Init PROVE Serving
  OBVIOUS
<1>1. Tracked = {}
  BY DEF Init, Tracked, Tables
<1> QED
  BY <1>1 DEF Init, Serving, AllReady, CallMatchesState, NothingStale

(* What is tracked is in use; nobody shares a descriptor. *)
LEMMA TrackedFacts ==
  ASSUME Structure
  PROVE  /\ Tracked \subseteq InUse /\ InUse \subseteq Conns
         /\ \A c \in InUse : conn[c].sock \in open
         /\ \A c, d \in InUse : conn[c].sock = conn[d].sock => c = d
BY DEF Structure, TypeOK, Conservation, InUse

(* Steps that change no connection, no entry and no event set. *)
LEMMA QuietServing ==
  ASSUME Structure, Serving,
         UNCHANGED <<conn, hash, open, interest>>,
         pc = "close" => UNCHANGED <<pc, cur>>,
         pc' = "receive" => conn[cur'].state = "receiving",
         pc' = "write" => conn[cur'].state = "transmitting",
         pc' = "exited" => Tracked = {}
  PROVE  Serving'
<1> USE DEF Serving
<1>1. Tracked' = Tracked
  BY DEF Tracked
<1>2. \A c \in Conns :
        ReceiveReady(c)' = ReceiveReady(c) /\ TransmitReady(c)' = TransmitReady(c)
  BY DEF ReceiveReady, TransmitReady
<1>3. AllReady'
  BY <1>1, <1>2, TrackedFacts DEF AllReady, Closing
<1> QED
  BY <1>1, <1>3 DEF CallMatchesState, NothingStale

(* Steps that give the connection in hand new fields, and perhaps another  *)
(* event set; the others keep theirs.                                      *)
LEMMA UpdateServing ==
  ASSUME Structure, Serving, pc \in {"receive", "write"},
         NEW c \in Conns, c = cur, NEW k \in Connection, k.sock = conn[c].sock,
         conn' = [conn EXCEPT ![c] = k], UNCHANGED <<hash, open>>,
         UNCHANGED interest \/ \E e \in {"read", "write"} : SetInterest(e),
         \/ pc' = "close" /\ cur' = c
         \/ /\ ReceiveReady(c)' \/ TransmitReady(c)'
            /\ \/ pc' = "receive" /\ cur' = c /\ k.state = "receiving"
               \/ pc' = "write" /\ cur' = c /\ k.state = "transmitting"
               \/ pc' = "sweep"
  PROVE  Serving'
<1> USE DEF Serving
<1>1. c \in InUse /\ Tracked' = Tracked
  BY DEF Structure, CallTracked, Tracked
<1>2. conn'[c] = k /\ \A d \in Conns \ {c} : conn'[d] = conn[d]
  BY DEF Structure, TypeOK
<1>3. \A s \in Socks \ {conn[c].sock} : interest'[s] = interest[s]
  BY DEF SetInterest, Structure, TypeOK
<1>4. ASSUME NEW d \in Tracked, d # c
      PROVE  ReceiveReady(d)' = ReceiveReady(d) /\ TransmitReady(d)' = TransmitReady(d)
  <2>1. d \in Conns /\ conn[d].sock \in Socks /\ conn[d].sock # conn[c].sock
    BY <1>1, <1>4, TrackedFacts DEF Structure, TypeOK
  <2> QED
    BY <1>2, <1>3, <1>4, <2>1 DEF ReceiveReady, TransmitReady
<1>5. AllReady'
  BY <1>1, <1>4 DEF AllReady, Closing
<1>6. CallMatchesState'
  BY <1>2 DEF CallMatchesState
<1>7. NothingStale'
  BY <1>1, <1>3, TrackedFacts DEF NothingStale
<1> QED
  BY <1>5, <1>6, <1>7

(* A call that failed leaves its connection to CloseConnection. *)
LEMMA ServeServing == ASSUME Structure, Serving, Receive \/ Write PROVE Serving'
<1> USE DEF Structure, Serving
<1> PICK c \in Conns : c = cur
  BY DEF Receive, Write, RecvWouldBlock, RecvFails, RecvBytes, RequestRefused, RequestServed,
         SendWouldBlock, SendFails, SendPart, SendLast, Receiving, Transmitting, TypeOK
<1>1. c \in Tracked /\ conn[c] \in Connection /\ conn[c].sock \in Socks
  <2>1. pc \in {"receive", "write"}
    BY DEF Receive, Write, RecvWouldBlock, RecvFails, RecvBytes, RequestRefused, RequestServed,
           SendWouldBlock, SendFails, SendPart, SendLast, Receiving, Transmitting
  <2>2. c \in Tracked
    BY <2>1 DEF CallTracked
  <2> QED
    BY <2>2, TrackedFacts DEF TypeOK
<1>2. CASE RecvWouldBlock \/ RecvFails \/ SendWouldBlock \/ SendFails
  BY <1>2, QuietServing
     DEF RecvWouldBlock, RecvFails, SendWouldBlock, SendFails, Receiving, Transmitting,
         Return, Fail, tableVars
<1>3. ASSUME NEW reader \in {"partial", "error"}, RecvBytes(reader) PROVE Serving'
  <2> DEFINE k == [conn[c] EXCEPT !.reader = reader]
  <2>1. /\ k \in Connection /\ k.sock = conn[c].sock /\ k.state = conn[c].state
        /\ k.reader = reader /\ k.tx = conn[c].tx
    BY <1>1 DEF Connection
  <2>2. pc = "receive" /\ conn' = [conn EXCEPT ![c] = k] /\ UNCHANGED <<hash, open, interest>>
    BY <1>3 DEF RecvBytes, Receiving, Update, tableVars
  <2> HIDE DEF k
  <2>3. CASE reader = "error"
    <3>1. pc' = "close" /\ cur' = c
      BY <1>3, <2>3 DEF RecvBytes, Fail
    <3> QED
      BY <2>1, <2>2, <3>1, UpdateServing
  <2>4. CASE reader = "partial"
    <3>1. pc' = pc /\ cur' = c
      BY <1>3, <2>4 DEF RecvBytes
    <3>2. ReceiveReady(c)
      BY <1>1, <2>2 DEF AllReady, Closing, CallMatchesState, ReceiveReady, TransmitReady
    <3>3. conn'[c] = k
      BY <2>2 DEF TypeOK
    <3>4. ReceiveReady(c)'
      BY <2>1, <2>2, <2>4, <3>2, <3>3 DEF ReceiveReady
    <3> QED
      BY <2>1, <2>2, <3>1, <3>2, <3>4, UpdateServing DEF ReceiveReady
  <2> QED
    BY <2>3, <2>4
<1>4. CASE RequestRefused
  <2> DEFINE k == [conn[c] EXCEPT !.reader = "validated"]
  <2>1. k \in Connection /\ k.sock = conn[c].sock
    BY <1>1 DEF Connection
  <2>2. /\ pc = "receive" /\ conn' = [conn EXCEPT ![c] = k]
        /\ UNCHANGED <<hash, open, interest>> /\ pc' = "close" /\ cur' = c
    BY <1>4 DEF RequestRefused, Receiving, Update, Fail, tableVars
  <2> HIDE DEF k
  <2> QED
    BY <2>1, <2>2, UpdateServing
<1>5. ASSUME NEW n \in Sizes, RequestServed(n) PROVE Serving'
  <2> DEFINE k == [conn[c] EXCEPT !.reader = "validated", !.state = "transmitting", !.size = n]
  <2>1. /\ k \in Connection /\ k.sock = conn[c].sock /\ k.state = "transmitting"
        /\ k.reader = "validated" /\ k.tx = conn[c].tx /\ k.size = n
    BY <1>1 DEF Connection
  <2>2. pc = "receive" /\ conn' = [conn EXCEPT ![c] = k] /\ UNCHANGED <<hash, open>>
    BY <1>5 DEF RequestServed, Receiving, Update
  <2>3. conn'[c] = k
    BY <2>2 DEF TypeOK
  <2> HIDE DEF k
  <2>4. CASE SetInterest("write") /\ pc' = "write" /\ UNCHANGED cur
    <3>1. interest'[conn[c].sock] = "write"
      BY <1>1, <2>4 DEF SetInterest, TypeOK
    <3>2. ReceiveReady(c)
      BY <1>1, <2>2 DEF AllReady, Closing, CallMatchesState, ReceiveReady, TransmitReady
    <3>3. TransmitReady(c)'
      BY <2>1, <2>3, <3>1, <3>2 DEF TransmitReady, ReceiveReady
    <3> QED
      BY <2>1, <2>2, <2>4, <3>3, UpdateServing
  <2>5. CASE UNCHANGED interest /\ Fail
    BY <2>1, <2>2, <2>5, UpdateServing DEF Fail
  <2> QED
    BY <1>5, <2>4, <2>5 DEF RequestServed
<1>6. CASE SendPart
  <2>1. PICK n \in 1 .. conn[cur].size - conn[cur].tx - 1 :
          Update([conn[cur] EXCEPT !.tx = @ + n])
    BY <1>6 DEF SendPart
  <2> DEFINE k == [conn[c] EXCEPT !.tx = @ + n]
  <2>2. /\ k \in Connection /\ k.sock = conn[c].sock /\ k.state = conn[c].state
        /\ k.reader = conn[c].reader /\ k.size = conn[c].size /\ k.tx < k.size
    BY <1>1 DEF Connection
  <2>3. /\ pc = "write" /\ conn' = [conn EXCEPT ![c] = k]
        /\ UNCHANGED <<hash, open, interest, pc, cur>>
    BY <1>6, <2>1 DEF SendPart, Transmitting, Update, tableVars
  <2>4. conn'[c] = k
    BY <2>3 DEF TypeOK
  <2> HIDE DEF k
  <2>5. TransmitReady(c)
    BY <1>1, <2>3 DEF AllReady, Closing, CallMatchesState, ReceiveReady, TransmitReady
  <2>6. TransmitReady(c)'
    BY <2>2, <2>3, <2>4, <2>5 DEF TransmitReady
  <2> QED
    BY <2>2, <2>3, <2>5, <2>6, UpdateServing DEF TransmitReady
<1>7. CASE SendLast
  <2> DEFINE k == ResetConnection(conn[c])
  <2>1. /\ k \in Connection /\ k.sock = conn[c].sock /\ k.state = "receiving"
        /\ k.reader = "empty" /\ k.tx = 0
    BY <1>1 DEF Connection, ResetConnection
  <2>2. pc = "write" /\ conn' = [conn EXCEPT ![c] = k] /\ UNCHANGED <<hash, open>>
    BY <1>7 DEF SendLast, Transmitting, Update
  <2>3. conn'[c] = k
    BY <2>2 DEF TypeOK
  <2> HIDE DEF k
  <2>4. CASE SetInterest("read") /\ Return
    <3>1. interest'[conn[c].sock] = "read"
      BY <1>1, <2>4 DEF SetInterest, TypeOK
    <3>2. ReceiveReady(c)'
      BY <2>1, <2>3, <3>1 DEF ReceiveReady
    <3> QED
      BY <2>1, <2>2, <2>4, <3>2, UpdateServing DEF Return
  <2>5. CASE UNCHANGED interest /\ Fail
    BY <2>1, <2>2, <2>5, UpdateServing DEF Fail
  <2> QED
    BY <1>7, <2>4, <2>5 DEF SendLast
<1> QED
  BY <1>2, <1>3, <1>4, <1>5, <1>6, <1>7 DEF Receive, Write

(* CloseConnection takes a connection away and leaves the others ready. *)
LEMMA CloseServing ==
  ASSUME Structure, Structure', Serving, NEW c \in InUse, CloseConnection(c),
         cur \in {c, NoConn}, cur' = NoConn, pc' \in {"sweep", "cleanup"}
  PROVE  Serving'
<1> USE DEF Serving
<1>1. /\ conn[c].sock \in Socks /\ c \in Conns
      /\ InUse' = InUse \ {c}
      /\ \A d \in Conns : d # c => conn'[d] = conn[d]
      /\ \A j \in Tables, t \in Socks :
           hash'[j][t] = IF j = conn[c].id /\ t = conn[c].sock THEN NoConn ELSE hash[j][t]
  BY CloseEffect
<1>2. interest' = [interest EXCEPT ![conn[c].sock] = "none"] /\ open' = open \ {conn[c].sock}
  BY DEF CloseConnection
<1>3. Tracked' \subseteq Tracked \ {c}
  <2>1. Tracked' \subseteq InUse'
    BY DEF Structure, Conservation
  <2>2. Tracked' \subseteq Tracked
    <3> SUFFICES ASSUME NEW d \in Conns, NEW j \in Tables, NEW t \in Socks, hash'[j][t] = d
                 PROVE  hash[j][t] = d
      BY DEF Tracked
    <3> QED
      BY <1>1
  <2> QED
    BY <1>1, <2>1, <2>2
<1>4. ASSUME NEW d \in Tracked, d # c
      PROVE  ReceiveReady(d)' = ReceiveReady(d) /\ TransmitReady(d)' = TransmitReady(d)
  <2>1. d \in Conns /\ conn[d].sock # conn[c].sock /\ conn[d].sock \in Socks
    BY <1>4, TrackedFacts DEF Structure, TypeOK
  <2> QED
    BY <1>1, <1>2, <1>4, <2>1 DEF ReceiveReady, TransmitReady, Structure, TypeOK
<1>5. AllReady'
  <2> SUFFICES ASSUME NEW d \in Tracked'
               PROVE  (ReceiveReady(d) \/ TransmitReady(d))'
    BY DEF AllReady
  <2>1. d \in Tracked /\ d # c /\ d \in Conns
    BY <1>3 DEF Tracked
  <2> QED
    BY <1>4, <2>1 DEF AllReady, Closing
<1>6. NothingStale'
  BY <1>1, <1>2 DEF NothingStale, Structure, TypeOK
<1> QED
  BY <1>5, <1>6 DEF CallMatchesState

(* A connection that was accepted is ready to receive. *)
LEMMA AcceptServing ==
  ASSUME Structure, Serving, NEW r \in Roles, NEW c \in Conns, NEW s \in Socks,
         AcceptSetupFails(r, c, s) \/ AcceptConnection(r, c, s)
  PROVE  Serving'
<1> USE DEF Serving
<1>1. PICK i \in Tables \cup {-1} :
        /\ TakeConnection(r, c, s, i)
        /\ \/ hash' = hash /\ pc' = "close"
           \/ hash' = [hash EXCEPT ![newList][s] = c] /\ pc' = "receive"
              /\ interest' = [interest EXCEPT ![s] = "read"]
  <2>1. newList \in Tables
    BY DEF Structure, TypeOK
  <2> QED
    BY <2>1 DEF AcceptSetupFails, AcceptConnection
<1>2. /\ pc = "poll" /\ c \notin Tracked
      /\ \A d \in Conns : d # c => conn'[d] = conn[d]
  BY <1>1, TakeEffect
<1>3. s \notin open /\ open' = open \cup {s} /\ cur' = c
  BY <1>1 DEF TakeConnection
<1>4. interest' = interest \/ interest' = [interest EXCEPT ![s] = "read"]
  BY DEF AcceptSetupFails, AcceptConnection
<1>5. Tracked' \subseteq Tracked \cup {c}
  <2>1. CASE hash' = hash
    BY <2>1 DEF Tracked
  <2>2. CASE hash' = [hash EXCEPT ![newList][s] = c]
    BY <2>2 DEF Tracked, Structure, TypeOK
  <2> QED
    BY <1>1, <2>1, <2>2
<1>6. ASSUME NEW d \in Tracked, d # c
      PROVE  ReceiveReady(d)' = ReceiveReady(d) /\ TransmitReady(d)' = TransmitReady(d)
  <2>1. d \in Conns /\ conn[d].sock # s /\ conn[d].sock \in Socks
    BY <1>3, TrackedFacts DEF Structure, TypeOK
  <2> QED
    BY <1>2, <1>4, <1>6, <2>1 DEF ReceiveReady, TransmitReady, Structure, TypeOK
<1>7. conn'[c].state = "receiving" /\ conn'[c].reader = "empty" /\ conn'[c].tx = 0 /\ conn'[c].sock = s
  <2>1. conn[c] \in Connection
    BY DEF Structure, TypeOK
  <2>2. conn' = [conn EXCEPT ![c] = FreshConnection(c, s, i)]
    BY <1>1 DEF TakeConnection
  <2> QED
    BY <2>1, <2>2 DEF FreshConnection, Connection, Structure, TypeOK
<1>8. pc' = "receive" => ReceiveReady(c)'
  BY <1>1, <1>7 DEF ReceiveReady, Structure, TypeOK
<1>9. AllReady'
  <2> SUFFICES ASSUME NEW d \in Tracked', ~Closing(d)'
               PROVE  (ReceiveReady(d) \/ TransmitReady(d))'
    BY DEF AllReady
  <2>1. CASE d = c
    BY <1>1, <1>3, <1>8, <2>1 DEF Closing
  <2>2. CASE d # c
    BY <1>2, <1>5, <1>6, <2>2 DEF AllReady, Closing
  <2> QED
    BY <2>1, <2>2
<1>10. CallMatchesState'
  BY <1>1, <1>3, <1>7 DEF CallMatchesState
<1>11. NothingStale'
  BY <1>1, <1>3, <1>4 DEF NothingStale, Structure, TypeOK
<1> QED
  BY <1>9, <1>10, <1>11

(* An ended thread has closed every connection. *)
LEMMA ExitTracksNothing == ASSUME TypeOK, AllClosed PROVE Tracked = {}
<1>1. \A i \in Tables : IsFiniteSet(Entries(i)) /\ Size(i) \in Nat
  <2>1. \A i \in Tables : Entries(i) \subseteq Socks
    BY DEF Entries
  <2> QED
    BY <2>1, FS_Subset, FS_CardinalityType DEF Size
<1>2. \A i \in Tables : Size(i) = 0
  <2>1. Size(newList) + Size(oldList) = 0
    BY DEF AllClosed, ConnectionCount
  <2>2. Tables = {newList, oldList} /\ newList \in Tables /\ oldList \in Tables
    BY DEF TypeOK, Tables, oldList
  <2>3. Size(newList) = 0 /\ Size(oldList) = 0
    BY <1>1, <2>1, <2>2
  <2> QED
    BY <2>2, <2>3
<1>3. \A i \in Tables : Entries(i) = {}
  BY <1>1, <1>2, FS_EmptySet DEF Size
<1> QED
  BY <1>3 DEF Tracked, Entries

(* The other steps of the thread, and those of the clients and the owner. *)
LEMMA ControlServing ==
  ASSUME Structure, Serving,
         \/ UNCHANGED vars \/ Tick \/ Stop
         \/ LoopTop \/ LoopExit \/ PollTimeout \/ PollExit \/ ThreadExit
         \/ SweepNotDue \/ SweepSwap
         \/ \E s \in Socks : Dispatch(s) \/ DispatchUnknown(s)
         \/ \E r \in Roles : AcceptFails(r) \/ AcceptRefused(r) \/ ClientConnects(r)
  PROVE  Serving'
<1> USE DEF tableVars
<1>1. CASE UNCHANGED vars \/ Tick \/ Stop \/ \E r \in Roles : ClientConnects(r)
  <2>1. UNCHANGED <<pc, cur, conn, hash, open, interest>>
    BY <1>1 DEF vars, Tick, Stop, StopFlag, StopNotify, StopJoin, ClientConnects
  <2> QED
    BY <2>1, QuietServing DEF Serving, CallMatchesState, NothingStale
<1>2. CASE \/ LoopTop \/ LoopExit \/ PollTimeout \/ PollExit \/ SweepNotDue \/ SweepSwap
           \/ \E s \in Socks : DispatchUnknown(s)
           \/ \E r \in Roles : AcceptFails(r) \/ AcceptRefused(r)
  <2>1. /\ UNCHANGED <<conn, hash, open, interest>> /\ pc # "close"
        /\ pc' \in {"poll", "sweep", "top", "cleanup"}
    BY <1>2 DEF LoopTop, LoopExit, PollTimeout, PollExit, SweepNotDue, SweepSwap,
                DispatchUnknown, AcceptFails, AcceptRefused, Accepting
  <2> QED
    BY <2>1, QuietServing
<1>3. CASE ThreadExit
  BY <1>3, ExitTracksNothing, QuietServing DEF ThreadExit, Structure
<1>4. ASSUME NEW s \in Socks, Dispatch(s) PROVE Serving'
  <2> DEFINE c == Lookup(s)
  <2>1. c \in Conns
    <3>1. newList \in Tables /\ oldList \in Tables
      BY DEF oldList, Structure, TypeOK, Tables
    <3>2. c \in Conns \cup {NoConn}
      BY <3>1 DEF Lookup, Structure, TypeOK
    <3> QED
      BY <1>4, <3>2 DEF Dispatch, Served
  <2>2. conn[c].state \in {"receiving", "transmitting"}
    BY <1>4, <2>1 DEF Dispatch, Served, Structure, TypeOK, Connection
  <2>3. /\ cur' = c /\ pc = "poll" /\ pc' = Handler[conn[c].state]
        /\ UNCHANGED <<conn, hash, open, interest>>
    BY <1>4 DEF Dispatch
  <2> QED
    BY <2>2, <2>3, QuietServing DEF Handler
<1> QED
  BY <1>1, <1>2, <1>3, <1>4

(* The steps that close a connection. *)
LEMMA ClosingServing ==
  ASSUME Structure, Structure', Serving,
         Close \/ \E c \in Conns : SweepClose(c) \/ CleanupClose(c)
  PROVE  Serving'
<1>1. CASE Close
  <2>1. cur \in InUse
    BY <1>1 DEF Close, Structure, TypeOK, CallTracked
  <2> QED
    BY <1>1, <2>1, CloseServing DEF Close, Return
<1>2. ASSUME NEW c \in Conns, SweepClose(c) \/ CleanupClose(c) PROVE Serving'
  <2>1. PICK i \in Tables, s \in Socks : hash[i][s] = c
    BY <1>2 DEF SweepClose, CleanupClose, oldList, Structure, TypeOK, Tables
  <2>2. c \in InUse
    BY <2>1 DEF Structure, EntriesLead
  <2>3. cur = NoConn /\ cur' = cur /\ pc' \in {"sweep", "cleanup"} /\ CloseConnection(c)
    BY <1>2 DEF SweepClose, CleanupClose, Structure, TypeOK
  <2> QED
    BY <2>2, <2>3, CloseServing
<1> QED
  BY <1>1, <1>2

(* Every step keeps the tracked connections ready. *)
LEMMA NextServing == Structure /\ Structure' /\ Serving /\ [Next]_vars => Serving'
<1> SUFFICES ASSUME Structure, Structure', Serving, [Next]_vars PROVE Serving'
  OBVIOUS
<1>1. ASSUME NEW r \in Roles, Accept(r) PROVE Serving'
  BY <1>1, AcceptServing, ControlServing DEF Accept
<1>2. CASE Thread
  BY <1>2, ServeServing, ClosingServing, ControlServing DEF Thread, Sweep, Cleanup
<1> QED
  BY <1>1, <1>2, ControlServing DEF Next, Step

(* The invariant of this part holds in every behaviour. *)
LEMMA ServingCorrect == Spec => []Serving
BY InitServing, NextServing, StructureCorrect, PTL DEF Spec

(* The thread waits for what a connection's state needs, and for nothing   *)
(* on a closed descriptor.                                                 *)
THEOREM InterestMatchesStateCorrect == Spec => []InterestMatchesState
<1>1. Structure /\ Serving => InterestMatchesState
  BY DEF Serving, AllReady, Closing, NothingStale, ReceiveReady, TransmitReady,
         InterestMatchesState
<1> QED
  BY <1>1, StructureCorrect, ServingCorrect, PTL

(* The assertions at the top of ReceiveBytesForConnection and              *)
(* WriteBytesForConnection hold whatever an object was used for before.    *)
THEOREM ReadyToServeCorrect == Spec => []ReadyToServe
<1>1. Serving => ReadyToServe
  BY DEF Serving, AllReady, Closing, CallMatchesState, ReceiveReady, TransmitReady, ReadyToServe
<1> QED
  BY <1>1, ServingCorrect, PTL

(* A thread that ends leaves no connection, no descriptor and no           *)
(* registration behind.                                                    *)
THEOREM CleanExitCorrect == Spec => []CleanExit
<1>1. Structure /\ Serving => CleanExit
  <2> SUFFICES ASSUME Structure, Serving, pc = "exited" PROVE CleanExit
    BY DEF CleanExit
  <2>1. Tracked = {} /\ cur = NoConn
    BY DEF Serving, NothingStale, Structure, TypeOK
  <2>2. InUse = {}
    BY <2>1 DEF Structure, Conservation
  <2>3. free = heap /\ open = {}
    BY <2>2 DEF Structure, Conservation, TypeOK, InUse
  <2> QED
    BY <2>1, <2>3 DEF CleanExit, Serving, NothingStale
<1> QED
  BY <1>1, StructureCorrect, ServingCorrect, PTL

-----------------------------------------------------------------------------
(* The pool.                                                               *)

(* What the thread does with its pool is what the pool allows: each step   *)
(* takes an object that is free, gives back one that is not, or neither.   *)
LEMMA NextPool == Structure /\ [Next]_vars => [Pool!Next]_<<heap, free>>
<1> SUFFICES ASSUME Structure, [Next]_vars, ~UNCHANGED <<heap, free>>
             PROVE  Pool!Next
  OBVIOUS
<1>1. ASSUME NEW c \in InUse, CloseConnection(c) PROVE Pool!Next
  <2>1. c \in Conns /\ Pool!ReleaseConnection(c)
    BY <1>1 DEF Pool!ReleaseConnection, CloseConnection, InUse, Structure, TypeOK
  <2> QED
    BY <2>1 DEF Pool!Next
<1>2. ASSUME NEW r \in Roles, NEW c \in Conns, NEW s \in Socks, NEW i, TakeConnection(r, c, s, i)
      PROVE  Pool!Next
  <2>1. PICK g \in Growth : /\ c \in free \cup g
                            /\ heap' = heap \cup g
                            /\ free' = (free \cup g) \ {c}
    BY <1>2 DEF TakeConnection
  <2>2. g \in SUBSET (Conns \ heap) /\ (g # {} => free = {})
    <3>1. CASE free # {}
      BY <2>1, <3>1 DEF Growth
    <3>2. CASE free = {}
      BY <2>1, <3>2 DEF Growth
    <3> QED
      BY <3>1, <3>2
  <2>3. Pool!GetConnection(g, c)
    BY <2>1, <2>2 DEF Pool!GetConnection
  <2> QED
    BY <2>2, <2>3 DEF Pool!Next
<1>3. CASE Close
  <2>1. cur \in InUse
    BY <1>3 DEF Close, Structure, TypeOK, CallTracked
  <2> QED
    BY <1>1, <1>3, <2>1 DEF Close
<1>4. ASSUME NEW c \in Conns, SweepClose(c) \/ CleanupClose(c) PROVE Pool!Next
  <2>1. PICK i \in Tables, s \in Socks : hash[i][s] = c
    BY <1>4 DEF SweepClose, CleanupClose, oldList, Structure, TypeOK, Tables
  <2>2. c \in InUse
    BY <2>1 DEF Structure, EntriesLead
  <2> QED
    BY <1>1, <1>4, <2>2 DEF SweepClose, CleanupClose
<1>5. ASSUME NEW r \in Roles, Accept(r) PROVE Pool!Next
  BY <1>2, <1>5 DEF Accept, AcceptSetupFails, AcceptConnection, AcceptFails, AcceptRefused, poolVars
<1>6. ~UNCHANGED vars /\ ~Tick /\ ~Stop /\ ~PollExit
  BY DEF vars, poolVars, Tick, Stop, StopFlag, StopNotify, StopJoin, PollExit
<1>7. /\ \A s \in Socks : ~(Dispatch(s) \/ DispatchUnknown(s))
      /\ \A r \in Roles : ~ClientConnects(r)
  BY DEF poolVars, Dispatch, DispatchUnknown, ClientConnects
<1>8. ~LoopTop /\ ~LoopExit /\ ~PollTimeout /\ ~SweepNotDue /\ ~SweepSwap /\ ~ThreadExit
  BY DEF poolVars, LoopTop, LoopExit, PollTimeout, SweepNotDue, SweepSwap, ThreadExit
<1>9. ~Receive /\ ~Write
  BY DEF poolVars, Receive, RecvWouldBlock, RecvFails, RecvBytes, RequestRefused, RequestServed,
         Write, SendWouldBlock, SendFails, SendPart, SendLast
<1>10. CASE Thread
  BY <1>3, <1>4, <1>6, <1>8, <1>9, <1>10 DEF Thread, Sweep, Cleanup
<1> QED
  BY <1>5, <1>6, <1>7, <1>10 DEF Next, Step

(* The thread uses its connections as ConnectionPoolLife describes: with   *)
(* ImplementsLifeCorrect of ConnectionPool_proofs, the linked list gives   *)
(* the thread what this module models as a set.                            *)
THEOREM ImplementsPoolCorrect == Spec => ImplementsPool
<1>1. Init => Pool!Init
  BY DEF Init, Pool!Init
<1> QED
  BY <1>1, NextPool, StructureCorrect, PTL DEF Spec, ImplementsPool, Pool!Spec

-----------------------------------------------------------------------------
(***************************************************************************)
(* The fourth part: the two limits.  How many connections: as long as a    *)
(* listen socket can always be put back into the poll set, never more than *)
(* _maxConnections, so an insertion finds room and the table a connection  *)
(* names does hold it.  How long: whatever fails, a connection outlives no *)
(* more than four sweep periods of waiting.                                *)
(***************************************************************************)

(* Listen sockets can be put back. *)
NoListenFault == "listenAdd" \notin Faults

(* A connection in use whose id names a table is in that table. *)
IdsTracked == \A c \in InUse : conn[c].id \in Tables => hash[conn[c].id][conn[c].sock] = c

(* _fListenSocketsOnEpoll tells what is in the poll set, and while the     *)
(* thread waits that is what the number of connections asks for.           *)
ListenState ==
  /\ listenOn = IF listenFlag THEN Roles ELSE {}
  /\ ListensBelowMax

Limit == Structure /\ IdsTracked /\ ListenState /\ ConnectionLimit

-----------------------------------------------------------------------------
(* A table is finite, so its size is a number. *)
LEMMA SizeFacts ==
  ASSUME NEW i \in Tables
  PROVE  Entries(i) \subseteq Socks /\ IsFiniteSet(Entries(i)) /\ Size(i) \in Nat
<1>1. Entries(i) \subseteq Socks
  BY DEF Entries
<1>2. IsFiniteSet(Entries(i))
  BY <1>1, FS_Subset
<1> QED
  BY <1>1, <1>2, FS_CardinalityType DEF Size

(* The count is the same whichever table is the new one. *)
Counted == ConnectionCount = Size(1) + Size(2) /\ Size(1) \in Nat /\ Size(2) \in Nat

(* The count is the sum of both tables, whichever one is new. *)
LEMMA CountFacts == TypeOK => Counted
<1> SUFFICES ASSUME TypeOK PROVE ConnectionCount = Size(1) + Size(2)
  BY SizeFacts DEF Tables, Counted
<1>1. Size(1) \in Nat /\ Size(2) \in Nat
  BY SizeFacts DEF Tables
<1>2. CASE newList = 1
  BY <1>1, <1>2 DEF ConnectionCount, oldList
<1>3. CASE newList = 2
  BY <1>1, <1>3 DEF ConnectionCount, oldList
<1> QED
  BY <1>2, <1>3 DEF TypeOK, Tables

(* The same of the next state. *)
LEMMA CountFactsAfter == TypeOK' => Counted'
BY CountFacts, PTL

(* The count depends on the tables alone. *)
LEMMA SameCount ==
  ASSUME TypeOK, TypeOK', UNCHANGED hash
  PROVE  ConnectionCount' = ConnectionCount
<1>1. Size(1)' = Size(1) /\ Size(2)' = Size(2)
  BY DEF Size, Entries
<1> QED
  BY <1>1, CountFacts, CountFactsAfter DEF Counted

(* Steps that leave the tables, the pool, the sockets and the listen       *)
(* sockets alone, and do not begin a wait, keep Limit.                     *)
LEMMA SameLimit ==
  ASSUME Limit, Structure',
         UNCHANGED <<heap, free, hash, listenOn, listenFlag>>,
         \A c \in Conns : conn'[c].sock = conn[c].sock /\ conn'[c].id = conn[c].id,
         pc' = "poll" => pc = "poll"
  PROVE  Limit'
<1>1. TypeOK /\ TypeOK'
  BY DEF Limit, Structure
<1>2. ConnectionCount' = ConnectionCount
  BY <1>1, SameCount
<1>3. InUse' = InUse /\ InUse \subseteq Conns
  BY <1>1 DEF InUse, TypeOK
<1> QED
  BY <1>2, <1>3 DEF Limit, IdsTracked, ListenState, ConnectionLimit, ListensBelowMax

(* Limit holds before the thread starts. *)
LEMMA InitLimit == Init => Limit
<1> SUFFICES ASSUME Init PROVE Limit
  OBVIOUS
<1>1. Structure
  BY InitStructure
<1>2. InUse = {}
  BY DEF Init, InUse
<1>3. Entries(1) = {} /\ Entries(2) = {}
  BY DEF Init, Entries, Tables
<1>4. ConnectionCount = 0
  BY <1>1, <1>3, CountFacts, FS_EmptySet DEF Counted, Size, Structure
<1>5. ListenState /\ ConnectionLimit
  BY <1>4 DEF Init, ListenState, ListensBelowMax, ConnectionLimit
<1> QED
  BY <1>1, <1>2, <1>5 DEF Limit, IdsTracked

(* SetListenSocketsOnEpoll(IsConnectionCountAtMax() == false) succeeds. *)
LEMMA LoopTopLimit ==
  ASSUME NoListenFault, Limit, Structure', LoopTop
  PROVE  Limit'
<1>1. TypeOK /\ TypeOK'
  BY DEF Limit, Structure
<1>2. UNCHANGED <<conn, heap, free, hash>> /\ pc' = "poll"
  BY DEF LoopTop, poolVars, tableVars
<1>3. ConnectionCount' = ConnectionCount
  BY <1>1, <1>2, SameCount
<1>4. ConnectionCount \in Nat
  BY <1>1, CountFacts DEF Counted
<1>5. IdsTracked'
  BY <1>2 DEF Limit, IdsTracked, InUse
<1>6. listenOn' = (IF listenFlag' THEN Roles ELSE {}) /\ (listenFlag' <=> ConnectionCount < MaxConnections)
  <2>1. CASE SetListenSocketsOnEpoll(~IsConnectionCountAtMax)
    <3>1. listenFlag' = ~IsConnectionCountAtMax /\ listenOn' = (IF ~IsConnectionCountAtMax THEN Roles ELSE {})
      BY <2>1 DEF SetListenSocketsOnEpoll
    <3>2. ~IsConnectionCountAtMax <=> ConnectionCount < MaxConnections
      BY <1>4 DEF IsConnectionCountAtMax
    <3> QED
      BY <3>1, <3>2
  <2>2. CASE (IsConnectionCountAtMax = ~listenFlag) /\ UNCHANGED listenVars
    <3>1. listenFlag' = listenFlag /\ listenOn' = listenOn
      BY <2>2 DEF listenVars
    <3>2. listenFlag <=> ~IsConnectionCountAtMax
      BY <1>1, <2>2 DEF TypeOK
    <3>3. ~IsConnectionCountAtMax <=> ConnectionCount < MaxConnections
      BY <1>4 DEF IsConnectionCountAtMax
    <3> QED
      BY <3>1, <3>2, <3>3 DEF Limit, ListenState
  <2>3. ASSUME NEW r \in Roles, SetListenSocketsFails(r) PROVE FALSE
    BY <2>3 DEF SetListenSocketsFails, MayFail, NoListenFault, Limit, ListenState
  <2> QED
    BY <2>1, <2>2, <2>3 DEF LoopTop
<1> QED
  BY <1>3, <1>5, <1>6 DEF Limit, ListenState, ListensBelowMax, ConnectionLimit

(* Below the limit an accepted connection finds room in the new table. *)
LEMMA AcceptLimit ==
  ASSUME Limit, Structure', NEW r \in Roles, NEW c \in Conns, NEW s \in Socks,
         AcceptSetupFails(r, c, s) \/ AcceptConnection(r, c, s)
  PROVE  Limit'
<1>1. Structure /\ TypeOK /\ TypeOK'
  BY DEF Limit, Structure
<1>2. newList \in Tables /\ newList' = newList /\ -1 \notin Tables
  BY <1>1 DEF TypeOK, AcceptSetupFails, AcceptConnection, TakeConnection, Tables
<1>3. PICK i \in Tables \cup {-1} :
        /\ TakeConnection(r, c, s, i)
        /\ \/ AcceptSetupFails(r, c, s) /\ i = -1
           \/ AcceptConnection(r, c, s) /\ i = newList
  BY <1>2 DEF AcceptSetupFails, AcceptConnection
<1>4. /\ pc = "poll"
      /\ c \notin InUse /\ InUse' = InUse \cup {c}
      /\ conn'[c].sock = s /\ conn'[c].id = i
      /\ \A d \in Conns : d # c => conn'[d] = conn[d]
      /\ \A j \in Tables : hash[j][s] = NoConn
  <2>1. TakeConnection(r, c, s, i)
    BY <1>3
  <2> QED
    BY ONLY <1>1, <2>1, TakeEffect, ConnsAssumption
<1>5. UNCHANGED <<listenOn, listenFlag>> /\ r \in listenOn
  BY <1>3 DEF TakeConnection, Accepting, listenVars
<1>6. ConnectionCount < MaxConnections
  BY <1>4, <1>5 DEF Limit, ListenState, ListensBelowMax
<1>7. Size(1) \in Nat /\ Size(2) \in Nat /\ ConnectionCount = Size(1) + Size(2)
  BY <1>1, CountFacts DEF Counted
<1>8. Size(newList) < MaxConnections
  BY <1>2, <1>6, <1>7 DEF Tables
<1>9. \/ i = -1 /\ hash' = hash /\ pc' = "close"
      \/ i = newList /\ hash' = [hash EXCEPT ![newList][s] = c] /\ pc' = "receive"
  BY <1>3, <1>8 DEF AcceptSetupFails, AcceptConnection
<1>10. \A d \in InUse : d \in Conns /\ d # c
  BY <1>1, <1>4 DEF InUse, TypeOK
<1>11. IdsTracked'
  <2> SUFFICES ASSUME NEW d \in InUse', conn'[d].id \in Tables
               PROVE  hash'[conn'[d].id][conn'[d].sock] = d
    BY DEF IdsTracked
  <2>1. CASE d = c
    BY <1>1, <1>2, <1>4, <1>9, <2>1 DEF TypeOK
  <2>2. CASE d # c
    <3>1. d \in InUse /\ conn'[d] = conn[d]
      BY <1>4, <1>10, <2>2
    <3>2. hash[conn[d].id][conn[d].sock] = d /\ conn[d].sock \in Socks
      BY <1>1, <3>1 DEF Limit, IdsTracked, Structure, Conservation, TypeOK
    <3>3. conn[d].sock # s
      BY <1>1, <1>4, <1>10, <3>1, <3>2
    <3>4. \A j \in Tables, t \in Socks : t # s => hash'[j][t] = hash[j][t]
      BY <1>1, <1>2, <1>9 DEF TypeOK
    <3>5. conn[d].id \in Tables
      BY <3>1
    <3> QED
      BY <3>1, <3>2, <3>3, <3>4, <3>5
  <2> QED
    BY <2>1, <2>2
<1>12. ConnectionCount' <= ConnectionCount + 1
  <2>1. CASE hash' = hash
    BY <1>1, <1>7, <2>1, SameCount
  <2>2. CASE hash' = [hash EXCEPT ![newList][s] = c]
    <3>1. \A j \in Tables : Entries(j)' \subseteq Entries(j) \cup (IF j = newList THEN {s} ELSE {})
      BY <1>1, <1>2, <2>2 DEF Entries, TypeOK
    <3>2. ASSUME NEW j \in Tables
          PROVE  Size(j)' <= Size(j) + (IF j = newList THEN 1 ELSE 0)
      <4>1. IsFiniteSet(Entries(j)) /\ Size(j) \in Nat
        BY SizeFacts
      <4>2. CASE j = newList
        <5>1. Cardinality(Entries(j) \cup {s}) <= Size(j) + 1 /\ IsFiniteSet(Entries(j) \cup {s})
          <6>1. /\ IsFiniteSet(Entries(j) \cup {s})
                /\ \/ Cardinality(Entries(j) \cup {s}) = Cardinality(Entries(j))
                   \/ Cardinality(Entries(j) \cup {s}) = Cardinality(Entries(j)) + 1
            BY <4>1, FS_AddElement
          <6> QED
            BY <4>1, <6>1 DEF Size
        <5>2. Cardinality(Entries(j)') <= Cardinality(Entries(j) \cup {s})
          BY <3>1, <4>2, <5>1, FS_Subset
        <5>3. Cardinality(Entries(j) \cup {s}) \in Nat /\ Cardinality(Entries(j)') \in Nat
          BY <3>1, <4>2, <5>1, FS_Subset, FS_CardinalityType
        <5> QED
          BY <4>1, <4>2, <5>1, <5>2, <5>3 DEF Size
      <4>3. CASE j # newList
        <5>1. Cardinality(Entries(j)') <= Cardinality(Entries(j))
          BY <3>1, <4>1, <4>3, FS_Subset
        <5> QED
          BY <4>1, <4>3, <5>1 DEF Size
      <4> QED
        BY <4>2, <4>3
    <3>3. Counted'
      BY <1>1, CountFactsAfter
    <3>4. Size(1)' <= Size(1) + (IF 1 = newList THEN 1 ELSE 0)
          /\ Size(2)' <= Size(2) + (IF 2 = newList THEN 1 ELSE 0)
      BY <3>2 DEF Tables
    <3> QED
      BY <1>2, <1>7, <3>3, <3>4 DEF Counted, Tables
  <2> QED
    BY <1>9, <2>1, <2>2
<1>13. ConnectionLimit'
  <2>1. ConnectionCount \in Nat /\ ConnectionCount' \in Nat
    BY <1>1, CountFacts, CountFactsAfter DEF Counted
  <2> QED
    BY <1>6, <1>12, <2>1 DEF ConnectionLimit
<1>14. ListenState'
  BY <1>5, <1>9 DEF Limit, ListenState, ListensBelowMax
<1> QED
  BY <1>11, <1>13, <1>14 DEF Limit

(* Closing a connection empties one entry at most. *)
LEMMA CloseLimit ==
  ASSUME Limit, Structure', NEW c \in InUse, CloseConnection(c), pc' # "poll"
  PROVE  Limit'
<1> DEFINE s == conn[c].sock
           i == conn[c].id
<1>1. Structure /\ TypeOK /\ TypeOK'
  BY DEF Limit, Structure
<1>2. /\ s \in Socks /\ c \in Conns
      /\ InUse' = InUse \ {c}
      /\ \A d \in Conns : d # c => conn'[d] = conn[d]
  BY <1>1, CloseEffect
<1>3. \A j \in Tables, t \in Socks :
        hash'[j][t] = IF j = i /\ t = s THEN NoConn ELSE hash[j][t]
  BY <1>1, CloseEffect
<1>4. IdsTracked'
  <2> SUFFICES ASSUME NEW d \in InUse', conn'[d].id \in Tables
               PROVE  hash'[conn'[d].id][conn'[d].sock] = d
    BY DEF IdsTracked
  <2>1. d \in InUse /\ d # c /\ d \in Conns
    BY <1>1, <1>2 DEF InUse, TypeOK
  <2>2. conn'[d] = conn[d] /\ conn[d].id \in Tables
    BY <1>2, <2>1
  <2>3. hash[conn[d].id][conn[d].sock] = d /\ conn[d].sock \in Socks /\ conn[d].sock # s
    BY <1>1, <2>1, <2>2 DEF Limit, IdsTracked, Structure, Conservation, TypeOK
  <2> QED
    BY <1>3, <2>2, <2>3
<1>5. \A j \in Tables : Entries(j)' \subseteq Entries(j)
  BY <1>3 DEF Entries
<1>6. ASSUME NEW j \in Tables PROVE Size(j)' <= Size(j)
  <2>1. IsFiniteSet(Entries(j))
    BY SizeFacts
  <2> QED
    BY <1>5, <2>1, FS_Subset DEF Size
<1>7. Size(1)' <= Size(1) /\ Size(2)' <= Size(2)
  BY <1>6 DEF Tables
<1>8. ConnectionLimit'
  BY <1>1, <1>7, CountFacts, CountFactsAfter DEF Counted, Limit, ConnectionLimit
<1>9. ListenState'
  BY DEF Limit, ListenState, ListensBelowMax, CloseConnection, listenVars
<1> QED
  BY <1>4, <1>8, <1>9 DEF Limit

(* Swapping the tables (SweepDeadConnections) preserves it. *)
LEMMA SweepSwapLimit ==
  ASSUME Limit, Structure', SweepSwap
  PROVE  Limit'
BY SameLimit DEF SweepSwap, poolVars, listenVars

(* Serving a connection changes neither its socket nor its table. *)
SameSockets == \A c \in Conns : conn'[c].sock = conn[c].sock /\ conn'[c].id = conn[c].id

(* An update that keeps socket and id disturbs no connection. *)
LEMMA UpdateSockets ==
  ASSUME TypeOK, cur \in Conns, NEW k, Update(k),
         k.sock = conn[cur].sock, k.id = conn[cur].id
  PROVE  SameSockets
BY DEF Update, TypeOK, SameSockets

(* ReceiveBytesForConnection and WriteBytesForConnection are such. *)
LEMMA ServingSockets ==
  ASSUME Structure, Receive \/ Write
  PROVE  SameSockets
<1>1. TypeOK
  BY DEF Structure
<1>2. cur \in Conns
  BY <1>1 DEF Receive, Receiving, RecvWouldBlock, RecvFails, RecvBytes, RequestRefused,
              RequestServed, Write, Transmitting, SendWouldBlock, SendFails, SendPart,
              SendLast, TypeOK
<1>3. conn[cur] \in Connection
  BY <1>1, <1>2 DEF TypeOK
<1>4. CASE RecvWouldBlock \/ RecvFails \/ SendWouldBlock \/ SendFails
  BY <1>4 DEF RecvWouldBlock, RecvFails, SendWouldBlock, SendFails, SameSockets
<1>5. ASSUME NEW reader \in {"partial", "error"}, RecvBytes(reader) PROVE SameSockets
  <2> DEFINE k == [conn[cur] EXCEPT !.reader = reader]
  <2>1. k.sock = conn[cur].sock /\ k.id = conn[cur].id
    BY <1>3 DEF Connection
  <2>2. Update(k)
    BY <1>5 DEF RecvBytes
  <2> QED
    BY <1>1, <1>2, <2>1, <2>2, UpdateSockets
<1>6. CASE RequestRefused
  <2> DEFINE k == [conn[cur] EXCEPT !.reader = "validated"]
  <2>1. k.sock = conn[cur].sock /\ k.id = conn[cur].id
    BY <1>3 DEF Connection
  <2>2. Update(k)
    BY <1>6 DEF RequestRefused
  <2> QED
    BY <1>1, <1>2, <2>1, <2>2, UpdateSockets
<1>7. ASSUME NEW n \in Sizes, RequestServed(n) PROVE SameSockets
  <2> DEFINE k == [conn[cur] EXCEPT !.reader = "validated", !.state = "transmitting", !.size = n]
  <2>1. k.sock = conn[cur].sock /\ k.id = conn[cur].id
    BY <1>3 DEF Connection
  <2>2. Update(k)
    BY <1>7 DEF RequestServed
  <2> QED
    BY <1>1, <1>2, <2>1, <2>2, UpdateSockets
<1>8. CASE SendPart
  <2>1. PICK n \in 1 .. conn[cur].size - conn[cur].tx - 1 :
               Update([conn[cur] EXCEPT !.tx = @ + n])
    BY <1>8 DEF SendPart
  <2> DEFINE k == [conn[cur] EXCEPT !.tx = @ + n]
  <2>2. k.sock = conn[cur].sock /\ k.id = conn[cur].id
    BY <1>3 DEF Connection
  <2> QED
    BY <1>1, <1>2, <2>1, <2>2, UpdateSockets
<1>9. CASE SendLast
  <2> DEFINE k == ResetConnection(conn[cur])
  <2>1. k.sock = conn[cur].sock /\ k.id = conn[cur].id
    BY <1>3 DEF Connection, ResetConnection
  <2>2. Update(k)
    BY <1>9 DEF SendLast
  <2> QED
    BY <1>1, <1>2, <2>1, <2>2, UpdateSockets
<1> QED
  BY <1>4, <1>5, <1>6, <1>7, <1>8, <1>9 DEF Receive, Write

(* Serving a connection preserves Limit. *)
LEMMA ServingLimit ==
  ASSUME Limit, Structure', Receive \/ Write
  PROVE  Limit'
<1>1. SameSockets
  BY ServingSockets DEF Limit
<1>2. UNCHANGED <<heap, free, hash, listenOn, listenFlag>> /\ (pc' = "poll" => pc = "poll")
  BY DEF Receive, Receiving, RecvWouldBlock, RecvFails, RecvBytes, RequestRefused,
         RequestServed, Write, Transmitting, SendWouldBlock, SendFails, SendPart,
         SendLast, Return, Fail, poolVars, tableVars, listenVars
<1> QED
  BY <1>1, <1>2, SameLimit DEF SameSockets

(* So does every close: of a failed call, a sweep, the end. *)
LEMMA ClosingLimit ==
  ASSUME Limit, Structure', Close \/ \E c \in Conns : SweepClose(c) \/ CleanupClose(c)
  PROVE  Limit'
<1>1. Structure /\ TypeOK
  BY DEF Limit, Structure
<1>2. CASE Close
  BY <1>1, <1>2, CloseLimit DEF Close, Return, Structure, CallTracked, TypeOK
<1>3. ASSUME NEW c \in Conns, SweepClose(c) \/ CleanupClose(c) PROVE Limit'
  <2>1. oldList \in Tables /\ newList \in Tables
    BY <1>1 DEF oldList, TypeOK, Tables
  <2>2. c \in InUse
    BY <1>1, <1>3, <2>1 DEF SweepClose, CleanupClose, EntriesLead, Structure
  <2> QED
    BY <1>3, <2>2, CloseLimit DEF SweepClose, CleanupClose
<1> QED
  BY <1>2, <1>3

(* So does every step that leaves tables and listen sockets alone. *)
LEMMA QuietLimit ==
  ASSUME Limit, Structure',
         \/ LoopExit \/ PollTimeout \/ PollExit \/ SweepNotDue \/ ThreadExit
         \/ \E s \in Socks : Dispatch(s) \/ DispatchUnknown(s)
         \/ \E r \in Roles : AcceptFails(r) \/ AcceptRefused(r) \/ ClientConnects(r)
         \/ Stop \/ Tick \/ UNCHANGED vars
  PROVE  Limit'
<1>1. UNCHANGED <<conn, heap, free, hash, listenOn, listenFlag>>
  BY DEF LoopExit, PollTimeout, PollExit, SweepNotDue, ThreadExit, Dispatch, DispatchUnknown,
         AcceptFails, AcceptRefused, ClientConnects, Stop, StopFlag, StopNotify, StopJoin,
         Tick, vars, poolVars, tableVars, listenVars
<1>2. pc' = "poll" => pc = "poll"
  BY DEF LoopExit, PollTimeout, PollExit, SweepNotDue, ThreadExit, Dispatch, DispatchUnknown,
         AcceptFails, AcceptRefused, Accepting, ClientConnects, Stop, StopFlag, StopNotify,
         StopJoin, Tick, vars
<1> QED
  BY <1>1, <1>2, SameLimit

(* Every step preserves Limit, if listen sockets can be re-added. *)
LEMMA NextLimit == NoListenFault /\ Limit /\ [Next]_vars => Limit'
<1> SUFFICES ASSUME NoListenFault, Limit, [Next]_vars PROVE Limit'
  OBVIOUS
<1>1. Structure /\ Structure'
  BY NextStructure DEF Limit
<1>2. ASSUME NEW r \in Roles, Accept(r) PROVE Limit'
  BY <1>1, <1>2, AcceptLimit, QuietLimit DEF Accept
<1>3. CASE Thread
  BY <1>1, <1>3, LoopTopLimit, QuietLimit, ServingLimit, ClosingLimit, SweepSwapLimit
     DEF Thread, Sweep, Cleanup
<1> QED
  BY <1>1, <1>2, <1>3, QuietLimit DEF Next, Step

-----------------------------------------------------------------------------
(* Limit holds in every state, under the same assumption. *)
LEMMA LimitCorrect == ASSUME NoListenFault PROVE Spec => []Limit
<1>1. Limit /\ [Next]_vars => Limit'
  BY NextLimit
<1> QED
  BY <1>1, InitLimit, PTL DEF Spec

(* The server never tracks more than _maxConnections connections. *)
THEOREM ConnectionLimitCorrect == ASSUME NoListenFault PROVE Spec => []ConnectionLimit
<1>1. Limit => ConnectionLimit
  BY DEF Limit
<1> QED
  BY <1>1, LimitCorrect, PTL

(* While it waits, the thread listens exactly when it is below the limit. *)
THEOREM ListensBelowMaxCorrect == ASSUME NoListenFault PROVE Spec => []ListensBelowMax
<1>1. Limit => ListensBelowMax
  BY DEF Limit, ListenState
<1> QED
  BY <1>1, LimitCorrect, PTL

(* The tables and the connections agree, so every VERIFY of CloseConnection *)
(* holds.                                                                  *)
THEOREM TableAgreementCorrect == ASSUME NoListenFault PROVE Spec => []TableAgreement
<1>1. Limit => TableAgreement
  BY DEF Limit, Structure, EntriesLead, IdsTracked, TableAgreement
<1> QED
  BY <1>1, LimitCorrect, PTL

-----------------------------------------------------------------------------
(* How long a connection lives.  A stretch of waiting that began after the *)
(* last sweep is no longer than sweepAge while the sweep is not due; once  *)
(* it is due, the thread sweeps when the wait it is in ends.               *)
Period == 2 * SweepTimeout - 1

WithinPeriod(n) ==
  /\ n <= Period
  /\ sweepAge < SweepTimeout => n <= sweepAge
  /\ pc = "top" => n < SweepTimeout
  /\ pc = "poll" => n < SweepTimeout + pollAge

InOld(c) == \E s \in Socks : hash[oldList][s] = c

(* The wait of a connection since it was accepted, or, once it is in the   *)
(* old table, since the sweep that put it there, fits in one period.       *)
Stretch(c) == IF InOld(c) THEN waited[c] - Period ELSE waited[c]

WaitInv ==
  /\ waited \in [Conns -> Nat]
  /\ \A c \in Conns \ InUse : waited[c] = 0
  /\ \A c \in InUse : WithinPeriod(Stretch(c))

(* A step of the thread, its clients or its owner leaves the waits as they *)
(* are, except that of an object it gives back.                            *)
Kept == waited' = [c \in Conns |-> IF c \in InUse' THEN waited[c] ELSE 0]

(* WaitInv holds before the thread starts. *)
LEMMA InitWait == LiveInit => WaitInv
BY DEF LiveInit, Init, WaitInv, InUse

(* What Kept means, object by object. *)
LEMMA KeptEffect ==
  ASSUME TypeOK, TypeOK', WaitInv, Kept
  PROVE  /\ waited' \in [Conns -> Nat]
         /\ \A c \in Conns \ InUse' : waited'[c] = 0
         /\ \A c \in InUse' : c \in Conns /\ waited'[c] = waited[c] /\ waited[c] \in Nat
         /\ \A c \in InUse' \ InUse : waited[c] = 0
BY DEF TypeOK, WaitInv, Kept, InUse

(* A step that stamps no sweep and begins no wait, moves no connection     *)
(* from one table to the other and puts a new one in no old table.         *)
LEMMA SameWait ==
  ASSUME TypeOK, TypeOK', WaitInv, Kept,
         UNCHANGED <<sweepAge, pollAge>>,
         pc' = pc \/ pc' \notin {"top", "poll"},
         \A c \in InUse' \cap InUse : InOld(c)' = InOld(c),
         \A c \in InUse' \ InUse : ~InOld(c)' /\ pc' \notin {"top", "poll"}
  PROVE  WaitInv'
<1>1. /\ sweepAge \in 0 .. SweepTimeout /\ pollAge \in 0 .. SweepTimeout
      /\ sweepAge' = sweepAge /\ pollAge' = pollAge
  BY DEF TypeOK
<1>2. ASSUME NEW c \in InUse' PROVE WithinPeriod(Stretch(c))'
  <2>1. c \in Conns /\ waited'[c] = waited[c] /\ waited[c] \in Nat
    BY KeptEffect
  <2>2. CASE c \in InUse
    <3>1. InOld(c)' = InOld(c) /\ WithinPeriod(Stretch(c))
      BY <2>2 DEF WaitInv
    <3>2. Stretch(c)' = Stretch(c)
      BY <2>1, <3>1 DEF Stretch
    <3> QED
      BY <1>1, <3>1, <3>2 DEF WithinPeriod
  <2>3. CASE c \notin InUse
    <3>1. ~InOld(c)' /\ pc' \notin {"top", "poll"} /\ waited[c] = 0
      BY <2>3, KeptEffect
    <3>2. Stretch(c)' = 0
      BY <2>1, <3>1 DEF Stretch
    <3> QED
      BY <1>1, <3>1, <3>2 DEF WithinPeriod, Period
  <2> QED
    BY <2>2, <2>3
<1> QED
  BY <1>2, KeptEffect DEF WaitInv

(* LoopTop begins a wait: a sweep has been made, or is not due.            *)
LEMMA LoopTopWait ==
  ASSUME TypeOK, TypeOK', WaitInv, Kept, LoopTop
  PROVE  WaitInv'
<1>1. /\ pc = "top" /\ pc' = "poll" /\ pollAge' = 0 /\ sweepAge' = sweepAge
      /\ UNCHANGED <<hash, newList, heap, free>>
  BY DEF LoopTop, tableVars, poolVars
<1>2. InUse' = InUse /\ \A c \in InUse : InOld(c)' = InOld(c)
  BY <1>1 DEF InUse, InOld, oldList
<1>3. ASSUME NEW c \in InUse PROVE WithinPeriod(Stretch(c))'
  <2>1. waited'[c] = waited[c]
    BY <1>2, KeptEffect
  <2>2. Stretch(c)' = Stretch(c)
    BY <1>2, <2>1 DEF Stretch
  <2>3. WithinPeriod(Stretch(c))
    BY DEF WaitInv
  <2> QED
    BY <1>1, <2>2, <2>3 DEF WithinPeriod
<1> QED
  BY <1>2, <1>3, KeptEffect DEF WaitInv

(* A sweep that is not due ends a stretch no longer than sweepAge. *)
LEMMA SweepNotDueWait ==
  ASSUME TypeOK, TypeOK', WaitInv, Kept, SweepNotDue
  PROVE  WaitInv'
<1>1. /\ pc' = "top" /\ sweepAge' = sweepAge /\ pollAge' = pollAge
      /\ UNCHANGED <<hash, newList, heap, free>>
      /\ sweepAge \in 0 .. SweepTimeout /\ sweepAge < SweepTimeout
  BY DEF SweepNotDue, SweepDue, timeVars, tableVars, poolVars, TypeOK
<1>2. InUse' = InUse /\ \A c \in InUse : InOld(c)' = InOld(c)
  BY <1>1 DEF InUse, InOld, oldList
<1>3. ASSUME NEW c \in InUse PROVE WithinPeriod(Stretch(c))'
  <2>1. waited'[c] = waited[c] /\ waited[c] \in Nat
    BY <1>2, KeptEffect
  <2>2. Stretch(c)' = Stretch(c) /\ Stretch(c) \in Int
    BY <1>2, <2>1 DEF Stretch, Period
  <2>3. WithinPeriod(Stretch(c))
    BY DEF WaitInv
  <2> QED
    BY <1>1, <2>2, <2>3 DEF WithinPeriod
<1> QED
  BY <1>2, <1>3, KeptEffect DEF WaitInv

(* SweepDeadConnections with an empty old table: every connection moves    *)
(* there and has a whole period to itself.                                 *)
LEMMA SweepSwapWait ==
  ASSUME Structure, Structure', WaitInv, Kept, SweepSwap
  PROVE  WaitInv'
<1>1. TypeOK /\ TypeOK' /\ Conservation
  BY DEF Structure
<1>2. /\ pc' = "top" /\ sweepAge' = 0 /\ cur = NoConn
      /\ newList' = oldList /\ UNCHANGED <<hash, heap, free>>
  BY <1>1 DEF SweepSwap, poolVars, TypeOK
<1>3. newList \in Tables /\ oldList' = newList /\ oldList \in Tables
  BY <1>1, <1>2 DEF oldList, Tables, TypeOK
<1>4. \A s \in Socks : hash[oldList][s] = NoConn
  <2>1. Entries(oldList) \subseteq Socks /\ IsFiniteSet(Entries(oldList)) /\ Size(oldList) = 0
    BY <1>3, SizeFacts DEF SweepSwap
  <2>2. Entries(oldList) = {}
    BY <2>1, FS_EmptySet DEF Size
  <2> QED
    BY <2>2 DEF Entries
<1>5. InUse' = InUse /\ InUse \subseteq Conns
  BY <1>1, <1>2 DEF InUse, TypeOK
<1>6. ASSUME NEW c \in InUse PROVE WithinPeriod(Stretch(c))'
  <2>1. c \in Tracked /\ c # NoConn
    BY <1>1, <1>2, <1>5 DEF Conservation
  <2>2. PICK i \in Tables, s \in Socks : hash[i][s] = c
    BY <2>1 DEF Tracked
  <2>3. i = newList
    BY <1>3, <1>4, <2>1, <2>2 DEF oldList, Tables
  <2>4. InOld(c)' /\ ~InOld(c)
    BY <1>2, <1>3, <1>4, <2>1, <2>2, <2>3 DEF InOld
  <2>5. waited'[c] = waited[c] /\ waited[c] \in Nat
    BY <1>1, <1>5, KeptEffect
  <2>6. Stretch(c) = waited[c] /\ Stretch(c)' = waited[c] - Period
    BY <2>4, <2>5 DEF Stretch, Period
  <2>7. waited[c] <= Period
    BY <2>6 DEF WaitInv, WithinPeriod
  <2> QED
    BY <1>2, <2>5, <2>6, <2>7 DEF WithinPeriod, Period
<1> QED
  BY <1>1, <1>5, <1>6, KeptEffect DEF WaitInv

(* A unit of time that counts is one the thread waits with its timeout     *)
(* still to come: some connection is tracked, so the wait has a timeout.   *)
LEMMA TickWait ==
  ASSUME Structure, Structure', WaitInv, Tick,
         waited' = [c \in Conns |-> IF Waits(c) THEN Older(waited[c], LifetimeLimit + 1)
                                    ELSE waited[c]]
  PROVE  WaitInv'
<1>1. TypeOK /\ TypeOK' /\ Conservation
  BY DEF Structure
<1>2. /\ UNCHANGED <<pc, cur, hash, newList, heap, free>>
      /\ sweepAge \in 0 .. SweepTimeout /\ pollAge \in 0 .. SweepTimeout
      /\ sweepAge' = IF sweepAge < SweepTimeout THEN sweepAge + 1 ELSE sweepAge
      /\ pollAge' = IF pc = "poll" /\ pollAge < SweepTimeout THEN pollAge + 1 ELSE pollAge
  BY <1>1 DEF Tick, Older, poolVars, tableVars, TypeOK
<1>3. InUse' = InUse /\ InUse \subseteq Conns /\ \A c \in InUse : InOld(c)' = InOld(c)
  BY <1>1, <1>2 DEF InUse, InOld, oldList, TypeOK
<1>4. ASSUME NEW c \in InUse, Waits(c) PROVE pc = "poll" /\ pollAge < SweepTimeout
  <2>1. pc = "poll" /\ cur = NoConn
    BY <1>1, <1>4 DEF Waits, TypeOK
  <2>2. c \in Tracked /\ c # NoConn
    BY <1>1, <1>3, <2>1 DEF Conservation
  <2>3. PICK i \in Tables, s \in Socks : hash[i][s] = c
    BY <2>2 DEF Tracked
  <2>4. Entries(i) # {} /\ IsFiniteSet(Entries(i)) /\ Size(i) \in Nat
    BY <2>2, <2>3, SizeFacts DEF Entries
  <2>5. Size(i) # 0
    BY <2>4, FS_EmptySet DEF Size
  <2>6. ConnectionCount > 0
    BY <1>1, <2>4, <2>5, CountFacts DEF Counted, Tables
  <2> QED
    BY <1>2, <1>4, <2>1, <2>6 DEF Waits, PollTimedOut
<1>5. ASSUME NEW c \in InUse PROVE WithinPeriod(Stretch(c))'
  <2>1. c \in Conns /\ waited[c] \in Nat /\ WithinPeriod(Stretch(c))
    BY <1>3 DEF WaitInv
  <2>2. waited'[c] = IF Waits(c) THEN Older(waited[c], LifetimeLimit + 1) ELSE waited[c]
    BY <2>1
  <2>3. Stretch(c) \in Int
    BY <2>1 DEF Stretch, Period
  <2>4. CASE ~Waits(c)
    <3>1. Stretch(c)' = Stretch(c)
      BY <1>3, <2>2, <2>4 DEF Stretch
    <3> QED
      BY <1>2, <2>1, <2>3, <3>1 DEF WithinPeriod
  <2>5. CASE Waits(c)
    <3>1. waited'[c] \in {waited[c], waited[c] + 1}
      BY <2>2, <2>5 DEF Older
    <3>2. Stretch(c)' \in {Stretch(c), Stretch(c) + 1}
      BY <1>3, <2>1, <3>1 DEF Stretch, Period
    <3>3. pc = "poll" /\ pollAge < SweepTimeout
      BY <1>4, <2>5
    <3> QED
      BY <1>2, <2>1, <2>3, <3>2, <3>3 DEF WithinPeriod, Period
  <2> QED
    BY <2>4, <2>5
<1>6. waited' \in [Conns -> Nat] /\ \A c \in Conns \ InUse : waited'[c] = 0
  BY DEF WaitInv, Waits, Older
<1> QED
  BY <1>3, <1>5, <1>6 DEF WaitInv

(* An accepted connection goes to the new table, or to none. *)
LEMMA AcceptWait ==
  ASSUME Structure, Structure', WaitInv, Kept,
         NEW r \in Roles, NEW c \in Conns, NEW s \in Socks,
         AcceptSetupFails(r, c, s) \/ AcceptConnection(r, c, s)
  PROVE  WaitInv'
<1>1. TypeOK /\ TypeOK'
  BY DEF Structure
<1>2. newList \in Tables /\ -1 \notin Tables /\ oldList \in Tables /\ oldList # newList
  BY <1>1 DEF TypeOK, Tables, oldList
<1>3. PICK i \in Tables \cup {-1} : TakeConnection(r, c, s, i)
  BY <1>2 DEF AcceptSetupFails, AcceptConnection
<1>4. c \notin Tracked /\ InUse' = InUse \cup {c} /\ \A j \in Tables : hash[j][s] = NoConn
  BY <1>3, TakeEffect
<1>5. /\ UNCHANGED <<sweepAge, pollAge, newList>> /\ pc' \in {"close", "receive"}
      /\ hash' = hash \/ hash' = [hash EXCEPT ![newList][s] = c]
  BY DEF AcceptSetupFails, AcceptConnection, TakeConnection
<1>6. oldList' = oldList /\ hash'[oldList] = hash[oldList]
  BY <1>1, <1>2, <1>5 DEF oldList, TypeOK
<1>7. \A d : InOld(d)' = InOld(d)
  BY <1>6 DEF InOld
<1>8. ~InOld(c)
  BY <1>2, <1>4 DEF InOld, Tracked
<1> QED
  BY <1>1, <1>4, <1>5, <1>7, <1>8, SameWait

(* Closing a connection moves no other. *)
LEMMA CloseWait ==
  ASSUME Structure, Structure', WaitInv, Kept, NEW c \in InUse, CloseConnection(c),
         UNCHANGED <<sweepAge, pollAge>>, pc' \notin {"top", "poll"}
  PROVE  WaitInv'
<1>1. TypeOK /\ TypeOK' /\ EntriesLead /\ NoConn \notin Conns
  BY DEF Structure
<1>2. /\ InUse' = InUse \ {c} /\ newList' = newList
      /\ \A j \in Tables, t \in Socks :
           hash'[j][t] = IF j = conn[c].id /\ t = conn[c].sock THEN NoConn ELSE hash[j][t]
  BY CloseEffect DEF CloseConnection
<1>3. oldList \in Tables /\ oldList' = oldList
  BY <1>1, <1>2 DEF oldList, Tables, TypeOK
<1>4. ASSUME NEW d \in InUse, d # c PROVE InOld(d)' = InOld(d)
  <2>1. d # NoConn
    BY <1>1 DEF InUse, TypeOK
  <2>2. \A s \in Socks : hash[oldList][s] = d => conn[d].sock = s /\ conn[d].id = oldList
    BY <1>1, <1>3, <2>1 DEF EntriesLead
  <2>3. \A s \in Socks : hash[oldList][s] = d => ~(oldList = conn[c].id /\ s = conn[c].sock)
    BY <1>4, <2>2 DEF Structure, Conservation
  <2> QED
    BY <1>2, <1>3, <2>1, <2>3 DEF InOld
<1> QED
  BY <1>1, <1>2, <1>4, SameWait

(* Every step that leaves the tables and the pool alone and begins no wait. *)
LEMMA QuietWait ==
  ASSUME Structure, Structure', WaitInv, Kept,
         \/ LoopExit \/ PollTimeout \/ PollExit \/ ThreadExit \/ Receive \/ Write
         \/ \E s \in Socks : Dispatch(s) \/ DispatchUnknown(s)
         \/ \E r \in Roles : AcceptFails(r) \/ AcceptRefused(r) \/ ClientConnects(r)
         \/ Stop
  PROVE  WaitInv'
<1>1. UNCHANGED <<heap, free, hash, newList, sweepAge, pollAge>>
  BY DEF LoopExit, PollTimeout, PollExit, ThreadExit, Receive, RecvWouldBlock, RecvFails,
         RecvBytes, RequestRefused, RequestServed, Write, SendWouldBlock, SendFails, SendPart,
         SendLast, Dispatch, DispatchUnknown, AcceptFails, AcceptRefused, ClientConnects,
         Stop, StopFlag, StopNotify, StopJoin, poolVars, tableVars, timeVars
<1>2. pc' = pc \/ pc' \notin {"top", "poll"}
  <2>1. CASE Receive
    BY <2>1 DEF Receive, RecvWouldBlock, RecvFails, RecvBytes, RequestRefused, RequestServed,
                Return, Fail
  <2>2. CASE Write
    BY <2>2 DEF Write, SendWouldBlock, SendFails, SendPart, SendLast, Return, Fail
  <2>3. ASSUME NEW s \in Socks, Dispatch(s) PROVE pc' \notin {"top", "poll"}
    <3>1. conn[Lookup(s)].state \in {"receiving", "transmitting"}
      <4>1. Lookup(s) \in Conns
        BY <2>3 DEF Dispatch, Served, Lookup, Structure, TypeOK, oldList, Tables
      <4>2. conn[Lookup(s)] \in Connection
        BY <4>1 DEF Structure, TypeOK
      <4> QED
        BY <2>3, <4>2 DEF Connection, Dispatch, Served
    <3> QED
      BY <2>3, <3>1 DEF Dispatch, Handler
  <2> QED
    BY <2>1, <2>2, <2>3
       DEF LoopExit, PollTimeout, PollExit, ThreadExit, DispatchUnknown, AcceptFails,
           AcceptRefused, ClientConnects, Stop, StopFlag, StopNotify, StopJoin
<1>3. InUse' = InUse /\ \A c : InOld(c)' = InOld(c)
  BY <1>1 DEF InUse, InOld, oldList
<1> QED
  BY <1>1, <1>2, <1>3, SameWait DEF Structure

(* Every step preserves WaitInv. *)
LEMMA NextWait ==
  ASSUME Structure, Structure', WaitInv, [LiveNext]_<<vars, waited>>
  PROVE  WaitInv'
<1>1. ASSUME Step, Kept PROVE WaitInv'
  <2>1. ASSUME NEW r \in Roles, Accept(r) PROVE WaitInv'
    BY <1>1, <2>1, AcceptWait, QuietWait DEF Accept
  <2>2. CASE Close
    BY <1>1, <2>2, CloseWait DEF Close, Return, Structure, CallTracked, TypeOK
  <2>3. ASSUME NEW c \in Conns, SweepClose(c) \/ CleanupClose(c) PROVE WaitInv'
    <3>1. oldList \in Tables /\ newList \in Tables
      BY DEF oldList, Structure, TypeOK, Tables
    <3>2. c \in InUse
      BY <2>3, <3>1 DEF SweepClose, CleanupClose, EntriesLead, Structure
    <3> QED
      BY <1>1, <2>3, <3>2, CloseWait DEF SweepClose, CleanupClose
  <2>4. CASE Sweep
    BY <1>1, <2>3, <2>4, SweepNotDueWait, SweepSwapWait DEF Sweep, Structure
  <2>5. CASE Thread
    BY <1>1, <2>2, <2>3, <2>4, <2>5, LoopTopWait, QuietWait DEF Thread, Cleanup, Structure
  <2> QED
    BY <1>1, <2>1, <2>5, QuietWait DEF Step
<1>2. CASE UNCHANGED <<vars, waited>>
  <2>1. UNCHANGED <<pc, heap, free, hash, newList, sweepAge, pollAge, waited>>
    BY <1>2 DEF vars, poolVars, tableVars, timeVars
  <2>2. InUse' = InUse /\ \A c : Stretch(c)' = Stretch(c)
    BY <2>1 DEF InUse, InOld, oldList, Stretch
  <2> QED
    BY <2>1, <2>2 DEF WaitInv, WithinPeriod
<1> QED
  BY <1>1, <1>2, TickWait DEF LiveNext, Kept

(* No connection outlives four sweep periods of waiting, whatever its      *)
(* client does and whichever calls fail.                                   *)
THEOREM LifetimeBoundCorrect == LiveSpec => []LifetimeBound
<1>1. LiveInit => Structure /\ WaitInv
  BY InitStructure, InitWait DEF LiveInit
<1>2. Structure /\ WaitInv /\ [LiveNext]_<<vars, waited>> => Structure' /\ WaitInv'
  <2> SUFFICES ASSUME Structure, WaitInv, [LiveNext]_<<vars, waited>>
               PROVE  Structure' /\ WaitInv'
    OBVIOUS
  <2>1. [Next]_vars
    BY DEF LiveNext, Next
  <2>2. Structure'
    BY <2>1, NextStructure
  <2> QED
    BY <2>2, NextWait
<1>3. Structure /\ WaitInv => LifetimeBound
  <2> SUFFICES ASSUME Structure, WaitInv, NEW c \in InUse
               PROVE  waited[c] <= LifetimeLimit
    BY DEF LifetimeBound
  <2>1. c \in Conns
    BY DEF Structure, TypeOK, InUse
  <2>2. waited[c] \in Nat /\ Stretch(c) <= Period
    BY <2>1 DEF WaitInv, WithinPeriod
  <2> QED
    BY <2>2 DEF Stretch, Period, LifetimeLimit
<1> QED
  BY <1>1, <1>2, <1>3, PTL DEF LiveSpec


-----------------------------------------------------------------------------
(* Fifth part: the thread is one of TcpStunServer's.                       *)

(* How far Stop() is says what the thread was told, and the thread is not  *)
(* joined, or even on its way out, before it was told.                     *)
OwnerInv ==
  /\ owner \in {"running", "flagged", "joining", "joined"}
  /\ needToExit <=> owner # "running"
  /\ pipe <=> owner \in {"joining", "joined"}
  /\ pc \in {"cleanup", "exited"} => needToExit
  /\ owner = "joined" => pc = "exited"

Serves == {"receive", "write", "close", "sweep"}

(* A turn of Run(), with its calls and the sweep, is work. *)
loopStage ==
  IF owner = "joined" THEN "absent" ELSE IF pc = "top" THEN "top"
  ELSE IF pc = "poll" THEN "waiting" ELSE IF pc = "cleanup" THEN "leaving"
  ELSE IF pc = "exited" THEN "ended" ELSE "working"

loopTold == IF needToExit /\ owner # "joined" THEN {1} ELSE {}
loopNotified == IF pipe /\ owner # "joined" THEN {1} ELSE {}

Loop == INSTANCE TcpThreadLife
        WITH Threads  <- {1},
             stage    <- [t \in {1} |-> loopStage],
             told     <- loopTold,
             notified <- loopNotified

(* The thread turns, and is stopped, as TcpThreadLife says. *)
ImplementsLoop == Loop!LifeSpec

(* Where a step of the thread may take it, and what it must have seen. *)
LEMMA ThreadMoves ==
  ASSUME TypeOK,
         \/ Thread \/ PollExit
         \/ \E s \in Socks : Dispatch(s) \/ DispatchUnknown(s)
         \/ \E r \in Roles : Accept(r)
  PROVE  /\ UNCHANGED ownerVars
         /\ \/ pc = "top" /\ ~needToExit /\ pc' = "poll"
            \/ pc \in {"top", "poll"} /\ (needToExit \/ pipe) /\ pc' = "cleanup"
            \/ pc = "poll" /\ ~needToExit /\ pc' \in Serves
            \/ pc \in Serves /\ pc' \in Serves \cup {"top"}
            \/ pc = "cleanup" /\ pc' \in {"cleanup", "exited"}
<1> USE DEF Serves, ownerVars
<1>1. CASE LoopTop \/ LoopExit \/ PollTimeout \/ PollExit
  BY <1>1 DEF LoopTop, LoopExit, PollTimeout, PollExit, PipeReady
<1>2. CASE Receive
  <2>1. pc = "receive" /\ pc' \in Serves /\ UNCHANGED ownerVars
    BY <1>2 DEF Receive, RecvWouldBlock, RecvFails, RecvBytes, RequestRefused, RequestServed,
       Receiving, Return, Fail
  <2> QED
    BY <2>1
<1>3. CASE Write
  <2>1. pc = "write" /\ pc' \in Serves /\ UNCHANGED ownerVars
    BY <1>3 DEF Write, SendWouldBlock, SendFails, SendPart, SendLast, Transmitting, Return, Fail
  <2> QED
    BY <2>1
<1>4. CASE Close \/ Sweep
  BY <1>4 DEF Close, Sweep, SweepNotDue, SweepSwap, SweepClose, CloseConnection, Return
<1>5. CASE Cleanup
  BY <1>5 DEF Cleanup, CleanupClose, ThreadExit, CloseConnection
<1>6. ASSUME NEW s \in Socks, Dispatch(s)
      PROVE  pc = "poll" /\ ~needToExit /\ pc' \in Serves /\ UNCHANGED ownerVars
  <2>1. Lookup(s) \in Conns /\ conn[Lookup(s)] \in Connection
    <3>1. newList \in Tables /\ oldList \in Tables
      BY DEF TypeOK, oldList, Tables
    <3>2. hash[newList][s] \in Conns \cup {NoConn} /\ hash[oldList][s] \in Conns \cup {NoConn}
      BY <3>1 DEF TypeOK
    <3>3. Lookup(s) \in Conns \cup {NoConn}
      BY <3>2 DEF Lookup
    <3>4. Lookup(s) # NoConn
      BY <1>6 DEF Dispatch, Served
    <3>5. conn \in [Conns -> Connection]
      BY DEF TypeOK
    <3> QED
      BY <3>3, <3>4, <3>5
  <2>2. conn[Lookup(s)].state \in {"receiving", "transmitting"}
    BY <1>6, <2>1 DEF Dispatch, Served, Connection
  <2> QED
    BY <1>6, <2>2 DEF Dispatch, Handler
<1>7. CASE \E s \in Socks : DispatchUnknown(s)
  BY <1>7 DEF DispatchUnknown
<1>8. CASE \E r \in Roles : Accept(r)
  BY <1>8 DEF Accept, AcceptFails, AcceptRefused, AcceptSetupFails, AcceptConnection, TakeConnection,
     Accepting
<1> QED
  BY <1>1, <1>2, <1>3, <1>4, <1>5, <1>6, <1>7, <1>8 DEF Thread

(* Only the owner tells the thread, and only an ended thread is joined. *)
LEMMA NextOwner ==
  ASSUME TypeOK, OwnerInv, [Next]_vars
  PROVE  OwnerInv'
<1>1. CASE \/ Thread \/ PollExit
           \/ \E s \in Socks : Dispatch(s) \/ DispatchUnknown(s)
           \/ \E r \in Roles : Accept(r)
  BY <1>1, ThreadMoves DEF OwnerInv, ownerVars, Serves
<1>2. CASE Stop
  BY <1>2 DEF Stop, StopFlag, StopNotify, StopJoin, OwnerInv
<1>3. CASE (\E r \in Roles : ClientConnects(r)) \/ Tick \/ UNCHANGED vars
  BY <1>3 DEF ClientConnects, Tick, vars, ownerVars, OwnerInv
<1> QED
  BY <1>1, <1>2, <1>3 DEF Next, Step

(* One thread goes somewhere. *)
LEMMA LoopGoto ==
  ASSUME UNCHANGED <<loopTold, loopNotified>>, NEW where, loopStage' = where
  PROVE  Loop!Goto(1, where)
BY DEF Loop!Goto

(* The thread's steps are those of TcpThreadLife. *)
LEMMA MoveLoop ==
  ASSUME TypeOK, OwnerInv,
         \/ Thread \/ PollExit
         \/ \E s \in Socks : Dispatch(s) \/ DispatchUnknown(s)
         \/ \E r \in Roles : Accept(r)
  PROVE  [Loop!LifeNext]_Loop!lifeVars
<1>1. UNCHANGED <<loopTold, loopNotified, owner>>
  BY ThreadMoves DEF ownerVars, loopTold, loopNotified
<1>2. owner # "joined" /\ (needToExit <=> 1 \in loopTold)
  BY ThreadMoves DEF OwnerInv, loopTold, Serves
<1>3. CASE pc = "top" /\ ~needToExit /\ pc' = "poll"
  <2>1. loopStage = "top" /\ loopStage' = "waiting"
    BY <1>1, <1>2, <1>3 DEF loopStage
  <2>2. Loop!Wait(1)
    BY <1>1, <1>2, <1>3, <2>1, LoopGoto DEF Loop!Wait
  <2> QED
    BY <2>2 DEF Loop!LifeNext
<1>4. CASE pc \in {"top", "poll"} /\ (needToExit \/ pipe) /\ pc' = "cleanup"
  <2>1. loopStage \in {"top", "waiting"} /\ loopStage' = "leaving"
    BY <1>1, <1>2, <1>4 DEF loopStage
  <2>2. needToExit
    BY <1>4 DEF OwnerInv
  <2>3. Loop!Leave(1)
    BY <1>1, <1>2, <2>1, <2>2, LoopGoto DEF Loop!Leave
  <2> QED
    BY <2>3 DEF Loop!LifeNext
<1>5. CASE pc = "poll" /\ ~needToExit /\ pc' \in Serves
  <2>1. loopStage = "waiting" /\ loopStage' = "working"
    BY <1>1, <1>2, <1>5 DEF loopStage, Serves
  <2>2. Loop!Work(1)
    BY <1>1, <1>2, <1>5, <2>1, LoopGoto DEF Loop!Work
  <2> QED
    BY <2>2 DEF Loop!LifeNext
<1>6. CASE pc \in Serves /\ pc' = "top"
  <2>1. loopStage = "working" /\ loopStage' = "top"
    BY <1>1, <1>2, <1>6 DEF loopStage, Serves
  <2>2. Loop!Turn(1)
    BY <1>1, <2>1, LoopGoto DEF Loop!Turn
  <2> QED
    BY <2>2 DEF Loop!LifeNext
<1>7. CASE pc = "cleanup" /\ pc' = "exited"
  <2>1. loopStage = "leaving" /\ loopStage' = "ended"
    BY <1>1, <1>2, <1>7 DEF loopStage
  <2>2. Loop!End(1)
    BY <1>1, <2>1, LoopGoto DEF Loop!End
  <2> QED
    BY <2>2 DEF Loop!LifeNext
<1>8. CASE (pc \in Serves /\ pc' \in Serves) \/ pc' = pc
  <2>1. loopStage' = loopStage
    BY <1>1, <1>8 DEF loopStage, Serves
  <2> QED
    BY <1>1, <2>1 DEF Loop!lifeVars
<1> QED
  BY <1>3, <1>4, <1>5, <1>6, <1>7, <1>8, ThreadMoves

(* Stop() tells, notifies and joins. *)
LEMMA StopLoop ==
  ASSUME OwnerInv, Stop
  PROVE  [Loop!LifeNext]_Loop!lifeVars
<1>1. CASE StopFlag
  <2>1. loopStage' = loopStage /\ loopStage # "absent"
    BY <1>1 DEF StopFlag, loopStage
  <2>2. loopTold' = loopTold \cup {1} /\ loopNotified' = loopNotified
    BY <1>1 DEF StopFlag, loopTold, loopNotified, OwnerInv
  <2>3. Loop!Tell(1)
    BY <2>1, <2>2 DEF Loop!Tell
  <2> QED
    BY <2>3 DEF Loop!LifeNext
<1>2. CASE StopNotify
  <2>1. loopStage' = loopStage /\ loopStage # "absent"
    BY <1>2 DEF StopNotify, loopStage
  <2>2. loopTold' = loopTold /\ 1 \in loopTold /\ loopNotified' = loopNotified \cup {1}
    BY <1>2 DEF StopNotify, loopTold, loopNotified, OwnerInv
  <2>3. Loop!Notify(1)
    BY <2>1, <2>2 DEF Loop!Notify
  <2> QED
    BY <2>3 DEF Loop!LifeNext
<1>3. CASE StopJoin
  <2>1. loopStage = "ended" /\ loopStage' = "absent"
    BY <1>3 DEF StopJoin, loopStage
  <2>2. 1 \in loopTold \cap loopNotified /\ loopTold' = {} /\ loopNotified' = {}
    BY <1>3 DEF StopJoin, loopTold, loopNotified, OwnerInv
  <2>3. loopTold \subseteq {1} /\ loopNotified \subseteq {1}
    BY DEF loopTold, loopNotified
  <2>4. Loop!Join(1)
    BY <2>1, <2>2, <2>3 DEF Loop!Join
  <2> QED
    BY <2>4 DEF Loop!LifeNext
<1> QED
  BY <1>1, <1>2, <1>3 DEF Stop

(* Clients and the clock are none of its steps. *)
LEMMA NextLoop ==
  ASSUME TypeOK, OwnerInv, [Next]_vars
  PROVE  [Loop!LifeNext]_Loop!lifeVars
<1>1. CASE (\E r \in Roles : ClientConnects(r)) \/ Tick \/ UNCHANGED vars
  <2>1. UNCHANGED <<pc, ownerVars>>
    BY <1>1 DEF ClientConnects, Tick, vars
  <2> QED
    BY <2>1 DEF Loop!lifeVars, loopStage, loopTold, loopNotified, ownerVars
<1> QED
  BY <1>1, MoveLoop, StopLoop DEF Next, Step

(* One thread's loop behaves as each thread of TcpStunServer does: the     *)
(* server's view of it as busy or waiting loses no way out of the loop.    *)
THEOREM ImplementsLoopCorrect == Spec => ImplementsLoop
<1>1. Init => OwnerInv
  BY DEF Init, OwnerInv
<1>2. Init => Loop!LifeInit
  BY DEF Init, Loop!LifeInit, loopStage, loopTold, loopNotified
<1>3. TypeOK /\ OwnerInv /\ [Next]_vars => OwnerInv'
  BY NextOwner
<1>4. TypeOK /\ OwnerInv /\ [Next]_vars => [Loop!LifeNext]_Loop!lifeVars
  BY NextLoop
<1> QED
  BY <1>1, <1>2, <1>3, <1>4, TypeCorrect, PTL DEF Spec, ImplementsLoop, Loop!LifeSpec
=============================================================================
