---------------------------- MODULE ConnectionPool ----------------------------
(***************************************************************************)
(* CConnectionPool (STUNsvc/server/stunconnection.cpp): StunConnection     *)
(* objects on a list linked through pNext, grown by c_growrate objects at  *)
(* a time, and the user they are handed out to.                            *)
(*                                                                         *)
(* One action per turn of a loop.  What GetConnection sets in the fields   *)
(* that serve a connection is FreshConnection of module TcpStunThread.     *)
(***************************************************************************)
EXTENDS Integers, FiniteSets

CONSTANTS
  Conns,     \* StunConnection objects: all the memory there is
  GrowRate,  \* c_growrate
  NULL

VARIABLES
  pc,        \* "idle", or the loop the call in progress is in
  freelist,  \* _freelist
  pNext,     \* the field of every object, whether it exists or not
  heap,      \* objects that exist
  grown,     \* objects this call of Grow() has made
  given      \* objects the user has been handed out

vars == <<pc, freelist, pNext, heap, grown, given>>

Init ==
  /\ pc = "idle" /\ freelist = NULL
  /\ pNext \in [Conns -> Conns \cup {NULL}]
  /\ heap = {} /\ grown = {} /\ given = {}

Goto(from, to) == pc = from /\ pc' = to

-----------------------------------------------------------------------------
(* The list.                                                               *)

Push(c) ==
  /\ pNext' = [pNext EXCEPT ![c] = freelist]
  /\ freelist' = c

Pop == freelist # NULL /\ freelist' = pNext[freelist]

(* A set that holds all the list leads to; the list is the smallest one. *)
Closed(S) ==
  /\ freelist \in S \cup {NULL}
  /\ \A c \in S : pNext[c] \in S \cup {NULL}

OnList == {c \in Conns : \A S \in SUBSET Conns : Closed(S) => c \in S}

-----------------------------------------------------------------------------
(* GetConnection, with Grow() when the list is empty. *)
GetConnection ==
  /\ Goto("idle", IF freelist = NULL THEN "grow" ELSE "take")
  /\ UNCHANGED <<freelist, pNext, heap, grown, given>>

GrowOne(c) ==
  /\ pc = "grow" /\ Cardinality(grown) < GrowRate
  /\ c \in Conns \ heap
  /\ heap' = heap \cup {c} /\ grown' = grown \cup {c}
  /\ Push(c)
  /\ UNCHANGED <<pc, given>>

(* All made, or memory ran out for an object or for one of its buffers. *)
(* GetConnection does not look at what Grow() returns.                  *)
GrowEnds ==
  /\ Goto("grow", "take")
  /\ UNCHANGED <<freelist, pNext, heap, grown, given>>

Take ==
  /\ Goto("take", "idle")
  /\ Pop
  /\ pNext' = [pNext EXCEPT ![freelist] = NULL]
  /\ given' = given \cup {freelist}
  /\ grown' = {}
  /\ UNCHANGED heap

ReturnNull ==
  /\ Goto("take", "idle")
  /\ freelist = NULL
  /\ UNCHANGED <<freelist, pNext, heap, grown, given>>

(* The user gives back an object it was handed out. *)
ReleaseConnection(c) ==
  /\ pc = "idle" /\ c \in given
  /\ Push(c)
  /\ given' = given \ {c}
  /\ UNCHANGED <<pc, heap, grown>>

(* Reset(), also called by the destructor. *)
Reset ==
  /\ Goto("idle", "reset")
  /\ UNCHANGED <<freelist, pNext, heap, grown, given>>

DeleteHead ==
  /\ pc = "reset"
  /\ Pop
  /\ heap' = heap \ {freelist}
  /\ UNCHANGED <<pc, pNext, grown, given>>

ResetReturns ==
  /\ Goto("reset", "idle")
  /\ freelist = NULL
  /\ UNCHANGED <<freelist, pNext, heap, grown, given>>

Next ==
  \/ GetConnection \/ GrowEnds \/ Take \/ ReturnNull
  \/ Reset \/ DeleteHead \/ ResetReturns
  \/ \E c \in Conns : GrowOne(c) \/ ReleaseConnection(c)

Spec == Init /\ [][Next]_vars

-----------------------------------------------------------------------------
(* Properties.                                                             *)

TypeOK ==
  /\ pc \in {"idle", "grow", "take", "reset"}
  /\ freelist \in Conns \cup {NULL}
  /\ pNext \in [Conns -> Conns \cup {NULL}]
  /\ heap \subseteq Conns /\ grown \subseteq Conns /\ given \subseteq Conns

(* Every object that exists is on the list or with the user, never both:   *)
(* none is lost when Grow() fails half-way, none is handed out twice, and  *)
(* the list never leads to an object that was deleted.                     *)
NoneLostOrShared ==
  /\ heap = OnList \cup given
  /\ OnList \cap given = {}

(* The list has no cycle and no two objects share a tail: every loop over  *)
(* it ends, and taking its head takes one object off it.                   *)
ListIsSimple ==
  /\ \A c \in OnList : pNext[c] # NULL => pNext[c] # freelist
  /\ \A c, d \in OnList : pNext[c] = pNext[d] /\ pNext[c] # NULL => c = d

(* To its user, which sees the objects Grow() made only once it returns,   *)
(* the list is a set: the pool implements ConnectionPoolLife.              *)
Life == INSTANCE ConnectionPoolLife
          WITH Conns <- Conns, heap <- heap \ grown, free <- OnList \ grown

ImplementsLife == Life!Spec
=============================================================================
