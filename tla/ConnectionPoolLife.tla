-------------------------- MODULE ConnectionPoolLife --------------------------
(***************************************************************************)
(* What a CConnectionPool promises its user (STUNsvc/server/               *)
(* stunconnection.h): every connection object is free or handed out, it is *)
(* handed out to one user at a time, and the pool asks for more memory     *)
(* only when it has nothing left to give.                                  *)
(***************************************************************************)

CONSTANT Conns   \* StunConnection objects: all the memory there is

VARIABLES
  heap,  \* objects that exist
  free   \* those the pool can hand out

Init == heap = {} /\ free = {}

(* Object c is handed out, if need be after growing by the objects in more. *)
GetConnection(more, c) ==
  /\ more \in SUBSET (Conns \ heap)
  /\ more # {} => free = {}
  /\ c \in free \cup more
  /\ heap' = heap \cup more
  /\ free' = (free \cup more) \ {c}

ReleaseConnection(c) ==
  /\ c \in heap \ free
  /\ free' = free \cup {c}
  /\ UNCHANGED heap

(* Reset() deletes one of the objects it has not handed out. *)
Delete(c) ==
  /\ c \in free
  /\ heap' = heap \ {c} /\ free' = free \ {c}

Next ==
  \E c \in Conns :
    \/ \E more \in SUBSET Conns : GetConnection(more, c)
    \/ ReleaseConnection(c)
    \/ Delete(c)

Spec == Init /\ [][Next]_<<heap, free>>
=============================================================================
