------------------------- MODULE ConnectionPool_proofs -------------------------
(***************************************************************************)
(* The pool's linked list behaves as a set: no object is lost or handed    *)
(* out twice, and the pool implements ConnectionPoolLife, for every number *)
(* of objects and every growth rate.                                       *)
(***************************************************************************)
EXTENDS ConnectionPool, TLAPS

(* What the call in progress has done so far: only a call that grew the    *)
(* pool has objects its user has not seen, and then they are all there is. *)
CallProgress ==
  /\ grown # {} => pc \in {"grow", "take"} /\ grown = OnList
  /\ pc = "grow" => grown = OnList

(* The inductive invariant. *)
Inv == TypeOK /\ NoneLostOrShared /\ ListIsSimple /\ CallProgress

-----------------------------------------------------------------------------
(* The list.                                                               *)

(* The list is closed, and within every closed set of objects. *)
LEMMA ListClosed ==
  ASSUME NULL \notin Conns, TypeOK
  PROVE  /\ Closed(OnList)
         /\ OnList \subseteq Conns
         /\ \A S \in SUBSET Conns : Closed(S) => OnList \subseteq S
BY DEF TypeOK, Closed, OnList

(* Nothing is on an empty list. *)
LEMMA EmptyList ==
  ASSUME NULL \notin Conns, TypeOK
  PROVE  /\ freelist = NULL <=> OnList = {}
         /\ freelist # NULL => freelist \in OnList
<1>1. ASSUME freelist = NULL PROVE OnList = {}
  <2>1. Closed({})
    BY <1>1 DEF Closed
  <2> QED BY <2>1, ListClosed
<1>2. freelist # NULL => freelist \in OnList
  BY ListClosed DEF Closed, TypeOK
<1> QED BY <1>1, <1>2

(* A step that leaves the links alone leaves the list alone. *)
LEMMA SameList ==
  ASSUME UNCHANGED <<freelist, pNext>>
  PROVE  OnList' = OnList
BY DEF OnList, Closed

(* An object that is not on the list is added to it by Push. *)
LEMMA PushAdds ==
  ASSUME NULL \notin Conns, TypeOK, TypeOK', NEW c \in Conns, c \notin OnList, Push(c)
  PROVE  OnList' = OnList \cup {c}
<1>1. Closed(OnList) /\ OnList \subseteq Conns
  BY ListClosed
<1> PICK L \in SUBSET Conns : L = OnList
  BY <1>1
<1>2. Closed(L \cup {c})'
  <2>1. freelist' = c /\ pNext'[c] = freelist /\ \A d \in L : pNext'[d] = pNext[d]
    BY DEF Push, TypeOK
  <2> QED BY <1>1, <2>1 DEF Closed
<1>3. OnList' \subseteq L \cup {c}
  BY <1>2 DEF OnList
<1>4. ASSUME NEW S \in SUBSET Conns, Closed(S)'
      PROVE  OnList \cup {c} \subseteq S
  <2>1. c \in S /\ freelist \in S \cup {NULL} /\ pNext' = [pNext EXCEPT ![c] = freelist]
    BY <1>4 DEF Closed, Push, TypeOK
  <2>2. Closed(S \cap OnList)
    BY <1>1, <1>4, <2>1 DEF Closed, TypeOK
  <2>3. OnList \subseteq S \cap OnList
    BY <1>1, <2>2, ListClosed
  <2> QED BY <2>1, <2>3
<1>5. OnList \cup {c} \subseteq OnList'
  BY <1>1, <1>4 DEF OnList
<1> QED BY <1>3, <1>5

(* Taking the head of a simple list takes that object off it, and no other. *)
LEMMA PopRemoves ==
  ASSUME NULL \notin Conns, TypeOK, TypeOK', ListIsSimple, Pop,
         \A c \in OnList \ {freelist} : pNext'[c] = pNext[c]
  PROVE  OnList' = OnList \ {freelist}
<1> DEFINE head == freelist
<1>1. Closed(OnList) /\ OnList \subseteq Conns /\ head \in OnList
  BY ListClosed, EmptyList DEF Pop
<1> PICK L \in SUBSET Conns : L = OnList \ {head}
  BY <1>1
<1>2. freelist' = pNext[head] /\ pNext[head] \in (OnList \ {head}) \cup {NULL}
  BY <1>1 DEF Pop, Closed, ListIsSimple
<1>3. Closed(L)'
  BY <1>1, <1>2 DEF Closed, ListIsSimple
<1>4. OnList' \subseteq L
  BY <1>3 DEF OnList
<1>5. ASSUME NEW S \in SUBSET Conns, Closed(S)'
      PROVE  OnList \ {head} \subseteq S
  <2>1. Closed((S \cap OnList) \cup {head})
    BY <1>1, <1>2, <1>5 DEF Closed
  <2>2. OnList \subseteq (S \cap OnList) \cup {head}
    BY <1>1, <2>1, ListClosed
  <2> QED BY <2>2
<1>6. OnList \ {head} \subseteq OnList'
  BY <1>1, <1>5 DEF OnList
<1> QED BY <1>4, <1>6

(* Push and Pop keep the list simple. *)
LEMMA PushKeepsSimple ==
  ASSUME NULL \notin Conns, TypeOK, TypeOK', ListIsSimple,
         NEW c \in Conns, c \notin OnList, Push(c)
  PROVE  ListIsSimple'
<1>1. Closed(OnList) /\ OnList' = OnList \cup {c}
  BY ListClosed, PushAdds
<1>2. freelist' = c /\ pNext'[c] = freelist /\ \A d \in OnList : pNext'[d] = pNext[d]
  BY DEF Push, TypeOK, OnList
<1> QED BY <1>1, <1>2 DEF ListIsSimple, Closed, TypeOK

(* See above. *)
LEMMA PopKeepsSimple ==
  ASSUME NULL \notin Conns, TypeOK, TypeOK', ListIsSimple, Pop,
         \A c \in OnList \ {freelist} : pNext'[c] = pNext[c]
  PROVE  ListIsSimple'
<1>1. OnList' = OnList \ {freelist} /\ freelist \in OnList /\ freelist' = pNext[freelist]
  BY PopRemoves, EmptyList DEF Pop
<1> QED BY <1>1 DEF ListIsSimple

-----------------------------------------------------------------------------
(* The inductive invariant.                                                *)

(* It holds of an empty pool. *)
LEMMA InitInv == ASSUME NULL \notin Conns PROVE Init => Inv
<1> SUFFICES ASSUME Init PROVE Inv
  OBVIOUS
<1>1. TypeOK
  BY DEF Init, TypeOK
<1>2. OnList = {}
  BY <1>1, EmptyList DEF Init
<1> QED BY <1>1, <1>2 DEF Init, Inv, NoneLostOrShared, ListIsSimple, CallProgress

(* A step keeps the types. *)
LEMMA NextTypeOK == ASSUME NULL \notin Conns, TypeOK, [Next]_vars PROVE TypeOK'
<1>1. CASE UNCHANGED vars
  BY <1>1 DEF TypeOK, vars
<1>2. CASE GetConnection \/ GrowEnds \/ ReturnNull \/ Reset \/ ResetReturns
  BY <1>2 DEF TypeOK, GetConnection, GrowEnds, ReturnNull, Reset, ResetReturns, Goto
<1>3. CASE Take
  BY <1>3 DEF TypeOK, Take, Goto, Pop
<1>4. CASE DeleteHead
  BY <1>4 DEF TypeOK, DeleteHead, Pop
<1>5. CASE \E c \in Conns : GrowOne(c) \/ ReleaseConnection(c)
  BY <1>5 DEF TypeOK, GrowOne, ReleaseConnection, Push
<1> QED BY <1>1, <1>2, <1>3, <1>4, <1>5 DEF Next

(* A step keeps it. *)
LEMMA NextInv == ASSUME NULL \notin Conns PROVE Inv /\ [Next]_vars => Inv'
<1> SUFFICES ASSUME Inv, [Next]_vars PROVE Inv'
  OBVIOUS
<1>1. TypeOK /\ TypeOK'
  BY NextTypeOK DEF Inv
<1>2. CASE UNCHANGED vars
  <2>1. OnList' = OnList
    BY <1>2, SameList DEF vars
  <2> QED BY <1>1, <1>2, <2>1 DEF Inv, vars, NoneLostOrShared, ListIsSimple, CallProgress
<1>3. CASE GetConnection \/ GrowEnds \/ ReturnNull \/ Reset \/ ResetReturns
  <2>1. UNCHANGED <<freelist, pNext, heap, grown, given>>
    BY <1>3 DEF GetConnection, GrowEnds, ReturnNull, Reset, ResetReturns
  <2>2. OnList' = OnList
    BY <2>1, SameList
  <2>3. NoneLostOrShared' /\ ListIsSimple'
    BY <2>1, <2>2 DEF Inv, NoneLostOrShared, ListIsSimple
  <2>4. freelist = NULL <=> OnList = {}
    BY <1>1, EmptyList
  <2>5. CallProgress'
    BY <1>3, <2>1, <2>2, <2>4
       DEF Inv, CallProgress, GetConnection, GrowEnds, ReturnNull, Reset, ResetReturns, Goto
  <2> QED BY <1>1, <2>3, <2>5 DEF Inv
<1>4. CASE Take
  <2>1. Pop /\ \A c \in OnList \ {freelist} : pNext'[c] = pNext[c]
    BY <1>1, <1>4 DEF Take, TypeOK, OnList
  <2>2. OnList' = OnList \ {freelist} /\ freelist \in OnList
    BY <1>1, <2>1, PopRemoves, EmptyList DEF Inv, Pop
  <2>3. ListIsSimple'
    BY <1>1, <2>1, PopKeepsSimple DEF Inv
  <2>4. NoneLostOrShared'
    BY <1>4, <2>2 DEF Inv, NoneLostOrShared, Take
  <2>5. CallProgress'
    BY <1>4 DEF CallProgress, Take, Goto
  <2> QED BY <1>1, <2>3, <2>4, <2>5 DEF Inv
<1>5. CASE DeleteHead
  <2>1. Pop /\ \A c \in OnList \ {freelist} : pNext'[c] = pNext[c]
    BY <1>5 DEF DeleteHead
  <2>2. OnList' = OnList \ {freelist} /\ freelist \in OnList
    BY <1>1, <2>1, PopRemoves, EmptyList DEF Inv, Pop
  <2>3. ListIsSimple'
    BY <1>1, <2>1, PopKeepsSimple DEF Inv
  <2>4. NoneLostOrShared'
    BY <1>5, <2>2 DEF Inv, NoneLostOrShared, DeleteHead
  <2>5. CallProgress'
    BY <1>5 DEF Inv, CallProgress, DeleteHead
  <2> QED BY <1>1, <2>3, <2>4, <2>5 DEF Inv
<1>6. ASSUME NEW c \in Conns, GrowOne(c) PROVE Inv'
  <2>1. c \notin OnList /\ Push(c)
    BY <1>6 DEF Inv, NoneLostOrShared, GrowOne
  <2>2. OnList' = OnList \cup {c}
    BY <1>1, <2>1, PushAdds
  <2>3. ListIsSimple'
    BY <1>1, <2>1, PushKeepsSimple DEF Inv
  <2>4. NoneLostOrShared'
    BY <1>6, <2>2 DEF Inv, NoneLostOrShared, GrowOne
  <2>5. CallProgress'
    BY <1>6, <2>2 DEF Inv, CallProgress, GrowOne
  <2> QED BY <1>1, <2>3, <2>4, <2>5 DEF Inv
<1>7. ASSUME NEW c \in Conns, ReleaseConnection(c) PROVE Inv'
  <2>1. c \notin OnList /\ Push(c)
    BY <1>7 DEF Inv, NoneLostOrShared, ReleaseConnection
  <2>2. OnList' = OnList \cup {c}
    BY <1>1, <2>1, PushAdds
  <2>3. ListIsSimple'
    BY <1>1, <2>1, PushKeepsSimple DEF Inv
  <2>4. NoneLostOrShared'
    BY <1>7, <2>2 DEF Inv, NoneLostOrShared, ReleaseConnection
  <2>5. CallProgress'
    BY <1>7 DEF Inv, CallProgress, ReleaseConnection
  <2> QED BY <1>1, <2>3, <2>4, <2>5 DEF Inv
<1> QED BY <1>2, <1>3, <1>4, <1>5, <1>6, <1>7 DEF Next

(* The inductive invariant holds in every state. *)
THEOREM InvCorrect == ASSUME NULL \notin Conns PROVE Spec => []Inv
BY InitInv, NextInv, PTL DEF Spec

(* GetConnection, Grow, ReleaseConnection and Reset lose no object and     *)
(* hand none out twice.                                                    *)
THEOREM NoneLostOrSharedCorrect == ASSUME NULL \notin Conns PROVE Spec => []NoneLostOrShared
<1>1. Inv => NoneLostOrShared
  BY DEF Inv
<1> QED BY InvCorrect, <1>1, PTL

(* The list the code walks and pops has no cycle and no shared tail. *)
THEOREM ListIsSimpleCorrect == ASSUME NULL \notin Conns PROVE Spec => []ListIsSimple
<1>1. Inv => ListIsSimple
  BY DEF Inv
<1> QED BY InvCorrect, <1>1, PTL

-----------------------------------------------------------------------------
(* The refinement.                                                         *)

(* An empty pool is one of ConnectionPoolLife. *)
LEMMA InitLife == ASSUME NULL \notin Conns PROVE Init => Life!Init
<1> SUFFICES ASSUME Init PROVE Life!Init
  OBVIOUS
<1>1. OnList = {}
  BY InitInv, EmptyList DEF Inv, Init
<1> QED BY <1>1 DEF Init, Life!Init

(* A step is one of ConnectionPoolLife, or one its user does not see.      *)
LEMMA NextLife ==
  ASSUME NULL \notin Conns
  PROVE  Inv /\ Inv' /\ [Next]_vars => [Life!Next]_<<heap \ grown, OnList \ grown>>
<1> SUFFICES ASSUME Inv, Inv', [Next]_vars
             PROVE  [Life!Next]_<<heap \ grown, OnList \ grown>>
  OBVIOUS
<1> USE DEF Inv
<1>1. OnList \subseteq Conns
  BY ListClosed
<1>2. CASE UNCHANGED vars
  BY <1>2, SameList DEF vars
<1>3. CASE GetConnection \/ GrowEnds \/ ReturnNull \/ Reset \/ ResetReturns
  BY <1>3, SameList DEF GetConnection, GrowEnds, ReturnNull, Reset, ResetReturns
<1>4. CASE Take
  <2>1. Pop /\ \A c \in OnList \ {freelist} : pNext'[c] = pNext[c]
    BY <1>4 DEF Take, TypeOK, OnList
  <2>2. OnList' = OnList \ {freelist} /\ freelist \in OnList
    BY <2>1, PopRemoves, EmptyList DEF Pop
  <2>3. grown # {} => grown = OnList
    BY DEF CallProgress
  <2>4. heap' = heap /\ grown' = {}
    BY <1>4 DEF Take
  <2>5. grown \in SUBSET (Conns \ (heap \ grown)) /\ grown \subseteq heap
    BY <1>1, <2>3 DEF TypeOK, NoneLostOrShared
  <2>6. Life!GetConnection(grown, freelist)
    BY <2>2, <2>3, <2>4, <2>5 DEF Life!GetConnection
  <2> QED BY <1>1, <2>2, <2>5, <2>6 DEF Life!Next
<1>5. CASE DeleteHead
  <2>1. Pop /\ \A c \in OnList \ {freelist} : pNext'[c] = pNext[c]
    BY <1>5 DEF DeleteHead
  <2>2. OnList' = OnList \ {freelist} /\ freelist \in OnList
    BY <2>1, PopRemoves, EmptyList DEF Pop
  <2>3. grown = {} /\ grown' = {} /\ heap' = heap \ {freelist}
    BY <1>5 DEF CallProgress, DeleteHead
  <2>4. Life!Delete(freelist)
    BY <2>2, <2>3 DEF Life!Delete
  <2> QED BY <1>1, <2>2, <2>4 DEF Life!Next
<1>6. ASSUME NEW c \in Conns, GrowOne(c)
      PROVE  UNCHANGED <<heap \ grown, OnList \ grown>>
  <2>1. c \notin OnList /\ Push(c)
    BY <1>6 DEF NoneLostOrShared, GrowOne
  <2>2. OnList' = OnList \cup {c}
    BY <2>1, PushAdds
  <2>3. heap' = heap \cup {c} /\ grown' = grown \cup {c} /\ c \notin heap
    BY <1>6 DEF GrowOne
  <2> QED BY <2>1, <2>2, <2>3
<1>7. ASSUME NEW c \in Conns, ReleaseConnection(c) PROVE Life!Next
  <2>1. c \notin OnList /\ Push(c) /\ c \in heap
    BY <1>7 DEF NoneLostOrShared, ReleaseConnection
  <2>2. OnList' = OnList \cup {c}
    BY <2>1, PushAdds
  <2>3. grown = {} /\ grown' = {} /\ heap' = heap
    BY <1>7 DEF CallProgress, ReleaseConnection
  <2>4. Life!ReleaseConnection(c)
    BY <2>1, <2>2, <2>3 DEF Life!ReleaseConnection
  <2> QED BY <2>4 DEF Life!Next
<1> QED BY <1>2, <1>3, <1>4, <1>5, <1>6, <1>7 DEF Next

(* To its user the linked list is a set: the pool implements               *)
(* ConnectionPoolLife.                                                     *)
THEOREM ImplementsLifeCorrect == ASSUME NULL \notin Conns PROVE Spec => ImplementsLife
<1>1. Init => Life!Init
  BY InitLife
<1>2. Inv /\ Inv' /\ [Next]_vars => [Life!Next]_<<heap \ grown, OnList \ grown>>
  BY NextLife
<1> QED BY <1>1, <1>2, InvCorrect, PTL DEF Spec, ImplementsLife, Life!Spec
=============================================================================
