---------------------------- MODULE StunAuth_proofs ---------------------------
(***************************************************************************)
(* How far CLongTermAuth is from ChallengeAnswered: for every set of       *)
(* users, every life of a nonce and however requests are lost, repeated or *)
(* delayed, it lets no client in that answers its challenges.  Two faults  *)
(* each suffice: the realm is looked up under the nonce, and no nonce of   *)
(* the server passes its own ValidateNonce.                                *)
(***************************************************************************)
EXTENDS StunAuth, TLAPS

(* A nonce attribute that is absent, or made by CreateNonce at some time. *)
Made(nonce) ==
  nonce.colon /\ nonce.hmac = Hmac(WithColon(nonce.time))

(* Clients send the nonces they were sent. *)
NonceInv ==
  /\ \A req \in requests : req.nonce = Text("") \/ Made(req.nonce)
  /\ \A rsp \in responses : rsp.nonce = Text("") \/ Made(rsp.nonce)

(* The long-term provider refuses every request there is: it challenges    *)
(* the client again and again (CLongTermAuth::DoAuthCheck).                *)
LongTermRefuses ==
  mech = "long" => \A h \in handled : h.result = Result("Unauthorized", "")

(* Were the realm right, no nonce of the server would be valid: the text   *)
(* that was signed ends in a colon, the one compared does not              *)
(* (CreateNonce and ValidateNonce).                                        *)
NoNonceValid == \A rsp \in responses : ~ValidateNonce(rsp.nonce)

RefuseInv == NonceInv /\ LongTermRefuses

-----------------------------------------------------------------------------
(* A nonce of the server does not pass its check. *)
LEMMA MadeIsInvalid == ASSUME NEW nonce, Made(nonce) PROVE ~ValidateNonce(nonce)
<1>1. WithColon(nonce.time) # WithoutColon(nonce.time)
  BY DEF WithColon, WithoutColon
<1>2. Hmac(WithColon(nonce.time)) # Hmac(WithoutColon(nonce.time))
  BY <1>1 DEF Hmac
<1> QED
  BY <1>2 DEF Made, ValidateNonce

(* Nor does a text that CreateNonce did not make. *)
LEMMA TextIsInvalid == ASSUME NEW s PROVE ~ValidateNonce(Text(s))
<1>1. Text(s).colon = FALSE
  BY DEF Text
<1> QED
  BY <1>1 DEF ValidateNonce

(* CreateNonce makes one. *)
LEMMA CreateNonceMade == Made(CreateNonce)
BY DEF Made, CreateNonce

(* LookupPassword is asked for a realm that no nonce is. *)
LEMMA RealmIsNoNonce ==
  ASSUME NEW req, req.nonce = Text("") \/ Made(req.nonce)
  PROVE  LongTermCheck(req) = Result("Unauthorized", "")
<1>1. CASE req.nonce = Text("")
  BY <1>1 DEF LongTermCheck
<1>2. CASE Made(req.nonce)
  <2>1. req.nonce # Text(Realm)
    BY <1>2 DEF Made, Text
  <2>2. ~LookupPassword(TRUE, req.user, req.nonce)
    BY <2>1 DEF LookupPassword
  <2> QED
    BY <2>2 DEF LongTermCheck
<1> QED
  BY <1>1, <1>2

(* Requests carry nonces of responses, responses those of CreateNonce. *)
LEMMA NextRefuse == RefuseInv /\ [Next]_vars => RefuseInv'
<1> SUFFICES ASSUME RefuseInv, [Next]_vars PROVE RefuseInv'
  OBVIOUS
<1> USE DEF RefuseInv
<1>1. ASSUME NEW req, Send(req), req.nonce = Text("") \/ Made(req.nonce) PROVE RefuseInv'
  BY <1>1 DEF Send, NonceInv, LongTermRefuses
<1>2. CASE Ask
  <2>1. Request("", Text(""), Text(""), FALSE).nonce = Text("")
    BY DEF Request
  <2> QED
    BY <1>1, <1>2, <2>1 DEF Ask
<1>3. ASSUME NEW user \in Users \cup Strangers, AskAs(user) PROVE RefuseInv'
  <2>1. Request(user, Text(""), Text(""), TRUE).nonce = Text("")
    BY DEF Request
  <2> QED
    BY <1>1, <1>3, <2>1 DEF AskAs
<1>4. ASSUME NEW user \in Users \cup Strangers, Answer(user) PROVE RefuseInv'
  <2>1. PICK rsp \in responses : Send(Request(user, rsp.realm, rsp.nonce, TRUE))
    BY <1>4 DEF Answer
  <2>2. Request(user, rsp.realm, rsp.nonce, TRUE).nonce = rsp.nonce
    BY DEF Request
  <2> QED
    BY <1>1, <2>1, <2>2 DEF NonceInv
<1>5. ASSUME NEW req \in requests, Handle(req) PROVE RefuseInv'
  <2> DEFINE rsp == [type  |-> DoAuthCheck(req).type,
                     realm |-> IF mech = "long" THEN Text(Realm) ELSE Text(""),
                     nonce |-> IF mech = "long" THEN CreateNonce ELSE Text("")]
  <2>1. /\ responses' = responses \cup {rsp} /\ UNCHANGED <<mech, requests>>
        /\ handled' = {[req |-> req, time |-> now, result |-> DoAuthCheck(req)]}
    BY <1>5 DEF Handle
  <2>2. rsp.nonce = Text("") \/ Made(rsp.nonce)
    BY CreateNonceMade
  <2>3. NonceInv'
    BY <2>1, <2>2 DEF NonceInv
  <2>4. mech = "long" => DoAuthCheck(req) = Result("Unauthorized", "")
    BY RealmIsNoNonce DEF DoAuthCheck, NonceInv
  <2>5. ASSUME mech = "long", NEW h \in handled' PROVE h.result = Result("Unauthorized", "")
    <3>1. h = [req |-> req, time |-> now, result |-> DoAuthCheck(req)]
      BY <2>1, <2>5
    <3>2. h.result = DoAuthCheck(req)
      BY <3>1
    <3> QED
      BY <3>2, <2>4, <2>5
  <2>6. LongTermRefuses'
    BY <2>1, <2>5 DEF LongTermRefuses, Result
  <2> QED
    BY <2>3, <2>6
<1>6. CASE Tick \/ UNCHANGED vars
  BY <1>6 DEF Tick, vars, NonceInv, LongTermRefuses
<1> QED
  BY <1>2, <1>3, <1>4, <1>5, <1>6 DEF Next

(* RefuseInv holds in every state. *)
LEMMA RefuseCorrect == Spec => []RefuseInv
<1>1. Init => RefuseInv
  BY DEF Init, RefuseInv, NonceInv, LongTermRefuses
<1> QED
  BY <1>1, NextRefuse, PTL DEF Spec

(* The long-term provider refuses everyone. *)
THEOREM LongTermRefusesCorrect == Spec => []LongTermRefuses
<1>1. RefuseInv => LongTermRefuses
  BY DEF RefuseInv
<1> QED
  BY <1>1, RefuseCorrect, PTL

(* No nonce of the server is ever valid. *)
THEOREM NoNonceValidCorrect == Spec => []NoNonceValid
<1>1. RefuseInv => NoNonceValid
  <2> SUFFICES ASSUME RefuseInv, NEW rsp \in responses PROVE ~ValidateNonce(rsp.nonce)
    BY DEF NoNonceValid
  <2>1. CASE rsp.nonce = Text("")
    BY <2>1, TextIsInvalid
  <2>2. CASE Made(rsp.nonce)
    BY <2>2, MadeIsInvalid
  <2> QED
    BY <2>1, <2>2 DEF RefuseInv, NonceInv
<1> QED
  BY <1>1, RefuseCorrect, PTL
=============================================================================
