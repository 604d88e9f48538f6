------------------------------- MODULE StunAuth -------------------------------
(***************************************************************************)
(* The sample authentication providers (STUNsvc/server/                    *)
(* sampleauthprovider.cpp): CShortTermAuth and CLongTermAuth, asked once   *)
(* for every request, and a client that answers their challenges.          *)
(*                                                                         *)
(* The providers keep no state: a nonce carries the time it was created    *)
(* and an HMAC only the server can compute.  Requests and responses are    *)
(* sets that never shrink, so they may be lost, repeated, late or out of   *)
(* order.  Times are seconds, below the 2^31 that atoi() can return.       *)
(***************************************************************************)
EXTENDS Integers

CONSTANTS
  Users,      \* the names in users[]
  Strangers,  \* names that are not
  NonceLife,  \* 120, the age in seconds up to which a nonce is valid
  MaxTime     \* bound: the clock stops here

VARIABLES
  mech,       \* the provider the server was built with
  now,        \* time(NULL)
  requests,   \* every request sent
  responses,  \* every response sent
  handled     \* history: the last request handled, when, and the result

vars == <<mech, now, requests, responses, handled>>

Times == 0 .. MaxTime

-----------------------------------------------------------------------------
(* Names, realms and nonces.  "" is an attribute that is not present.      *)

Realm == "YourRealmNameHere"
Password(user) == <<"password", user>>

(* HMAC-SHA1 under the server's key, as hexadecimal digits: no two texts   *)
(* of interest have the same.                                              *)
Hmac(text) == <<"hmac", text>>

(* The text of a time: "%u:" in CreateNonce; ValidateNonce cuts the colon. *)
WithColon(time) == <<time, ":">>
WithoutColon(time) == <<time>>

CreateNonce == [time |-> now, colon |-> TRUE, hmac |-> Hmac(WithColon(now))]

(* A text that did not come from CreateNonce: no colon in it. *)
Text(s) == [time |-> 0, colon |-> FALSE, hmac |-> s]

(* The age check, then "was it signed by this server?". *)
ValidateNonce(nonce) ==
  /\ nonce.colon
  /\ now - nonce.time \in 0 .. NonceLife
  /\ nonce.hmac = Hmac(WithoutColon(nonce.time))

-----------------------------------------------------------------------------
(* DoAuthCheck of the two providers: the type of the response and the      *)
(* password the message integrity is checked against.                      *)

Result(type, password) == [type |-> type, password |-> password]

(* LookupPassword succeeds; the realm matters only when fWithRealm. *)
LookupPassword(fWithRealm, user, realm) ==
  /\ fWithRealm => realm = Text(Realm)
  /\ user \in Users

ShortTermCheck(req) ==
  IF ~req.integrity THEN Result("Reject", "")
  ELSE IF LookupPassword(FALSE, req.user, Text(""))
    THEN Result("AllowConditional", Password(req.user))
    ELSE Result("Unauthorized", "")

(* The realm given to LookupPassword is the nonce of the request (line 119). *)
LongTermCheck(req) ==
  IF ~req.integrity \/ req.nonce = Text("") \/ req.user = ""
     \/ ~LookupPassword(TRUE, req.user, req.nonce)
    THEN Result("Unauthorized", "")
  ELSE IF ~ValidateNonce(req.nonce) THEN Result("StaleNonce", Password(req.user))
  ELSE Result("AllowConditional", Password(req.user))

DoAuthCheck(req) == IF mech = "short" THEN ShortTermCheck(req) ELSE LongTermCheck(req)

-----------------------------------------------------------------------------
Init ==
  /\ mech \in {"short", "long"}
  /\ now = 0
  /\ requests = {} /\ responses = {}
  /\ handled = {}

Request(user, realm, nonce, integrity) ==
  [user |-> user, realm |-> realm, nonce |-> nonce, integrity |-> integrity]

Send(req) ==
  /\ requests' = requests \cup {req}
  /\ UNCHANGED <<mech, now, responses, handled>>

(* A client asks without credentials, *)
Ask == Send(Request("", Text(""), Text(""), FALSE))

(* or with its name and password alone, the short-term way, *)
AskAs(user) == Send(Request(user, Text(""), Text(""), TRUE))

(* or answers a challenge with the realm and the nonce it was sent. *)
Answer(user) ==
  \E rsp \in responses :
    /\ rsp.type \in {"Unauthorized", "StaleNonce"} /\ rsp.nonce # Text("")
    /\ Send(Request(user, rsp.realm, rsp.nonce, TRUE))

(* The server asks its provider about a request, old or new.  Only the     *)
(* long-term provider fills in a realm and a nonce for the error response. *)
Handle(req) ==
  LET result == DoAuthCheck(req) IN
  /\ responses' = responses \cup
       {[type  |-> result.type,
         realm |-> IF mech = "long" THEN Text(Realm) ELSE Text(""),
         nonce |-> IF mech = "long" THEN CreateNonce ELSE Text("")]}
  /\ handled' = {[req |-> req, time |-> now, result |-> result]}
  /\ UNCHANGED <<mech, now, requests>>

Tick ==
  /\ now < MaxTime
  /\ now' = now + 1
  /\ UNCHANGED <<mech, requests, responses, handled>>

Next ==
  \/ Ask \/ Tick
  \/ \E user \in Users \cup Strangers : AskAs(user) \/ Answer(user)
  \/ \E req \in requests : Handle(req)

Spec == Init /\ [][Next]_vars

-----------------------------------------------------------------------------
(* Properties.                                                             *)

(* The server sent this nonce, no more than two minutes before. *)
FreshNonce(nonce, time) ==
  \E rsp \in responses : rsp.nonce = nonce /\ nonce.colon /\ time - nonce.time \in 0 .. NonceLife

(* "Validation of a nonce is to just to make sure the timestamp isn't more *)
(* than a couple of minutes old and that the hmac hash matches"            *)
(* (CreateNonce): a client with a password that answers the server's       *)
(* challenge in time, whatever was lost or repeated, is not refused.       *)
ChallengeAnswered ==
  \A h \in handled :
    ( /\ mech = "long"
      /\ h.req.user \in Users /\ h.req.integrity
      /\ h.req.realm = Text(Realm)
      /\ FreshNonce(h.req.nonce, h.time) )
    => h.result = Result("AllowConditional", Password(h.req.user))
=============================================================================
