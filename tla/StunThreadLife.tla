---------------------------- MODULE StunThreadLife ----------------------------
(***************************************************************************)
(* What a STUN server promises about the threads that serve its sockets:   *)
(* a thread object runs at most once, it runs only while the sockets are   *)
(* open, it ends only when told to stop, and it is destroyed only when it  *)
(* is not running.  No code: an abstract specification.                    *)
(***************************************************************************)

CONSTANT Threads

VARIABLES
  life,      \* the stage of each thread object's life
  stopping,  \* threads told to stop
  serving    \* the sockets are open

lifeVars == <<life, stopping, serving>>

LifeInit ==
  /\ life = [t \in Threads |-> "absent"]
  /\ stopping = {}
  /\ serving = FALSE

(* The server opens its sockets and creates its threads. *)
Create ==
  /\ ~serving
  /\ \E made \in SUBSET Threads :
       life' = [t \in Threads |-> IF t \in made THEN "ready" ELSE "absent"]
  /\ stopping' = {}
  /\ serving' = TRUE

Begin(t) ==
  /\ life[t] = "ready"
  /\ t \notin stopping
  /\ life' = [life EXCEPT ![t] = "running"]
  /\ UNCHANGED <<stopping, serving>>

Ask(t) ==
  /\ life[t] # "absent"
  /\ stopping' = stopping \cup {t}
  /\ UNCHANGED <<life, serving>>

End(t) ==
  /\ life[t] = "running"
  /\ t \in stopping
  /\ life' = [life EXCEPT ![t] = "ended"]
  /\ UNCHANGED <<stopping, serving>>

(* Joined, or never started: the object will not run again. *)
Retire(t) ==
  /\ life[t] \in {"ready", "ended"}
  /\ t \in stopping
  /\ life' = [life EXCEPT ![t] = "retired"]
  /\ UNCHANGED <<stopping, serving>>

Destroy ==
  /\ \A t \in Threads : life[t] # "running"
  /\ life' = [t \in Threads |-> "absent"]
  /\ serving' = FALSE
  /\ stopping' = {}

LifeNext ==
  \/ Create \/ Destroy
  \/ \E t \in Threads : Begin(t) \/ Ask(t) \/ End(t) \/ Retire(t)

LifeSpec == LifeInit /\ [][LifeNext]_lifeVars
=============================================================================
