--------------------------- MODULE StunListenerLife ---------------------------
(***************************************************************************)
(* What the TCP server promises about each of its threads, which own their *)
(* sockets: a thread opens them once, runs at most once while they are     *)
(* open, ends only when told to, and closes them only when it is not       *)
(* running.  No code: an abstract specification.                           *)
(***************************************************************************)

CONSTANT Threads

VARIABLES
  life,     \* the stage of each thread: "absent" has no open socket
  stopping  \* threads told to stop

lifeVars == <<life, stopping>>

LifeInit ==
  /\ life = [t \in Threads |-> "absent"]
  /\ stopping = {}

Open(t) ==
  /\ life[t] = "absent"
  /\ life' = [life EXCEPT ![t] = "ready"]
  /\ UNCHANGED stopping

Begin(t) ==
  /\ life[t] = "ready" /\ t \notin stopping
  /\ life' = [life EXCEPT ![t] = "running"]
  /\ UNCHANGED stopping

Ask(t) ==
  /\ life[t] \in {"running", "ended"}
  /\ stopping' = stopping \cup {t}
  /\ UNCHANGED life

End(t) ==
  /\ life[t] = "running" /\ t \in stopping
  /\ life' = [life EXCEPT ![t] = "ended"]
  /\ UNCHANGED stopping

Close(t) ==
  /\ life[t] \in {"ready", "ended"}
  /\ life' = [life EXCEPT ![t] = "absent"]
  /\ stopping' = stopping \ {t}

LifeNext == \E t \in Threads : Open(t) \/ Begin(t) \/ Ask(t) \/ End(t) \/ Close(t)

LifeSpec == LifeInit /\ [][LifeNext]_lifeVars
=============================================================================
