---------------------------- MODULE TcpThreadLife -----------------------------
(***************************************************************************)
(* What a TCP server and its threads agree on: how the loop of a thread    *)
(* turns, and how the thread is told to leave it.  The threads of          *)
(* TcpStunServer behave like this, and so does TcpStunThread, which says   *)
(* what they do while they work.  No code: an abstract specification.      *)
(***************************************************************************)

CONSTANT Threads

VARIABLES
  stage,    \* where each thread is; "absent" when there is none
  told,     \* threads told to exit
  notified  \* threads with a byte in the pipe that wakes them

lifeVars == <<stage, told, notified>>

LifeInit ==
  /\ stage \in [Threads -> {"absent", "top"}]
  /\ told = {} /\ notified = {}

Goto(t, where) ==
  /\ stage' = [stage EXCEPT ![t] = where]
  /\ UNCHANGED <<told, notified>>

Begin(t) == stage[t] = "absent" /\ t \notin told \cup notified /\ Goto(t, "top")

(* A thread that was told neither waits nor works any more. *)
Wait(t) == stage[t] = "top" /\ t \notin told /\ Goto(t, "waiting")
Work(t) == stage[t] = "waiting" /\ t \notin told /\ Goto(t, "working")
Turn(t) == stage[t] = "working" /\ Goto(t, "top")

(* It leaves the loop for no other reason. *)
Leave(t) ==
  /\ stage[t] \in {"top", "waiting"} /\ t \in told
  /\ Goto(t, "leaving") \/ Goto(t, "ended")

End(t) == stage[t] = "leaving" /\ Goto(t, "ended")

(* Stop(): the flag, then the byte, then the join. *)
Tell(t) ==
  /\ stage[t] # "absent"
  /\ told' = told \cup {t}
  /\ UNCHANGED <<stage, notified>>

Notify(t) ==
  /\ stage[t] # "absent" /\ t \in told
  /\ notified' = notified \cup {t}
  /\ UNCHANGED <<stage, told>>

Join(t) ==
  /\ stage[t] = "ended" /\ t \in told \cap notified
  /\ stage' = [stage EXCEPT ![t] = "absent"]
  /\ told' = told \ {t} /\ notified' = notified \ {t}

LifeNext ==
  \E t \in Threads :
    \/ Begin(t) \/ Wait(t) \/ Work(t) \/ Turn(t) \/ Leave(t) \/ End(t)
    \/ Tell(t) \/ Notify(t) \/ Join(t)

LifeSpec == LifeInit /\ [][LifeNext]_lifeVars
=============================================================================
