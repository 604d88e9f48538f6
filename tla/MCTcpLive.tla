------------------------------- MODULE MCTcpLive -------------------------------
(***************************************************************************)
(* TcpStunThread under its fairness, with a history variable: for how long *)
(* the thread has waited for an event since a connection was accepted, not *)
(* counting what a wait takes beyond its own timeout.                      *)
(***************************************************************************)
EXTENDS TcpStunThread

VARIABLE waited   \* per object in use, counted up to one more than the limit

LifetimeLimit == 4 * SweepTimeout - 2

LiveInit == Init /\ waited = [c \in Conns |-> 0]

Waits(c) == pc = "poll" /\ ~PollTimedOut /\ c \in InUse

LiveNext ==
  \/ Step /\ waited' = [c \in Conns |-> IF c \in InUse' THEN waited[c] ELSE 0]
  \/ Tick /\ waited' = [c \in Conns |-> IF Waits(c) THEN Older(waited[c], LifetimeLimit + 1)
                                        ELSE waited[c]]

LiveSpec == LiveInit /\ [][LiveNext]_<<vars, waited>> /\ Fairness

(* However slow the thread is, no connection outlives four sweep periods   *)
(* of waiting: it may wait almost two for the sweep that moves it to the   *)
(* old table, and the sweep that closes it comes within almost two more    *)
(* (Run, GetTimeoutSeconds, SweepDeadConnections).                         *)
LifetimeBound == \A c \in InUse : waited[c] <= LifetimeLimit
=============================================================================
