------------------------------ MODULE MCTcpQuiet ------------------------------
(***************************************************************************)
(* TcpStunThread with a history variable: how long ago the server last     *)
(* received bytes from, or sent bytes to, each connection.                 *)
(***************************************************************************)
EXTENDS TcpStunThread

VARIABLE quiet   \* time since the last traffic, counted up to SweepTimeout

Traffic(c) ==
  \/ pc \in {"receive", "write"} /\ c = cur /\ conn'[c] # conn[c]
  \/ age'[c] = 0

QuietInit == Init /\ quiet = [c \in Conns |-> 0]

QuietNext ==
  \/ Step /\ quiet' = [c \in Conns |-> IF Traffic(c) THEN 0 ELSE quiet[c]]
  \/ Tick /\ quiet' = [c \in Conns |-> Older(quiet[c], SweepTimeout)]

QuietSpec == QuietInit /\ [][QuietNext]_<<vars, quiet>>

(* The comment of Run says of the sweep: "close any connection that we     *)
(* haven't heard from in a while".  So it closes none that had traffic     *)
(* within the current unit of time.                                        *)
ClosesOnlyQuiet == [][\A c \in Conns : SweepClose(c) => quiet[c] > 0]_<<vars, quiet>>

=============================================================================
