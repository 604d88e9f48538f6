--------------------------- MODULE MCTcpStunThread ---------------------------
(* TLC instances of TcpStunThread: objects and descriptors are alike, so   *)
(* their permutations are symmetries of the safety runs.                   *)
EXTENDS TcpStunThread, TLC

Symmetry == Permutations(Conns) \cup Permutations(Socks)

\* Every call may fail; that growing the pool fails half-way is left to the
\* liveness run.
MostFaults == FaultKinds \ {"memory"}
=============================================================================
