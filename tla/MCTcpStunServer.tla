--------------------------- MODULE MCTcpStunServer ----------------------------
(* Instances of TcpStunServer: the configurations main() builds. *)
EXTENDS TcpStunServer

(* Basic mode has the primary role, full mode has all four. *)
BasicAndFull == {{0}, Roles}
=============================================================================
