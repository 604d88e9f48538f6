--------------------------- MODULE MCUdpStunServer ---------------------------
(* TLC instances of UdpStunServer. *)
EXTENDS UdpStunServer
=============================================================================
