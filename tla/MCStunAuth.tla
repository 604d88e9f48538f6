------------------------------ MODULE MCStunAuth ------------------------------
(* The TLC instance of StunAuth. *)
EXTENDS StunAuth
=============================================================================
