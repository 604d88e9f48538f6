-------------------------- MODULE MCContactProtocol --------------------------
(* The TLC instance of ContactProtocol: one client of each version. *)
EXTENDS ContactProtocol, TLC

CONSTANTS c1, c3, c4

OneOfEach == c1 :> "0.1" @@ c3 :> "0.3" @@ c4 :> "0.4"
=============================================================================
