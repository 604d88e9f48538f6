--------------------------- MODULE MCServiceControl ---------------------------
(* The TLC instance of ServiceControl. *)
EXTENDS ServiceControl

CONSTANTS main, handler

BothThreads == {main, handler}
=============================================================================
