---------------------------- MODULE MCCommandTask ----------------------------
(* TLC instance of CommandTask. *)
EXTENDS CommandTask

CONSTANTS t1, t2
=============================================================================
