--------------------------- MODULE MCHostSession ---------------------------
(* TLC instance of HostSession. *)
EXTENDS HostSession
=============================================================================
