----------------------------- MODULE MCConsole -----------------------------
(* TLC instance of Console. *)
EXTENDS Console
=============================================================================
