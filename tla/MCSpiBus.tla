------------------------------ MODULE MCSpiBus ------------------------------
(* TLC instance of SpiBus. *)
EXTENDS SpiBus
=============================================================================
