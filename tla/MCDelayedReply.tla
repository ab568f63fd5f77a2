--------------------------- MODULE MCDelayedReply ---------------------------
(* TLC instance of DelayedReply. *)
EXTENDS DelayedReply
=============================================================================
