------------------------------ MODULE MCFrames ------------------------------
(* TLC instance of Frames: frames that are too short, the shortest, the     *)
(* longest that fits, and one that is longer.                               *)
EXTENDS Frames
=============================================================================
