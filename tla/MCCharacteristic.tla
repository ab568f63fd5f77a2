-------------------------- MODULE MCCharacteristic --------------------------
(* TLC instance of Characteristic. *)
EXTENDS Characteristic
=============================================================================
