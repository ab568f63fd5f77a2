-------------------------- MODULE MCBluetoothSetup --------------------------
(* TLC instance of BluetoothSetup. *)
EXTENDS BluetoothSetup
=============================================================================
