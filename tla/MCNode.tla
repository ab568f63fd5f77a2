------------------------------- MODULE MCNode -------------------------------
(* TLC instance of Node: bluetooth::initialize("CliHelloWorld", {}).        *)
EXTENDS Node

CONSTANT t1
=============================================================================
