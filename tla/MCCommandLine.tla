--------------------------- MODULE MCCommandLine ---------------------------
(* TLC instance of CommandLine: buffers of five cells and two arguments, and  *)
(* lists of one, two (with a repeated word) and too many handlers.            *)
EXTENDS CommandLine

CONSTANTS a, b

SomeTables == {<< <<a>>, <<b, a>> >>, << <<a>>, <<a>>, <<b>> >>,
               << <<b>>, <<b>>, <<b>>, <<a>> >>}
=============================================================================
