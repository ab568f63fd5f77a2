----------------------------- MODULE MCNumbers -----------------------------
(* TLC instance of Numbers: blocks of up to two rows and a byte.            *)
EXTENDS Numbers

BlocksOf(bytes, n) == UNION {[1 .. k -> bytes] : k \in 0 .. n}
SomeBlocks         == BlocksOf({0, 5, 15}, 5)
=============================================================================
