----------------------------- MODULE SpiService -----------------------------
(***************************************************************************)
(* What the SPI transport of src/nodes/common/dw1000.cpp promises to the   *)
(* DW1000 driver: each context has at most one call outstanding, the       *)
(* handler's call is answered before the foreground's, every call returns, *)
(* and a read returns the chip's answer to itself.  The last promise is    *)
(* given only until a handler's call disturbs an outstanding foreground    *)
(* call for the first time: nothing excludes the handler, and the buffers  *)
(* are shared.  Such a call can also end everything: it is then never      *)
(* answered, and no other is.                                              *)
(***************************************************************************)
EXTENDS Naturals

CONSTANT MaxTransactions

VARIABLES
  pending,    \* the call each context waits for, or None
  answer,     \* what the last read of each context returned
  disturbed,  \* a handler's call has met an outstanding foreground call
  stuck       \* a handler's call has met one that it cannot get past

vars == <<pending, answer, disturbed, stuck>>

Contexts == {"main", "irq"}
Tag      == 0 .. MaxTransactions
None     == <<"none", 0>>

Init ==
  /\ pending   = [c \in Contexts |-> None]
  /\ answer    = [c \in Contexts |-> 0]
  /\ disturbed = FALSE
  /\ stuck     = FALSE

\* The foreground is stopped while the handler waits for an answer.
Request(c, op, n) ==
  /\ pending[c] = None
  /\ pending["irq"] = None
  /\ pending' = [pending EXCEPT ![c] = <<op, n>>]
  /\ \/ UNCHANGED <<disturbed, stuck>>
     \/ /\ c = "irq" /\ pending["main"] # None
        /\ disturbed' = TRUE
        /\ stuck' \in BOOLEAN
  /\ UNCHANGED answer

Reply(c) ==
  /\ ~stuck
  /\ pending[c] # None
  /\ c = "main" => pending["irq"] = None
  /\ pending' = [pending EXCEPT ![c] = None]
  /\ \/ pending[c][1] = "write" /\ UNCHANGED answer
     \/ /\ pending[c][1] = "read"
        /\ \E v \in IF disturbed THEN Tag ELSE {pending[c][2]} :
             answer' = [answer EXCEPT ![c] = v]
  /\ UNCHANGED <<disturbed, stuck>>

Next ==
  \E c \in Contexts :
    \/ \E op \in {"read", "write"}, n \in Tag \ {0} : Request(c, op, n)
    \/ Reply(c)

Safe == Init /\ [][Next]_vars
Spec == Safe /\ \A c \in Contexts : WF_vars(Reply(c))
=============================================================================
