------------------------------ MODULE Console ------------------------------
(***************************************************************************)
(* The UART as write and write_line of src/nodes/common/cli.cpp and        *)
(* cli.hpp use it, from the foreground and from interrupt handlers.        *)
(*                                                                         *)
(* A line is a number of arguments, an argument is written in chunks, and  *)
(* a chunk is one call of nrfx_uarte_tx.  The driver has no event handler: *)
(* it starts the transmission and polls for its end.  While it does so it  *)
(* refuses the calls of whoever interrupts it, even when the transmission  *)
(* is over, and nobody looks at its result.                                *)
(*                                                                         *)
(* Level 0 is the foreground, the others are interrupt priorities, the     *)
(* GPIOTE handler's and above it that of Bluetooth events and timers.      *)
(* Texts are not modelled, only how long they are and how much of them     *)
(* gets onto the wire.                                                     *)
(***************************************************************************)
EXTENDS Naturals

CONSTANTS
  BufferSize,     \* 32
  TopLevel,
  Lengths,        \* the lengths of arguments
  MaxArguments    \* bound on the arguments of a line

ASSUME BufferAssumption == BufferSize \in Nat \ {0}
ASSUME LevelAssumption  == TopLevel \in Nat
ASSUME LengthAssumption == Lengths \subseteq Nat /\ MaxArguments \in Nat

VARIABLES
  at,         \* where each level stands
  arguments,  \* number of arguments of its line begun so far
  size,       \* length of the present one
  begin, end, \* the iterators into it
  due,        \* history: bytes of the arguments begun
  arrived,    \* history: bytes of the line that are on the wire
  cut,        \* history: the line began while a chunk below was being written
  uart        \* the transmitter runs

vars == <<at, arguments, size, begin, end, due, arrived, cut, uart>>

Levels == 0 .. TopLevel
Main   == 0
Places == {"idle", "line", "chunk", "polling"}

\* A handler that has been entered runs to its end before anybody below it.
Runs(c) == \A d \in Levels : d > c => at[d] = "idle"

\* nrfx_uarte_tx_in_progress
Busy == \E c \in Levels : at[c] = "polling"

\* The end of the chunk that begins at from in a text of length n.
End(from, n) == IF n - from < BufferSize THEN n ELSE from + BufferSize

-----------------------------------------------------------------------------
Init ==
  /\ at        = [c \in Levels |-> "idle"]
  /\ arguments = [c \in Levels |-> 0]
  /\ size      = [c \in Levels |-> 0]
  /\ begin     = [c \in Levels |-> 0]
  /\ end       = [c \in Levels |-> 0]
  /\ due       = [c \in Levels |-> 0]
  /\ arrived   = [c \in Levels |-> 0]
  /\ cut       = [c \in Levels |-> FALSE]
  /\ uart      = FALSE

\* write_line is called; above the foreground that is an interrupt as well.
BeginLine(c) ==
  /\ at[c] = "idle" /\ Runs(c)
  /\ at'        = [at EXCEPT ![c] = "line"]
  /\ arguments' = [arguments EXCEPT ![c] = 0]
  /\ due'       = [due EXCEPT ![c] = 0]
  /\ arrived'   = [arrived EXCEPT ![c] = 0]
  /\ cut'       = [cut EXCEPT ![c] = Busy]
  /\ UNCHANGED <<size, begin, end, uart>>

WriteArgument(c, n) ==
  /\ at[c] = "line" /\ Runs(c)
  /\ arguments[c] < MaxArguments
  /\ arguments' = [arguments EXCEPT ![c] = @ + 1]
  /\ size'      = [size EXCEPT ![c] = n]
  /\ begin'     = [begin EXCEPT ![c] = 0]
  /\ end'       = [end EXCEPT ![c] = End(0, n)]
  /\ due'       = [due EXCEPT ![c] = @ + n]
  /\ at'        = [at EXCEPT ![c] = IF n = 0 THEN "line" ELSE "chunk"]
  /\ UNCHANGED <<arrived, cut, uart>>

\* The next chunk of the argument, or the next argument.
Advance(c) ==
  /\ begin' = [begin EXCEPT ![c] = end[c]]
  /\ end'   = [end EXCEPT ![c] = End(end[c], size[c])]
  /\ at'    = [at EXCEPT ![c] = IF end[c] = size[c] THEN "line" ELSE "chunk"]

\* Mutants: the result is checked, and the call repeated until it is accepted;
\* the transmission of whoever was interrupted is replaced.
StartChunkPatient(c) ==
  /\ at[c] = "chunk" /\ Runs(c)
  /\ IF Busy
     THEN UNCHANGED <<at, uart>>
     ELSE at' = [at EXCEPT ![c] = "polling"] /\ uart' = TRUE
  /\ UNCHANGED <<arguments, size, begin, end, due, arrived, cut>>

StartChunkRegardless(c) ==
  /\ at[c] = "chunk" /\ Runs(c)
  /\ at'   = [at EXCEPT ![c] = "polling"]
  /\ uart' = TRUE
  /\ UNCHANGED <<arguments, size, begin, end, due, arrived, cut>>

\* The chunk is copied and handed to the driver, which drops it if it is busy.
StartChunk(c) ==
  /\ at[c] = "chunk" /\ Runs(c)
  /\ IF Busy
     THEN Advance(c) /\ UNCHANGED uart
     ELSE /\ at'   = [at EXCEPT ![c] = "polling"]
          /\ uart' = TRUE
          /\ UNCHANGED <<begin, end>>
  /\ UNCHANGED <<arguments, size, due, arrived, cut>>

\* The transmission ends, whoever runs at that time.
Transmitted ==
  /\ uart
  /\ uart' = FALSE
  /\ \E c \in Levels :
       /\ at[c] = "polling"
       /\ arrived' = [arrived EXCEPT ![c] = @ + (end[c] - begin[c])]
  /\ UNCHANGED <<at, arguments, size, begin, end, due, cut>>

\* Its caller sees the end, and the driver is free again.
FinishChunk(c) ==
  /\ at[c] = "polling" /\ Runs(c)
  /\ ~uart
  /\ Advance(c)
  /\ UNCHANGED <<arguments, size, due, arrived, cut, uart>>

EndLine(c) ==
  /\ at[c] = "line" /\ Runs(c)
  /\ at' = [at EXCEPT ![c] = "idle"]
  /\ UNCHANGED <<arguments, size, begin, end, due, arrived, cut, uart>>

Step(c) ==
  \/ \E n \in Lengths : WriteArgument(c, n)
  \/ StartChunk(c)
  \/ FinishChunk(c)
  \/ EndLine(c)

Next ==
  \/ \E c \in Levels : BeginLine(c) \/ Step(c)
  \/ Transmitted

Spec == Init /\ [][Next]_vars

\* The level that runs goes on, and what is being transmitted ends.
FairSpec ==
  Spec /\ (\A c \in Levels : WF_vars(Step(c))) /\ WF_vars(Transmitted)

-----------------------------------------------------------------------------
\* Every variable keeps its type.
TypeOK ==
  /\ at        \in [Levels -> Places]
  /\ arguments \in [Levels -> 0 .. MaxArguments]
  /\ size      \in [Levels -> Nat]
  /\ begin     \in [Levels -> Nat]
  /\ end       \in [Levels -> Nat]
  /\ due       \in [Levels -> Nat]
  /\ arrived   \in [Levels -> Nat]
  /\ cut       \in [Levels -> BOOLEAN]
  /\ uart      \in BOOLEAN

\* A chunk has at least one byte, fits the buffer it is copied to and lies in the
\* text, also the last one and one that fills the buffer exactly.
ChunksFit ==
  \A c \in Levels : at[c] \in {"chunk", "polling"} =>
    begin[c] < end[c] /\ end[c] <= begin[c] + BufferSize /\ end[c] <= size[c]

\* Whatever interrupts it, the foreground gets every byte of its lines onto the wire.
ForegroundLosesNothing == at[Main] = "line" => arrived[Main] = due[Main]

\* A handler's line gets there as a whole, or not at all; and not at all exactly if
\* the handler has come while a chunk of an interrupted line was being written.
\* No line is lost in part, although each of its chunks may be refused.
LinesAreWholeOrLost ==
  \A c \in Levels : at[c] = "line" => arrived[c] = IF cut[c] THEN 0 ELSE due[c]

\* A handler never waits for what it has interrupted: the highest one returns.
HandlersReturn == at[TopLevel] # "idle" ~> at[TopLevel] = "idle"
=============================================================================
