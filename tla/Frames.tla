------------------------------- MODULE Frames -------------------------------
(***************************************************************************)
(* The frames of the DW1000: set_tx_buffer, get_tx_buffer (which reads     *)
(* the receive buffer), transmit_now and transmit_deffered of              *)
(* src/nodes/common/dw1000.cpp, called by the foreground and by a callback *)
(* that interrupts it.                                                     *)
(*                                                                         *)
(* set_tx_buffer is two SPI transactions, the data and the frame control,  *)
(* and decamutexon does nothing: a callback may come between them, and     *)
(* between a transmission that is armed and the frame that leaves.  A      *)
(* transaction is one step here; module SpiBus has its inside.             *)
(*                                                                         *)
(* A byte is the number of the frame it belongs to, 0 before any.  The     *)
(* driver is external: it writes a frame without the check sequence, which *)
(* the length includes and the chip appends, and puts one byte before it.  *)
(* Of a frame shorter than its check sequence it writes the difference, in *)
(* 32 bits without a sign: nobody compares, and the copy of almost all of  *)
(* the address space ends the program.                                     *)
(***************************************************************************)
EXTENDS Integers, Sequences

CONSTANTS
  SpiBufferSize,  \* spi_buffer_size, 128
  MaxFrame,       \* bytes of a standard frame, 127
  Fcs,            \* default_extra_size, 2
  Header,         \* bytes of an SPI header without offset, 1
  Memory,         \* bytes of the chip's buffers
  Word,           \* values of a transaction's length, 2^32
  Lengths,        \* lengths of the frames that are sent, and of those that are read
  MaxFrames       \* bound on the frames

ASSUME LengthAssumption ==
  /\ {SpiBufferSize, MaxFrame, Fcs, Header, Memory, MaxFrames, Word} \subseteq Nat
  /\ Lengths \subseteq 0 .. Memory
  /\ Header + MaxFrame <= SpiBufferSize
  /\ SpiBufferSize + Header + Memory + Fcs < Word

VARIABLES
  at,         \* where each context stands
  span,       \* the frame it has, [id, length]
  used,       \* number of frames so far
  tx_memory,  \* the chip's transmit buffer
  tx_length,  \* and frame control
  armed,      \* a delayed transmission waits for its time
  rx_memory,  \* the receive buffer of the peer
  rx_length,  \* and the length of the frame it has received
  got,        \* what was read of it
  longest,    \* history: the longest frame that anybody has asked for
  overran,    \* history: a transaction was too long; the memory it has overwritten
              \* behind the buffers is not modelled
  logged,     \* history: the code has noticed one that was too long
  whole,      \* history: for each context, the chip's buffer is as it has set it
  started     \* history: the transmission started last, [by, deferred, frame, kept];
              \* kept while what it sends is as the context has set it

buffers == <<tx_memory, tx_length, rx_memory, rx_length>>
vars == <<at, span, used, tx_memory, tx_length, armed, rx_memory, rx_length,
          got, longest, overran, logged, whole, started>>

Main     == "foreground"
Callback == "callback"
Contexts == {Main, Callback}
Places   == {"idle", "written", "ready", "faulted"}
None     == [id |-> 0, length |-> 0]

Faulted == \E c \in Contexts : at[c] = "faulted"

\* The foreground stands still while the callback runs, and everybody after a fault.
Runs(c) == ~Faulted /\ (c = Main => at[Callback] = "idle")

\* The first n bytes of a buffer become those of a frame.
Overlay(memory, id, n) == [i \in DOMAIN memory |-> IF i <= n THEN id ELSE memory[i]]

\* A transaction for a frame of n bytes, body of them after its header: what is too
\* long is logged, and done.  The sum is computed in 32 bits.
Transaction(n, body) ==
  /\ longest' = IF n > longest THEN n ELSE longest
  /\ overran' = (overran \/ Header + body > SpiBufferSize)
  /\ logged'  = (logged \/ (Header + body) % Word > SpiBufferSize)

-----------------------------------------------------------------------------
Init ==
  /\ at        = [c \in Contexts |-> "idle"]
  /\ span      = [c \in Contexts |-> None]
  /\ used      = 0
  /\ tx_memory = [i \in 1 .. Memory |-> 0]
  /\ tx_length = 0
  /\ armed     = FALSE
  /\ rx_memory = [i \in 1 .. Memory |-> 0]
  /\ rx_length = 0
  /\ got       = <<>>
  /\ longest   = 0
  /\ overran   = FALSE
  /\ logged    = FALSE
  /\ whole     = [c \in Contexts |-> FALSE]
  /\ started   = [by |-> Main, deferred |-> FALSE, frame |-> None, kept |-> FALSE]

\* Mutant: the rest of a longer frame is overwritten as well.
WriteTxDataLonger(c, n) ==
  /\ at[c] = "idle" /\ Runs(c) /\ n >= Fcs
  /\ used < MaxFrames
  /\ used'      = used + 1
  /\ span'      = [span EXCEPT ![c] = [id |-> used', length |-> n]]
  /\ tx_memory' = [i \in 1 .. Memory |-> IF i <= n - Fcs THEN used' ELSE MaxFrames]
  /\ at'        = [at EXCEPT ![c] = "written"]
  /\ whole'     = [d \in Contexts |-> d = c]
  /\ started'   = [started EXCEPT !.kept = @ /\ ~armed]
  /\ Transaction(n, n - Fcs)
  /\ UNCHANGED <<tx_length, armed, rx_memory, rx_length, got>>

\* set_tx_buffer: dwt_writetxdata.
WriteTxData(c, n) ==
  /\ at[c] = "idle" /\ Runs(c) /\ n >= Fcs
  /\ used < MaxFrames
  /\ used'      = used + 1
  /\ span'      = [span EXCEPT ![c] = [id |-> used', length |-> n]]
  /\ tx_memory' = Overlay(tx_memory, used', n - Fcs)
  /\ at'        = [at EXCEPT ![c] = "written"]
  /\ whole'     = [d \in Contexts |-> d = c]
  /\ started'   = [started EXCEPT !.kept = @ /\ ~armed]
  /\ Transaction(n, n - Fcs)
  /\ UNCHANGED <<tx_length, armed, rx_memory, rx_length, got>>

\* The copy into the SPI buffer does not end.
WriteTooShort(c, n) ==
  /\ at[c] = "idle" /\ Runs(c) /\ n < Fcs
  /\ used < MaxFrames
  /\ used' = used + 1
  /\ span' = [span EXCEPT ![c] = [id |-> used', length |-> n]]
  /\ at'   = [at EXCEPT ![c] = "faulted"]
  /\ Transaction(n, Word + n - Fcs)
  /\ UNCHANGED <<buffers, armed, got, whole, started>>

\* Mutant: the length is written without the check sequence.
WriteTxFctrlShort(c) ==
  /\ at[c] = "written" /\ Runs(c)
  /\ tx_length' = span[c].length - Fcs
  /\ at'        = [at EXCEPT ![c] = "ready"]
  /\ whole'     = [d \in Contexts |-> d = c /\ whole[c]]
  /\ started'   = [started EXCEPT !.kept = @ /\ ~armed]
  /\ UNCHANGED <<span, used, tx_memory, armed, rx_memory, rx_length,
                 got, longest, overran, logged>>

\* And dwt_writetxfctrl.
WriteTxFctrl(c) ==
  /\ at[c] = "written" /\ Runs(c)
  /\ tx_length' = span[c].length
  /\ at'        = [at EXCEPT ![c] = "ready"]
  /\ whole'     = [d \in Contexts |-> d = c /\ whole[c]]
  /\ started'   = [started EXCEPT !.kept = @ /\ ~armed]
  /\ UNCHANGED <<span, used, tx_memory, armed, rx_memory, rx_length,
                 got, longest, overran, logged>>

\* The frame in the buffer leaves, and the peer receives it.
Send ==
  /\ rx_length' = tx_length
  /\ rx_memory' = [i \in 1 .. Memory |->
                     IF i <= tx_length - Fcs THEN tx_memory[i] ELSE rx_memory[i]]

\* One transmission at a time.
Start(c, later) ==
  /\ at[c] = "ready" /\ Runs(c)
  /\ ~armed
  /\ started' = [by |-> c, deferred |-> later, frame |-> span[c], kept |-> whole[c]]
  /\ at'      = [at EXCEPT ![c] = "idle"]
  /\ UNCHANGED <<span, used, tx_memory, tx_length, got, longest, overran, logged, whole>>

TransmitNow(c) == Start(c, FALSE) /\ Send /\ UNCHANGED armed

\* The caller goes on while the transmission waits.
TransmitDeffered(c) == Start(c, TRUE) /\ armed' = TRUE /\ UNCHANGED <<rx_memory, rx_length>>

\* The time has passed already, or nothing is transmitted.
Drop(c) ==
  /\ at[c] = "ready" /\ Runs(c)
  /\ at' = [at EXCEPT ![c] = "idle"]
  /\ UNCHANGED <<span, used, buffers, armed, got, longest, overran, logged, whole, started>>

Leave ==
  /\ armed
  /\ armed' = FALSE
  /\ Send
  /\ UNCHANGED <<at, span, used, tx_memory, tx_length, got, longest, overran, logged, whole, started>>

\* Mutant: the check sequence is added to the length.
GetTxBufferExtra(n) ==
  /\ ~Faulted
  /\ got' = SubSeq(rx_memory, 1, n)
  /\ Transaction(n, n + Fcs)
  /\ UNCHANGED <<at, span, used, buffers, armed, whole, started>>

\* get_tx_buffer: as many bytes as the caller asks for, whatever was received.
GetTxBuffer(n) ==
  /\ ~Faulted
  /\ got' = SubSeq(rx_memory, 1, n)
  /\ Transaction(n, n)
  /\ UNCHANGED <<at, span, used, buffers, armed, whole, started>>

Next ==
  \/ \E c \in Contexts :
       \/ \E n \in Lengths : WriteTxData(c, n) \/ WriteTooShort(c, n)
       \/ WriteTxFctrl(c)
       \/ TransmitNow(c)
       \/ TransmitDeffered(c)
       \/ Drop(c)
  \/ Leave
  \/ \E n \in Lengths : GetTxBuffer(n)

Spec == Init /\ [][Next]_vars

-----------------------------------------------------------------------------
Ids  == 0 .. MaxFrames
Span == [id : Ids, length : {0} \cup Lengths]

\* Every variable keeps its type.
TypeOK ==
  /\ at        \in [Contexts -> Places]
  /\ span      \in [Contexts -> Span]
  /\ used      \in Ids
  /\ tx_memory \in [1 .. Memory -> Ids]
  /\ tx_length \in {0} \cup Lengths
  /\ armed     \in BOOLEAN
  /\ rx_memory \in [1 .. Memory -> Ids]
  /\ rx_length \in {0} \cup Lengths
  /\ got       \in Seq(Ids)
  /\ longest   \in {0} \cup Lengths
  /\ overran   \in BOOLEAN
  /\ logged    \in BOOLEAN
  /\ whole     \in [Contexts -> BOOLEAN]
  /\ started   \in [by : Contexts, deferred : BOOLEAN, frame : Span, kept : BOOLEAN]

\* The frame that was meant is what the peer has received.
Arrived ==
  /\ rx_length = started.frame.length
  /\ \A i \in 1 .. started.frame.length - Fcs : rx_memory[i] = started.frame.id

\* A context has set a frame shorter than the check sequence.
Short(c) == span[c].id > 0 /\ span[c].length < Fcs

\* The SPI buffers hold every transaction of standard frames, the longest to the
\* last byte, which is the one that is read with its check sequence.  They are
\* overrun by longer frames, and by one shorter than its check sequence, whose
\* length wraps around; and the comparison notices every overrun but that of such a
\* frame whose header makes the sum wrap around once more.
OnlyOddFramesOverrun ==
  overran =>
    /\ longest > MaxFrame \/ \E c \in Contexts : Short(c)
    /\ logged \/ \E c \in Contexts : Short(c) /\ Header + span[c].length >= Fcs

\* A transmission sends what its context has set, unless another has set the buffer
\* in the meantime, or anybody has before a delayed transmission left.
FramesLeaveWhole == started.kept /\ ~armed => Arrived

\* A callback that sets the buffer and transmits at once sends its own frame,
\* whatever it has interrupted.
CallbacksSendTheirFrames ==
  started.by = Callback /\ ~started.deferred => Arrived

\* What is read is the newest frame, and behind it the rest of older, longer ones;
\* nothing older comes before anything newer.
NewestFirst == \A i, j \in DOMAIN got : i <= j => got[i] >= got[j]
=============================================================================
