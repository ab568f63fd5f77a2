---------------------------- MODULE DelayedReply ----------------------------
(***************************************************************************)
(* Timestamps and the delayed transmission of src/nodes/common/dw1000.cpp: *)
(* an application takes the time of a reception, or the present time, adds *)
(* a delay and has a frame transmitted then.                               *)
(*                                                                         *)
(* The chip's time has five bytes and begins anew after them; it hands out *)
(* timestamps byte by byte, the lowest first.  The time of a transmission  *)
(* is set without its lowest byte, and the chip ignores one bit more.      *)
(* Whether that time has passed is told by half of the period: what is     *)
(* less than that ahead is in the future, and refused all the same if it   *)
(* is too near for the transmitter to be powered up.                       *)
(* Time goes on between any two steps of the application, which may be     *)
(* interrupted for as long as it takes.                                    *)
(***************************************************************************)
EXTENDS Integers, Sequences

CONSTANTS
  Byte,       \* values of a byte, 256
  PowerUp,    \* the time the transmitter needs before it can send
  Delays,     \* the delays applications add
  MaxWait     \* bound on the time until the transmission is started

Coarse == Byte * (Byte * (Byte * Byte))   \* times without their lowest byte
Period == Byte * Coarse
Half   == Period \div 2
Grain  == 2 * Byte                        \* times the chip cannot tell apart

ASSUME ByteAssumption == Byte \in Nat \ {0, 1} /\ Byte % 2 = 0
ASSUME WaitAssumption ==
  Delays \subseteq 1 .. Period - 1 /\ MaxWait \in Nat /\ PowerUp \in Nat

VARIABLES
  phase,     \* what the application has come to: idle, event, based, set, accepted or
             \* refused, sent, measured
  clock,     \* the chip's time
  register,  \* bytes of the timestamp to be read next
  base,      \* the time the application has taken
  delay,     \* what it has added
  dx_time,   \* the chip's register of the delayed time
  pending,   \* the chip waits for it
  elapsed,   \* history: the real time since base was the time
  asked_at,  \* history: elapsed when the transmission was started
  left_at    \* history: elapsed when the frame has left, 0 before

replyVars == <<phase, clock, register, base, delay, dx_time, pending,
               elapsed, asked_at, left_at>>

\* The chip's registers: the lowest byte first.
ToBytes(time) ==
  LET t2 == time \div Byte
      t3 == t2 \div Byte
      t4 == t3 \div Byte
      t5 == t4 \div Byte
  IN  <<time % Byte, t2 % Byte, t3 % Byte, t4 % Byte, t5 % Byte>>

\* result << 8 | byte
Shift(result, byte) == result * Byte + byte

\* Mutant: the bytes are read in the order of their addresses.
AssembleForward(b) ==
  Shift(Shift(Shift(Shift(Shift(0, b[1]), b[2]), b[3]), b[4]), b[5])

\* get_rx_timestamp, get_tx_timestamp and get_clock_time go through the five bytes
\* from the last to the first.
Assemble(b) ==
  Shift(Shift(Shift(Shift(Shift(0, b[5]), b[4]), b[3]), b[2]), b[1])

-----------------------------------------------------------------------------
ReplyInit ==
  /\ phase    = "idle"
  /\ clock    \in 0 .. Period - 1
  /\ register = ToBytes(0)
  /\ base     = 0
  /\ delay    = 0
  /\ dx_time  = 0
  /\ pending  = FALSE
  /\ elapsed  = 0
  /\ asked_at = 0
  /\ left_at  = 0

\* A frame is received, or the application reads the time: the chip latches it.
Latch ==
  /\ phase = "idle"
  /\ phase'    = "event"
  /\ register' = ToBytes(clock)
  /\ elapsed'  = 0
  /\ UNCHANGED <<clock, base, delay, dx_time, pending, asked_at, left_at>>

GetRxTimestamp ==
  /\ phase = "event"
  /\ phase' = "based"
  /\ base'  = Assemble(register)
  /\ UNCHANGED <<clock, register, delay, dx_time, pending, elapsed, asked_at, left_at>>

\* Mutant: the time is rounded up.
SetDelayedTimeUp(d) ==
  /\ phase = "based"
  /\ phase'   = "set"
  /\ delay'   = d
  /\ dx_time' = ((base + d) \div Byte + 1) % Coarse
  /\ UNCHANGED <<clock, register, base, pending, elapsed, asked_at, left_at>>

\* transmit_deffered(base + d): the sum is not reduced, the shift loses its lowest
\* byte, and dwt_setdelayedtrxtime what is beyond the period.
SetDelayedTime(d) ==
  /\ phase = "based"
  /\ phase'   = "set"
  /\ delay'   = d
  /\ dx_time' = ((base + d) \div Byte) % Coarse
  /\ UNCHANGED <<clock, register, base, pending, elapsed, asked_at, left_at>>

\* The chip ignores the lowest bit of what dwt_setdelayedtrxtime writes.
Departure == (dx_time - (dx_time % 2)) * Byte

\* dwt_starttx arms the transmission, or the chip finds its time passed (HPDWARN) or
\* too near to power up (TXPUTE), and the transmission is cancelled.
StartDelayed ==
  /\ phase = "set"
  /\ pending'  = ((Departure - clock) % Period \in PowerUp .. Half - 1)
  /\ phase'    = IF pending' THEN "accepted" ELSE "refused"
  /\ asked_at' = elapsed
  /\ UNCHANGED <<clock, register, base, delay, dx_time, elapsed, left_at>>

\* Time goes on as long as it matters.
Tick ==
  /\ \/ phase \in {"event", "based", "set"} /\ elapsed < MaxWait
     \/ phase = "accepted" /\ ~(pending /\ clock = Departure)
  /\ clock'   = (clock + 1) % Period
  /\ elapsed' = IF elapsed < MaxWait + Period THEN elapsed + 1 ELSE elapsed
  /\ UNCHANGED <<phase, register, base, delay, dx_time, pending, asked_at, left_at>>

\* A transmission that is pending leaves at its time.
Depart ==
  /\ pending /\ clock = Departure
  /\ pending'  = FALSE
  /\ phase'    = "sent"
  /\ register' = ToBytes(clock)
  /\ left_at'  = elapsed
  /\ UNCHANGED <<clock, base, delay, dx_time, elapsed, asked_at>>

\* The time it has left at is read; base keeps the time since then.
GetTxTimestamp ==
  /\ phase = "sent"
  /\ phase' = "measured"
  /\ base'  = (Assemble(register) - base) % Period
  /\ UNCHANGED <<clock, register, delay, dx_time, pending, elapsed, asked_at, left_at>>

\* The next exchange.
Again ==
  /\ phase \in {"refused", "measured"}
  /\ phase' = "idle"
  /\ base' = 0 /\ delay' = 0 /\ elapsed' = 0 /\ asked_at' = 0 /\ left_at' = 0
  /\ UNCHANGED <<clock, register, dx_time, pending>>

ReplyNext ==
  \/ Latch
  \/ GetRxTimestamp
  \/ \E d \in Delays : SetDelayedTime(d)
  \/ StartDelayed
  \/ Tick
  \/ Depart
  \/ GetTxTimestamp
  \/ Again

ReplySpec == ReplyInit /\ [][ReplyNext]_replyVars

-----------------------------------------------------------------------------
\* A transmission that was accepted leaves at the time asked for, early by less than
\* what the chip cannot tell apart and never late, although the sum may have gone
\* beyond the period; unless the application took so long that the time asked for was
\* more than half a period ago.
LeavesOnTime ==
  phase \in {"sent", "measured"} /\ asked_at <= delay + Half - Grain =>
    delay - left_at \in 0 .. Grain - 1

\* It is refused only if its time has passed, is too near to power up, or is half a
\* period ahead or more: the bits that are cut off cost the application less than
\* their values.
RefusedOnlyIfPassed ==
  phase = "refused" /\ delay < Half => asked_at > delay - PowerUp - Grain

\* What transmit_deffered answers is kept: yes, and the frame leaves on time; no, and
\* it was really too late to begin.
AnswerIsKept == LeavesOnTime /\ RefusedOnlyIfPassed

\* The times of both events measure what has really gone by between them, also when
\* the chip's time has begun anew in between, up to a period.
TimestampsMeasure ==
  phase = "measured" => base = left_at % Period
=============================================================================
