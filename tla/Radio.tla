------------------------------- MODULE Radio -------------------------------
(***************************************************************************)
(* The DW1000 from its initialization to its operations: initialize,       *)
(* reset_sequence, set_irq_callbacks, transmit_now, transmit_deffered and  *)
(* receive_now of src/nodes/common/dw1000.cpp, with the chip's IRQ line,   *)
(* the GPIOTE channel that watches it for rising edges, and dwt_isr.       *)
(*                                                                         *)
(* SPI transactions are single steps here; module SpiBus has their inside. *)
(* What matters is whether there is an SPI driver: without one spi_io_done *)
(* is never raised and the caller polls it for ever.                       *)
(*                                                                         *)
(* The processor may have been restarted alone: then the chip still does   *)
(* what the previous run of the program told it.                           *)
(*                                                                         *)
(* Assumed of the application, which is not part of the repository: it     *)
(* sets its callbacks first and has one operation outstanding at a time.   *)
(***************************************************************************)
EXTENDS Naturals

CONSTANT MaxOperations     \* bound on the operations of a behaviour


VARIABLES
  warm,           \* only the processor has been restarted
  step,           \* where initialize stands; it ends "ready" or "failed"
  spi,            \* the SPI driver: "none", "2M" or "8M"
  listening,      \* the GPIOTE channel is enabled
  edge,           \* it has seen an edge that no handler has taken yet
  isr,            \* where dwt_isr stands
  handling,       \* the events it has read and not handled yet
  callbacks,
  operation,      \* what the chip does
  status,         \* the chip's events that have not been cleared
  mask,           \* those that raise the IRQ line
  outstanding,    \* the operation the application waits for, or "off"
  started,        \* number of operations started so far
  hung            \* somebody polls spi_io_done for ever

chip == <<operation, status, mask>>
app  == <<outstanding, started>>
cpu  == <<isr, handling>>
vars == <<warm, step, spi, listening, edge, isr, handling, callbacks, operation,
          status, mask, outstanding, started, hung>>

\* TFRS; RFCG; RFTO and RXPTO; RPHE, RFCE, RFSL, SFDT and ARFE.
Events  == {"sent", "received", "timeout", "error"}
Steps   == {"start", "irq_enabled", "reset", "spi_2m", "initialised", "no_spi",
            "spi_8m", "callbacks_set", "interrupts_set", "ready", "failed"}
Actions == {"off", "transmit", "receive", "receive_for"}

Outcomes(op) ==
  CASE op = "transmit"    -> {"sent"}
    [] op = "receive"     -> {"received", "error"}
    [] op = "receive_for" -> {"received", "error", "timeout"}
    [] OTHER              -> {}

Line(events, enabled) == events \cap enabled # {}

\* Mutant: the channel senses falling edges.
SenseHiToLo(events, enabled) ==
  edge' = (edge \/ (listening /\ Line(status, mask) /\ ~Line(events, enabled)))

\* The channel senses edges from low to high only.
Sense(events, enabled) ==
  edge' = (edge \/ (listening /\ ~Line(status, mask) /\ Line(events, enabled)))

\* The foreground moves only when no handler runs or is due.
MainAt(s) == step = s /\ isr = "none" /\ ~edge /\ ~hung

-----------------------------------------------------------------------------
Init ==
  /\ warm        \in BOOLEAN
  /\ step        = "start"
  /\ spi         = "none"
  /\ listening   = FALSE
  /\ edge        = FALSE
  /\ isr         = "none"
  /\ handling    = {}
  /\ callbacks   = [e \in Events |-> "null"]
  /\ operation   \in IF warm THEN Actions ELSE {"off"}
  /\ status      \in IF warm THEN SUBSET Events ELSE {{}}
  /\ mask        \in IF warm THEN {{}, Events} ELSE {{}}
  /\ outstanding = "off"
  /\ started     = 0
  /\ hung        = FALSE

(* initialize, which returns without a result at the first failure.        *)

SetUpIrq ==
  /\ MainAt("start")
  /\ \/ step' = "failed" /\ UNCHANGED listening
     \/ step' = "irq_enabled" /\ listening' = TRUE
  /\ UNCHANGED <<warm, spi, edge, cpu, callbacks, chip, app, hung>>

\* Mutant: the pin is not held long enough.
ResetChipInVain ==
  /\ MainAt("irq_enabled")
  /\ step' = "reset"
  /\ UNCHANGED <<warm, spi, listening, edge, cpu, callbacks, chip, app, hung>>

\* The reset pin takes everything from the chip, and the line falls.
ResetChip ==
  /\ MainAt("irq_enabled")
  /\ step'      = "reset"
  /\ operation' = "off"
  /\ status'    = {}
  /\ mask'      = {}
  /\ UNCHANGED <<warm, spi, listening, edge, cpu, callbacks, app, hung>>

StartSpi ==
  /\ MainAt("reset")
  /\ \/ step' = "failed" /\ UNCHANGED spi
     \/ step' = "spi_2m" /\ spi' = "2M"
  /\ UNCHANGED <<warm, listening, edge, cpu, callbacks, chip, app, hung>>

InitialiseDriver ==
  /\ MainAt("spi_2m")
  /\ step' \in {"failed", "initialised"}
  /\ UNCHANGED <<warm, spi, listening, edge, cpu, callbacks, chip, app, hung>>

StopSpi ==
  /\ MainAt("initialised")
  /\ step' = "no_spi"
  /\ spi'  = "none"
  /\ UNCHANGED <<warm, listening, edge, cpu, callbacks, chip, app, hung>>

\* Mutant: a failure of the second nrfx_spim_init goes unnoticed.
RestartSpiUnchecked ==
  /\ MainAt("no_spi")
  /\ step' = "spi_8m"
  /\ spi' \in {"none", "8M"}
  /\ UNCHANGED <<warm, listening, edge, cpu, callbacks, chip, app, hung>>

RestartSpi ==
  /\ MainAt("no_spi")
  /\ \/ step' = "failed" /\ UNCHANGED spi
     \/ step' = "spi_8m" /\ spi' = "8M"
  /\ UNCHANGED <<warm, listening, edge, cpu, callbacks, chip, app, hung>>

SetDummyCallbacks ==
  /\ MainAt("spi_8m")
  /\ step'      = "callbacks_set"
  /\ callbacks' = [e \in Events |-> "dummy"]
  /\ UNCHANGED <<warm, spi, listening, edge, cpu, chip, app, hung>>

\* Mutant: the timeouts are not enabled.
SetInterruptButTimeout ==
  /\ MainAt("callbacks_set")
  /\ step' = "interrupts_set"
  /\ mask' = Events \ {"timeout"}
  /\ Sense(status, mask')
  /\ UNCHANGED <<warm, spi, listening, cpu, callbacks, operation, status, app, hung>>

SetInterrupt ==
  /\ MainAt("callbacks_set")
  /\ step' = "interrupts_set"
  /\ mask' = Events
  /\ Sense(status, mask')
  /\ UNCHANGED <<warm, spi, listening, cpu, callbacks, operation, status, app, hung>>

\* Without an address the radio stays as it is, with its interrupts enabled.
SetAddress ==
  /\ MainAt("interrupts_set")
  /\ step' \in {"failed", "ready"}
  /\ UNCHANGED <<warm, spi, listening, edge, cpu, callbacks, chip, app, hung>>

-----------------------------------------------------------------------------
(* The application, in the foreground or in a callback.  It is not told    *)
(* whether initialize has failed.                                          *)

Foreground == MainAt("ready") \/ MainAt("failed")
Calls      == Foreground \/ (isr = "callback" /\ ~hung)

SetIrqCallbacks ==
  /\ Foreground
  /\ callbacks' = [e \in Events |-> "application"]
  /\ UNCHANGED <<warm, step, spi, listening, edge, cpu, chip, app, hung>>

\* The application begins an operation; it hears of it later if it is accepted.
Start(op, accepted) ==
  /\ Calls
  /\ callbacks = [e \in Events |-> "application"]
  /\ outstanding = "off"
  /\ started < MaxOperations
  /\ started' = started + 1
  /\ hung' = (spi = "none")
  /\ IF spi = "none" \/ ~accepted THEN UNCHANGED <<operation, outstanding>>
     ELSE operation' = op /\ outstanding' = op
  /\ UNCHANGED <<warm, step, spi, listening, edge, cpu, callbacks, status, mask>>

TransmitNow == Start("transmit", TRUE)

TransmitDeffered == \E inTime \in BOOLEAN : Start("transmit", inTime)

\* A timeout of 0 means none.
ReceiveNow == Start("receive", TRUE) \/ Start("receive_for", TRUE)

-----------------------------------------------------------------------------
(* The chip and the handler.                                               *)

Finish ==
  /\ operation # "off"
  /\ \E e \in Outcomes(operation) :
       /\ status' = status \cup {e}
       /\ Sense(status', mask)
  /\ operation' = "off"
  /\ UNCHANGED <<warm, step, spi, listening, cpu, callbacks, mask, app, hung>>

IrqEnter ==
  /\ edge
  /\ isr = "none" /\ ~hung
  /\ edge' = FALSE
  /\ isr'  = "entered"
  /\ UNCHANGED <<warm, step, spi, listening, handling, callbacks, chip, app, hung>>

\* dwt_isr reads the status once and handles what it has read.
ReadStatus ==
  /\ isr = "entered" /\ ~hung
  /\ IF spi = "none"
     THEN hung' = TRUE /\ UNCHANGED cpu
     ELSE isr' = "events" /\ handling' = status /\ UNCHANGED hung
  /\ UNCHANGED <<warm, step, spi, listening, edge, callbacks, chip, app>>

\* It clears the event before it calls back; behind a timeout or an error it also
\* turns the transceiver off, which clears everything.
Handle(e) ==
  /\ isr = "events" /\ e \in handling
  /\ handling' = handling \ {e}
  /\ IF e \in {"timeout", "error"}
     THEN status' = {} /\ operation' = "off"
     ELSE status' = status \ {e} /\ UNCHANGED operation
  /\ IF callbacks[e] = "application"
     THEN isr' = "callback" /\ outstanding' = "off"
     ELSE UNCHANGED <<isr, outstanding>>
  /\ UNCHANGED <<warm, step, spi, listening, edge, callbacks, mask, started, hung>>

CallbackReturns ==
  /\ isr = "callback" /\ ~hung
  /\ isr' = "events"
  /\ UNCHANGED <<warm, step, spi, listening, edge, handling, callbacks, chip, app, hung>>

IrqExit ==
  /\ isr = "events" /\ handling = {}
  /\ isr' = "none"
  /\ UNCHANGED <<warm, step, spi, listening, edge, handling, callbacks, chip, app, hung>>

Initialize ==
  \/ SetUpIrq
  \/ ResetChip
  \/ StartSpi
  \/ InitialiseDriver
  \/ StopSpi
  \/ RestartSpi
  \/ SetDummyCallbacks
  \/ SetInterrupt
  \/ SetAddress

Isr == IrqEnter \/ ReadStatus \/ (\E e \in Events : Handle(e)) \/ CallbackReturns \/ IrqExit

Next ==
  \/ Initialize
  \/ SetIrqCallbacks
  \/ TransmitNow
  \/ TransmitDeffered
  \/ ReceiveNow
  \/ Finish
  \/ Isr

Spec == Init /\ [][Next]_vars

-----------------------------------------------------------------------------
\* Every variable keeps its type.
TypeOK ==
  /\ warm        \in BOOLEAN
  /\ step        \in Steps
  /\ spi         \in {"none", "2M", "8M"}
  /\ listening   \in BOOLEAN
  /\ edge        \in BOOLEAN
  /\ isr         \in {"none", "entered", "events", "callback"}
  /\ handling    \in SUBSET Events
  /\ callbacks   \in [Events -> {"null", "dummy", "application"}]
  /\ operation   \in Actions
  /\ status      \in SUBSET Events
  /\ mask        \in SUBSET Events
  /\ outstanding \in Actions
  /\ started     \in Nat
  /\ hung        \in BOOLEAN

\* The program hangs in an SPI transaction only if initialize gave up where there
\* was no SPI driver and the application, which is not told, went on; or if the
\* processor was restarted alone and the chip raised the line after the IRQ had
\* been enabled and before the chip was reset.
HangsOnlyWithoutSpi ==
  hung =>
    /\ spi = "none"
    /\ step = "failed" \/ (warm /\ step = "irq_enabled" /\ isr = "entered")

\* The line is watched for edges, and an event that comes while it is high makes
\* none.  Still no event is forgotten: when the line is high, a handler is due,
\* has not read the status yet, or has read all the events that keep it high.
NoEventIsForgotten ==
  listening /\ step # "irq_enabled" /\ Line(status, mask) =>
    edge \/ isr = "entered" \/ status \cap mask \subseteq handling

\* A callback of the application ends the operation that is outstanding, with an
\* outcome that operation can have: none comes twice, late, or for another.
CallbacksFitTheOperation ==
  [][\A e \in Events :
       Handle(e) /\ callbacks[e] = "application" => e \in Outcomes(outstanding)]_vars
=============================================================================
