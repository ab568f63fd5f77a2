------------------------------- MODULE SpiBus -------------------------------
(***************************************************************************)
(* The SPI transport under the DW1000 driver: readfromspi, writetospi,     *)
(* spi_callback and irq_callback of src/nodes/common/dw1000.cpp.           *)
(*                                                                         *)
(* Two contexts run the same code.  "main" is the foreground program.      *)
(* "irq" is the GPIOTE handler (priority 7): irq_callback calls dwt_isr,   *)
(* which runs SPI transactions of its own and returns before "main" moves  *)
(* again.  The SPIM interrupt (priority 6) preempts both.  Nothing keeps   *)
(* the GPIOTE handler out of a foreground transaction: decamutexon and     *)
(* decamutexoff are empty.                                                 *)
(*                                                                         *)
(* Data are abstracted to the number of the transaction they belong to:    *)
(* the header and the body that transaction n sends and the bytes the chip *)
(* answers to it are all n, and 0 is what fill(0) leaves.  The length      *)
(* check only logs and is left out.                                        *)
(***************************************************************************)
EXTENDS Naturals

CONSTANT MaxTransactions     \* bound on the transactions of a behaviour

ASSUME TransactionsAssumption == MaxTransactions \in Nat \ {0}

VARIABLES
  pc,             \* where each context stands in readfromspi / writetospi
  txn,            \* the transaction each context runs, or ran last
  body,           \* the bytes readfromspi last gave to each context
  writes,         \* the transactions that are writetospi calls
  issued,         \* number of transactions begun so far
  inIrq,          \* the GPIOTE handler is running
  spi_io_done,
  spi_tx_buffer,
  spi_rx_buffer,
  spim,           \* the SPIM peripheral and its EasyDMA
  delivered,      \* <<command, data>> of every write the chip has received
  torn,           \* history: an IRQ came after main had begun filling buffers
  busyAtEntry     \* history: a transfer was running at the last IRQ entry

driver  == <<spi_io_done, spi_tx_buffer, spi_rx_buffer>>
calls   == <<txn, writes, issued>>
history == <<torn, busyAtEntry>>
vars    == <<pc, txn, body, writes, issued, inIrq, spi_io_done, spi_tx_buffer,
             spi_rx_buffer, spim, delivered, torn, busyAtEntry>>

Contexts == {"main", "irq"}
Zero     == 0
Tag      == 0 .. MaxTransactions
Steps    == {"idle", "clear", "header", "body", "lower", "start", "trigger", "wait",
             "copy"}

\* The context the processor executes: the handler, as long as it runs.
Runs(c) == IF inIrq THEN c = "irq" ELSE c = "main"

Goto(c, step) == pc' = [pc EXCEPT ![c] = step]
At(c, step)   == Runs(c) /\ pc[c] = step

\* The part of a transaction that has buffers, flag or peripheral in use.
InTransfer(c) == pc[c] \notin {"idle", "clear"}

\* A transfer has been triggered and is going to raise the flag.
Transferring == spim.phase \in {"command", "data"}

-----------------------------------------------------------------------------
Init ==
  /\ pc            = [c \in Contexts |-> "idle"]
  /\ txn           = [c \in Contexts |-> Zero]
  /\ body          = [c \in Contexts |-> Zero]
  /\ writes        = {}
  /\ issued        = 0
  /\ inIrq         = FALSE
  /\ spi_io_done   = FALSE
  /\ spi_tx_buffer = [header |-> Zero, body |-> Zero]
  /\ spi_rx_buffer = Zero
  /\ spim          = [phase |-> "idle", command |-> Zero]
  /\ delivered     = {}
  /\ torn          = FALSE
  /\ busyAtEntry   = FALSE

Enter(c, isWrite) ==
  /\ issued < MaxTransactions
  /\ issued' = issued + 1
  /\ txn'    = [txn EXCEPT ![c] = issued + 1]
  /\ writes' = IF isWrite THEN writes \cup {issued + 1} ELSE writes
  /\ Goto(c, "clear")

\* The context that runs calls readfromspi or writetospi.
Call(c) ==
  /\ At(c, "idle")
  /\ \E isWrite \in BOOLEAN : Enter(c, isWrite)
  /\ UNCHANGED <<body, inIrq, driver, spim, delivered, history>>

\* irq_callback preempts the foreground; dwt_isr begins by reading the status.
IrqEnter ==
  /\ ~inIrq
  /\ inIrq' = TRUE
  /\ Enter("irq", FALSE)
  /\ torn'        = (torn \/ InTransfer("main"))
  /\ busyAtEntry' = (spim.phase # "idle")
  /\ UNCHANGED <<body, driver, spim, delivered>>

\* dwt_isr, and the callbacks it makes, have no transaction left.
IrqExit ==
  /\ At("irq", "idle")
  /\ inIrq' = FALSE
  /\ UNCHANGED <<pc, body, calls, driver, spim, delivered, history>>

\* spi_tx_buffer.fill(0), spi_rx_buffer.fill(0)
ClearBuffers(c) ==
  /\ At(c, "clear")
  /\ spi_tx_buffer' = [header |-> Zero, body |-> Zero]
  /\ spi_rx_buffer' = Zero
  /\ Goto(c, "header")
  /\ UNCHANGED <<body, spi_io_done, spim>>

\* Mutant: writetospi forgets the body.
CopyHeaderOnly(c) ==
  /\ At(c, "header")
  /\ spi_tx_buffer' = [spi_tx_buffer EXCEPT !.header = txn[c]]
  /\ Goto(c, "lower")
  /\ UNCHANGED <<body, spi_io_done, spi_rx_buffer, spim>>

CopyHeader(c) ==
  /\ At(c, "header")
  /\ spi_tx_buffer' = [spi_tx_buffer EXCEPT !.header = txn[c]]
  /\ Goto(c, IF txn[c] \in writes THEN "body" ELSE "lower")
  /\ UNCHANGED <<body, spi_io_done, spi_rx_buffer, spim>>

\* Only writetospi copies a body behind the header.
CopyBody(c) ==
  /\ At(c, "body")
  /\ spi_tx_buffer' = [spi_tx_buffer EXCEPT !.body = txn[c]]
  /\ Goto(c, "lower")
  /\ UNCHANGED <<body, spi_io_done, spi_rx_buffer, spim>>

\* Mutant: spi_io_done = false is missing.
LeaveFlag(c) ==
  /\ At(c, "lower")
  /\ Goto(c, "start")
  /\ UNCHANGED <<body, driver, spim>>

LowerFlag(c) ==
  /\ At(c, "lower")
  /\ spi_io_done' = FALSE
  /\ Goto(c, "start")
  /\ UNCHANGED <<body, spi_tx_buffer, spi_rx_buffer, spim>>

\* nrfx_spim_xfer checks and sets transfer_in_progress, or refuses because it is
\* set; the refusal is only logged and the code waits all the same.  A handler
\* between the check and the mark leaves the driver idle again, so both are one
\* step.
StartTransfer(c) ==
  /\ At(c, "start")
  /\ \/ /\ spim.phase = "idle"
        /\ spim' = [phase |-> "claimed", command |-> Zero]
        /\ Goto(c, "trigger")
     \/ /\ spim.phase # "idle"
        /\ Goto(c, "wait")
        /\ UNCHANGED spim
  /\ UNCHANGED <<body, driver>>

\* The rest of nrfx_spim_xfer: select the chip, set up EasyDMA, task START.
Trigger(c) ==
  /\ At(c, "trigger")
  /\ spim' = [spim EXCEPT !.phase = "command"]
  /\ Goto(c, "wait")
  /\ UNCHANGED <<body, driver>>

\* Mutant: whoever sees the flag takes it down.
FinishWaitConsuming(c) ==
  /\ At(c, "wait")
  /\ spi_io_done
  /\ spi_io_done' = FALSE
  /\ Goto(c, IF txn[c] \in writes THEN "idle" ELSE "copy")
  /\ UNCHANGED <<body, spi_tx_buffer, spi_rx_buffer, spim>>

\* while(!spi_io_done) ends; only readfromspi has something to copy out.
FinishWait(c) ==
  /\ At(c, "wait")
  /\ spi_io_done
  /\ Goto(c, IF txn[c] \in writes THEN "idle" ELSE "copy")
  /\ UNCHANGED <<body, driver, spim>>

CopyAnswer(c) ==
  /\ At(c, "copy")
  /\ body' = [body EXCEPT ![c] = spi_rx_buffer]
  /\ Goto(c, "idle")
  /\ UNCHANGED <<driver, spim>>

\* EasyDMA sends the header, whatever the transmit buffer holds by then.
SendCommand ==
  /\ spim.phase = "command"
  /\ spim' = [phase |-> "data", command |-> spi_tx_buffer.header]
  /\ UNCHANGED <<pc, body, calls, inIrq, driver, delivered, history>>

\* Mutant: the SPIM interrupt does not preempt the GPIOTE handler.
TransferDoneLowPriority ==
  /\ ~inIrq
  /\ spim.phase = "data"
  /\ spim'          = [spim EXCEPT !.phase = "idle"]
  /\ spi_rx_buffer' = spim.command
  /\ spi_io_done'   = TRUE
  /\ delivered'     = IF spim.command \in writes
                      THEN delivered \cup {<<spim.command, spi_tx_buffer.body>>}
                      ELSE delivered
  /\ UNCHANGED <<pc, body, calls, inIrq, spi_tx_buffer, history>>

\* The data phase ends: the answer is in the receive buffer, the driver is idle
\* and spi_callback raises the flag, in the SPIM interrupt.
TransferDone ==
  /\ spim.phase = "data"
  /\ spim'          = [spim EXCEPT !.phase = "idle"]
  /\ spi_rx_buffer' = spim.command
  /\ spi_io_done'   = TRUE
  /\ delivered'     = IF spim.command \in writes
                      THEN delivered \cup {<<spim.command, spi_tx_buffer.body>>}
                      ELSE delivered
  /\ UNCHANGED <<pc, body, calls, inIrq, spi_tx_buffer, history>>

Transact(c) ==
  /\ \/ ClearBuffers(c)
     \/ CopyHeader(c)
     \/ CopyBody(c)
     \/ LowerFlag(c)
     \/ StartTransfer(c)
     \/ Trigger(c)
     \/ FinishWait(c)
     \/ CopyAnswer(c)
  /\ UNCHANGED <<calls, inIrq, delivered, history>>

Next ==
  \/ IrqEnter
  \/ IrqExit
  \/ SendCommand
  \/ TransferDone
  \/ \E c \in Contexts : Call(c) \/ Transact(c)

Spec == Init /\ [][Next]_vars

\* The processor executes, the handler returns, the peripheral finishes what it
\* started.  That anybody calls, or that an IRQ comes, is not assumed.
Fairness ==
  /\ \A c \in Contexts : WF_vars(Transact(c))
  /\ WF_vars(IrqExit)
  /\ WF_vars(SendCommand)
  /\ WF_vars(TransferDone)

FairSpec == Spec /\ Fairness

-----------------------------------------------------------------------------
\* Every variable keeps its type: in particular the buffers only ever hold what
\* a transaction begun earlier put there.
TypeOK ==
  /\ pc            \in [Contexts -> Steps]
  /\ txn           \in [Contexts -> Tag]
  /\ body          \in [Contexts -> Tag]
  /\ writes        \in SUBSET Tag
  /\ issued        \in Tag
  /\ inIrq         \in BOOLEAN
  /\ spi_io_done   \in BOOLEAN
  /\ spi_tx_buffer \in [header : Tag, body : Tag]
  /\ spi_rx_buffer \in Tag
  /\ spim          \in [phase : {"idle", "claimed", "command", "data"}, command : Tag]
  /\ delivered     \in SUBSET (Tag \X Tag)
  /\ torn          \in BOOLEAN
  /\ busyAtEntry   \in BOOLEAN

\* Whoever executes the while loop finds the flag raised or a transfer under way
\* that will raise it, although the handler lowers the flag a preempted caller is
\* polling and a refused nrfx_spim_xfer is not retried, with a single exception:
\* the handler polls for ever exactly when it has stopped the foreground inside
\* nrfx_spim_xfer, where the driver is marked busy and nothing runs yet.
PollsInVainOnlyInTheGap ==
  \A c \in Contexts : At(c, "wait") =>
    (~spi_io_done /\ ~Transferring <=> c = "irq" /\ pc["main"] = "trigger")

\* As long as no IRQ has come in the middle of a foreground transaction, a
\* finished readfromspi has handed out the chip's answer to itself: neither the
\* zeros of fill(0) nor the answer to another transaction.
ReadsGetTheirAnswer ==
  \A c \in Contexts :
    ~torn /\ pc[c] = "idle" /\ txn[c] \notin writes => body[c] = txn[c]

\* Under the same condition a finished writetospi has reached the chip, every
\* write reached it with its own body, and no transfer outlives its caller.
WritesReachTheChip ==
  ~torn =>
    /\ \A w \in writes :
         (\A c \in Contexts : txn[c] = w => pc[c] = "idle") => <<w, w>> \in delivered
    /\ \A d \in delivered : d[1] = d[2]
    /\ spim.phase # "idle" => \E c \in Contexts : pc[c] \in {"trigger", "wait"}

\* Both: as long as no interrupt has met an outstanding transaction of the
\* foreground, what is read is the chip's answer and what is written reaches it.
TransactionsAreFaithful == ReadsGetTheirAnswer /\ WritesReachTheChip

\* A handler that finds the bus idle reads the right status and reads right to
\* its end, wherever in its own transaction the foreground was stopped.
HandlerReadsFromIdleBus ==
  inIrq /\ ~busyAtEntry /\ pc["irq"] = "copy" => spi_rx_buffer = txn["irq"]

-----------------------------------------------------------------------------
\* A call is pending until its context is idle again.
Pending ==
  [c \in Contexts |->
     IF pc[c] = "idle" THEN <<"none", 0>>
     ELSE <<IF txn[c] \in writes THEN "write" ELSE "read", txn[c]>>]

\* The handler has stopped the foreground inside nrfx_spim_xfer.
InGap == inIrq /\ pc["main"] = "trigger"

\* The promise to the DW1000 driver; calls may disturb each other once torn.
Service ==
  INSTANCE SpiService
    WITH pending <- Pending, answer <- body, disturbed <- torn, stuck <- InGap

\* readfromspi and writetospi implement that service: calls nest, every call
\* returns although an IRQ may steal its flag and its transfer, unless an IRQ has
\* come inside nrfx_spim_xfer; and a read returns its own answer unless an IRQ has
\* come in the middle of a call.
ServiceSpec == Service!Spec
=============================================================================
