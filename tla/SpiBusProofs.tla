---------------------------- MODULE SpiBusProofs ----------------------------
(***************************************************************************)
(* Proofs about SpiBus, for every number of transactions.                  *)
(***************************************************************************)
EXTENDS SpiBus, TLAPS

-----------------------------------------------------------------------------
\* The handler runs to completion: outside it the context "irq" is idle.
HandlerRests == ~inIrq => pc["irq"] = "idle"

\* The driver is marked and not triggered as long as one context, never both, is
\* inside nrfx_spim_xfer.  A handler that has stopped the foreground there gets as
\* far as its own wait, with the flag lowered.
Claimed ==
  /\ spim.phase = "claimed" <=> \E c \in Contexts : pc[c] = "trigger"
  /\ pc["main"] = "trigger" => pc["irq"] # "trigger"
  /\ InGap => /\ pc["irq"] \notin {"idle", "copy"}
              /\ pc["irq"] \in {"start", "wait"} => ~spi_io_done

\* Who waits is served, but in the gap.  A preempted main may find its flag lowered
\* by the handler, but only until the handler has gone through nrfx_spim_xfer.
Awaited ==
  /\ pc["irq"] = "wait" => spi_io_done \/ Transferring \/ pc["main"] = "trigger"
  /\ pc["main"] = "wait" /\ pc["irq"] \notin {"start", "trigger"} =>
       spi_io_done \/ Transferring

WaitInv == TypeOK /\ HandlerRests /\ Claimed /\ Awaited

\* TypeOK holds initially and is kept by every step.
LEMMA TypeInit == Init => TypeOK
<1> SUFFICES ASSUME Init PROVE TypeOK
  OBVIOUS
<1> USE TransactionsAssumption DEF Init, Steps, Tag, Zero
<1>1. pc \in [Contexts -> Steps]
  OBVIOUS
<1>2. txn \in [Contexts -> Tag] /\ body \in [Contexts -> Tag]
  OBVIOUS
<1>3. writes \in SUBSET Tag /\ delivered \in SUBSET (Tag \X Tag)
  OBVIOUS
<1>4. issued \in Tag /\ spi_rx_buffer \in Tag
  OBVIOUS
<1>5. spi_tx_buffer \in [header : Tag, body : Tag]
  OBVIOUS
<1>6. spim \in [phase : {"idle", "claimed", "command", "data"}, command : Tag]
  OBVIOUS
<1>7. /\ inIrq \in BOOLEAN /\ spi_io_done \in BOOLEAN
      /\ torn \in BOOLEAN /\ busyAtEntry \in BOOLEAN
  OBVIOUS
<1>8. QED
  BY <1>1, <1>2, <1>3, <1>4, <1>5, <1>6, <1>7 DEF TypeOK

LEMMA TypeStep == TypeOK /\ [Next]_vars => TypeOK'
<1> SUFFICES ASSUME TypeOK, [Next]_vars PROVE TypeOK'
  OBVIOUS
<1> USE TransactionsAssumption DEF TypeOK, Contexts, Steps, Tag, Zero, driver, calls, history,
        Goto, At, Runs
<1>1. ASSUME NEW c \in Contexts, Call(c) PROVE TypeOK'
  BY <1>1 DEF Call, Enter
<1>2. CASE IrqEnter
  BY <1>2 DEF IrqEnter, Enter
<1>3. CASE IrqExit
  BY <1>3 DEF IrqExit
<1>4. CASE SendCommand
  BY <1>4 DEF SendCommand
<1>5. CASE TransferDone
  BY <1>5 DEF TransferDone
<1>6. ASSUME NEW c \in Contexts, Transact(c) PROVE TypeOK'
  <2>0. UNCHANGED <<calls, inIrq, delivered, history>>
    BY <1>6 DEF Transact
  <2>1. CASE ClearBuffers(c)
    BY <2>0, <2>1 DEF ClearBuffers
  <2>2. CASE CopyHeader(c)
    BY <2>0, <2>2 DEF CopyHeader
  <2>3. CASE CopyBody(c)
    BY <2>0, <2>3 DEF CopyBody
  <2>4. CASE LowerFlag(c)
    BY <2>0, <2>4 DEF LowerFlag
  <2>5. CASE StartTransfer(c)
    BY <2>0, <2>5 DEF StartTransfer
  <2>6. CASE Trigger(c)
    BY <2>0, <2>6 DEF Trigger
  <2>7. CASE FinishWait(c)
    BY <2>0, <2>7 DEF FinishWait
  <2>8. CASE CopyAnswer(c)
    BY <2>0, <2>8 DEF CopyAnswer
  <2>9. QED
    BY <1>6, <2>1, <2>2, <2>3, <2>4, <2>5, <2>6, <2>7, <2>8 DEF Transact
<1>7. CASE UNCHANGED vars
  BY <1>7 DEF vars
<1>8. QED
  BY <1>1, <1>2, <1>3, <1>4, <1>5, <1>6, <1>7 DEF Next

\* Every variable keeps its type in every behaviour of the driver.
THEOREM TypeCorrect == Spec => []TypeOK
  BY TypeInit, TypeStep, PTL DEF Spec

-----------------------------------------------------------------------------
LEMMA WaitStep == WaitInv /\ [Next]_vars => WaitInv'
<1> SUFFICES ASSUME WaitInv, [Next]_vars PROVE HandlerRests' /\ Claimed' /\ Awaited'
  BY TypeStep DEF WaitInv
<1> USE DEF WaitInv, HandlerRests, Claimed, Awaited, InGap, Transferring, TypeOK, Contexts, Steps,
        driver, calls, history,
        Goto, At, Runs
<1>1. ASSUME NEW c \in Contexts, Call(c) PROVE HandlerRests' /\ Claimed' /\ Awaited'
  BY <1>1 DEF Call, Enter
<1>2. CASE IrqEnter
  BY <1>2 DEF IrqEnter, Enter
<1>3. CASE IrqExit
  BY <1>3 DEF IrqExit
<1>4. CASE SendCommand
  BY <1>4 DEF SendCommand
<1>5. CASE TransferDone
  BY <1>5 DEF TransferDone
<1>6. ASSUME NEW c \in Contexts, Transact(c) PROVE HandlerRests' /\ Claimed' /\ Awaited'
  <2>0. UNCHANGED <<calls, inIrq, delivered, history>>
    BY <1>6 DEF Transact
  <2>1. CASE ClearBuffers(c)
    BY <2>0, <2>1 DEF ClearBuffers
  <2>2. CASE CopyHeader(c)
    BY <2>0, <2>2 DEF CopyHeader
  <2>3. CASE CopyBody(c)
    BY <2>0, <2>3 DEF CopyBody
  <2>4. CASE LowerFlag(c)
    BY <2>0, <2>4 DEF LowerFlag
  <2>5. CASE StartTransfer(c)
    BY <2>0, <2>5 DEF StartTransfer
  <2>6. CASE Trigger(c)
    BY <2>0, <2>6 DEF Trigger
  <2>7. CASE FinishWait(c)
    BY <2>0, <2>7 DEF FinishWait
  <2>8. CASE CopyAnswer(c)
    BY <2>0, <2>8 DEF CopyAnswer
  <2>9. QED
    BY <1>6, <2>1, <2>2, <2>3, <2>4, <2>5, <2>6, <2>7, <2>8 DEF Transact
<1>7. CASE UNCHANGED vars
  BY <1>7 DEF vars
<1>8. QED
  BY <1>1, <1>2, <1>3, <1>4, <1>5, <1>6, <1>7 DEF Next

\* A context polls spi_io_done with the flag down and no transfer under way exactly
\* if it is the handler and has come inside the foreground's nrfx_spim_xfer; the
\* foreground never does, however handler and foreground interleave.
THEOREM VainPollsAreInTheGap == Spec => []PollsInVainOnlyInTheGap
<1>1. Init => WaitInv
  BY TypeInit DEF Init, WaitInv, HandlerRests, Claimed, Awaited, InGap, Contexts
<1>2. WaitInv /\ [Next]_vars => WaitInv'
  BY WaitStep
<1>3. WaitInv => PollsInVainOnlyInTheGap
  BY DEF WaitInv, HandlerRests, Claimed, Awaited, InGap, Transferring,
         PollsInVainOnlyInTheGap, At, Runs, Contexts
<1>4. QED
  BY <1>1, <1>2, <1>3, PTL DEF Spec

-----------------------------------------------------------------------------
\* What a context that has not been disturbed knows at each step of its
\* transaction about the buffers, the flag and the peripheral.
Sound(c) ==
  /\ pc[c] \notin {"trigger", "wait"} => spim.phase = "idle"
  /\ pc[c] = "copy" => spi_rx_buffer = txn[c]
  /\ pc[c] \in {"body", "lower", "start", "trigger", "wait"} => spi_tx_buffer.header = txn[c]
  /\ pc[c] \in {"lower", "start", "trigger", "wait"} /\ txn[c] \in writes =>
       spi_tx_buffer.body = txn[c]
  /\ pc[c] \in {"start", "trigger"} => ~spi_io_done
  /\ pc[c] = "trigger" => spim.phase = "claimed"
  /\ pc[c] = "wait" /\ spim.phase = "idle" =>
       /\ spi_io_done
       /\ spi_rx_buffer = txn[c]
       /\ txn[c] \in writes => <<txn[c], txn[c]>> \in delivered
  /\ pc[c] = "wait" /\ spim.phase # "idle" => Transferring /\ ~spi_io_done
  /\ pc[c] = "wait" /\ spim.phase = "data" => spim.command = txn[c]

\* Who is undisturbed: main until the first tearing IRQ, and the handler
\* whenever it found the bus idle.
Undisturbed ==
  /\ ~torn /\ ~inIrq => Sound("main")
  /\ ~torn /\ inIrq => ~InTransfer("main") /\ ~busyAtEntry
  /\ inIrq /\ ~busyAtEntry => Sound("irq")

\* Transactions are numbered in the order they begin and never share a number;
\* only reads copy an answer out, only writes copy a body in.
Numbered ==
  /\ \A c \in Contexts : pc[c] = "copy" => txn[c] \notin writes
  /\ \A c \in Contexts : pc[c] = "body" => txn[c] \in writes
  /\ \A c \in Contexts : txn[c] <= issued
  /\ \A c \in Contexts : pc[c] # "idle" => txn[c] # Zero
  /\ txn["main"] = txn["irq"] => txn["main"] = Zero
  /\ \A w \in writes : 0 < w /\ w <= issued

\* The outcome of the transactions that are over.
Outcome ==
  ~torn =>
    /\ \A c \in Contexts : pc[c] = "idle" /\ txn[c] \notin writes => body[c] = txn[c]
    /\ \A w \in writes :
         (\A c \in Contexts : txn[c] = w => pc[c] = "idle") => <<w, w>> \in delivered
    /\ \A d \in delivered : d[1] = d[2]

DataInv == WaitInv /\ Numbered /\ Undisturbed /\ Outcome

LEMMA NumberedStep == DataInv /\ [Next]_vars => Numbered'
<1> SUFFICES ASSUME DataInv, [Next]_vars PROVE Numbered'
  OBVIOUS
<1> USE DEF DataInv, WaitInv, HandlerRests, Numbered, TypeOK, Contexts, Steps, Tag, Zero,
        driver, calls, history, Goto, At, Runs, InTransfer
<1>1. ASSUME NEW c \in Contexts, Call(c) PROVE Numbered'
  BY <1>1 DEF Call, Enter
<1>2. CASE IrqEnter
  BY <1>2 DEF IrqEnter, Enter
<1>3. CASE IrqExit
  BY <1>3 DEF IrqExit
<1>4. CASE SendCommand
  BY <1>4 DEF SendCommand
<1>5. CASE TransferDone
  BY <1>5 DEF TransferDone
<1>6. ASSUME NEW c \in Contexts, Transact(c) PROVE Numbered'
  <2>0. UNCHANGED <<calls, inIrq, delivered, history>>
    BY <1>6 DEF Transact
  <2>1. CASE ClearBuffers(c)
    BY <2>0, <2>1 DEF ClearBuffers
  <2>2. CASE CopyHeader(c)
    BY <2>0, <2>2 DEF CopyHeader
  <2>3. CASE CopyBody(c)
    BY <2>0, <2>3 DEF CopyBody
  <2>4. CASE LowerFlag(c)
    BY <2>0, <2>4 DEF LowerFlag
  <2>5. CASE StartTransfer(c)
    BY <2>0, <2>5 DEF StartTransfer
  <2>6. CASE Trigger(c)
    BY <2>0, <2>6 DEF Trigger
  <2>7. CASE FinishWait(c)
    BY <2>0, <2>7 DEF FinishWait
  <2>8. CASE CopyAnswer(c)
    BY <2>0, <2>8 DEF CopyAnswer
  <2>9. QED
    BY <1>6, <2>1, <2>2, <2>3, <2>4, <2>5, <2>6, <2>7, <2>8 DEF Transact
<1>7. CASE UNCHANGED vars
  BY <1>7 DEF vars
<1>8. QED
  BY <1>1, <1>2, <1>3, <1>4, <1>5, <1>6, <1>7 DEF Next

LEMMA UndisturbedStep == DataInv /\ [Next]_vars => Undisturbed'
<1> SUFFICES ASSUME DataInv, [Next]_vars PROVE Undisturbed'
  OBVIOUS
<1> USE DEF DataInv, WaitInv, HandlerRests, Numbered, TypeOK, Undisturbed, Sound, Transferring,
        Contexts, Steps, Tag, Zero, driver, calls, history, Goto, At, Runs, InTransfer
<1>1. ASSUME NEW c \in Contexts, Call(c) PROVE Undisturbed'
  BY <1>1 DEF Call, Enter
<1>2. CASE IrqEnter
  BY <1>2 DEF IrqEnter, Enter
<1>3. CASE IrqExit
  BY <1>3 DEF IrqExit
<1>4. CASE SendCommand
  BY <1>4 DEF SendCommand
<1>5. CASE TransferDone
  BY <1>5 DEF TransferDone
<1>6. ASSUME NEW c \in Contexts, Transact(c) PROVE Undisturbed'
  <2>0. UNCHANGED <<calls, inIrq, delivered, history>>
    BY <1>6 DEF Transact
  <2>1. CASE ClearBuffers(c)
    BY <2>0, <2>1 DEF ClearBuffers
  <2>2. CASE CopyHeader(c)
    BY <2>0, <2>2 DEF CopyHeader
  <2>3. CASE CopyBody(c)
    BY <2>0, <2>3 DEF CopyBody
  <2>4. CASE LowerFlag(c)
    BY <2>0, <2>4 DEF LowerFlag
  <2>5. CASE StartTransfer(c)
    BY <2>0, <2>5 DEF StartTransfer
  <2>6. CASE Trigger(c)
    BY <2>0, <2>6 DEF Trigger
  <2>7. CASE FinishWait(c)
    BY <2>0, <2>7 DEF FinishWait
  <2>8. CASE CopyAnswer(c)
    BY <2>0, <2>8 DEF CopyAnswer
  <2>9. QED
    BY <1>6, <2>1, <2>2, <2>3, <2>4, <2>5, <2>6, <2>7, <2>8 DEF Transact
<1>7. CASE UNCHANGED vars
  BY <1>7 DEF vars
<1>8. QED
  BY <1>1, <1>2, <1>3, <1>4, <1>5, <1>6, <1>7 DEF Next

LEMMA OutcomeStep == DataInv /\ [Next]_vars => Outcome'
<1> SUFFICES ASSUME DataInv, [Next]_vars PROVE Outcome'
  OBVIOUS
<1> USE DEF DataInv, WaitInv, HandlerRests, Numbered, TypeOK, Undisturbed, Sound, Outcome,
        Transferring, Contexts, Steps, Tag, Zero, driver, calls, history, Goto, At, Runs, InTransfer
<1>1. ASSUME NEW c \in Contexts, Call(c) PROVE Outcome'
  BY <1>1 DEF Call, Enter
<1>2. CASE IrqEnter
  BY <1>2 DEF IrqEnter, Enter
<1>3. CASE IrqExit
  BY <1>3 DEF IrqExit
<1>4. CASE SendCommand
  BY <1>4 DEF SendCommand
<1>5. CASE TransferDone
  BY <1>5 DEF TransferDone
<1>6. ASSUME NEW c \in Contexts, Transact(c) PROVE Outcome'
  <2>0. UNCHANGED <<calls, inIrq, delivered, history>>
    BY <1>6 DEF Transact
  <2>1. CASE ClearBuffers(c)
    BY <2>0, <2>1 DEF ClearBuffers
  <2>2. CASE CopyHeader(c)
    BY <2>0, <2>2 DEF CopyHeader
  <2>3. CASE CopyBody(c)
    BY <2>0, <2>3 DEF CopyBody
  <2>4. CASE LowerFlag(c)
    BY <2>0, <2>4 DEF LowerFlag
  <2>5. CASE StartTransfer(c)
    BY <2>0, <2>5 DEF StartTransfer
  <2>6. CASE Trigger(c)
    BY <2>0, <2>6 DEF Trigger
  <2>7. CASE FinishWait(c)
    BY <2>0, <2>7 DEF FinishWait
  <2>8. CASE CopyAnswer(c)
    BY <2>0, <2>8 DEF CopyAnswer
  <2>9. QED
    BY <1>6, <2>1, <2>2, <2>3, <2>4, <2>5, <2>6, <2>7, <2>8 DEF Transact
<1>7. CASE UNCHANGED vars
  BY <1>7 DEF vars
<1>8. QED
  BY <1>1, <1>2, <1>3, <1>4, <1>5, <1>6, <1>7 DEF Next

LEMMA DataInvariant == Spec => []DataInv
<1>1. Init => DataInv
  BY TypeInit DEF Init, DataInv, WaitInv, HandlerRests, Claimed, Awaited, InGap, Numbered,
                  Undisturbed, Outcome, Sound, InTransfer, Contexts, Zero
<1>2. DataInv /\ [Next]_vars => DataInv'
  BY WaitStep, NumberedStep, UndisturbedStep, OutcomeStep DEF DataInv
<1>3. QED
  BY <1>1, <1>2, PTL DEF Spec

\* Until an IRQ tears a foreground transaction, every finished read holds the
\* chip's answer to itself and every finished write has reached the chip whole.
THEOREM UntornMeansFaithful == Spec => []TransactionsAreFaithful
<1>1. DataInv => ReadsGetTheirAnswer
  BY DEF DataInv, WaitInv, Outcome, Undisturbed, Sound, ReadsGetTheirAnswer, Contexts
<1>2. DataInv => WritesReachTheChip
  BY DEF DataInv, WaitInv, Outcome, Undisturbed, Sound, WritesReachTheChip, Contexts
<1>3. DataInv => TransactionsAreFaithful
  BY <1>1, <1>2 DEF TransactionsAreFaithful
<1>4. QED
  BY <1>3, DataInvariant, PTL

\* A handler that finds the bus idle reads its own answer, wherever it stopped
\* the foreground.
THEOREM HandlersReadFaithfully == Spec => []HandlerReadsFromIdleBus
<1>1. DataInv => HandlerReadsFromIdleBus
  BY DEF DataInv, WaitInv, Undisturbed, Sound, HandlerReadsFromIdleBus
<1>2. QED
  BY <1>1, DataInvariant, PTL

-----------------------------------------------------------------------------
\* Entering a call makes it pending, and nothing else.
LEMMA EnterPends ==
  ASSUME DataInv, NEW c \in Contexts, NEW isWrite \in BOOLEAN, pc[c] = "idle",
         Enter(c, isWrite)
  PROVE  /\ issued + 1 \in Tag \ {0}
         /\ Pending[c] = <<"none", 0>>
         /\ Pending' = [Pending EXCEPT ![c] =
                          <<IF isWrite THEN "write" ELSE "read", issued + 1>>]
<1> USE DEF DataInv, WaitInv, Numbered, TypeOK, Contexts, Steps, Tag, Zero, Goto, Enter
<1>1. issued + 1 \in Tag \ {0} /\ issued + 1 \notin writes
  BY TransactionsAssumption
<1>2. Pending[c] = <<"none", 0>>
  BY DEF Pending
<1>3. ASSUME NEW d \in Contexts, d # c PROVE Pending'[d] = Pending[d]
  BY <1>1, <1>3 DEF Pending
<1>4. Pending'[c] = <<IF isWrite THEN "write" ELSE "read", issued + 1>>
  BY <1>1 DEF Pending
<1>5. QED
  BY <1>1, <1>2, <1>3, <1>4 DEF Pending

\* Returning from a call ends it, and nothing else.
LEMMA ReturnEnds ==
  ASSUME DataInv, NEW c \in Contexts, pc[c] # "idle", Goto(c, "idle"),
         UNCHANGED <<txn, writes>>
  PROVE  Pending' = [Pending EXCEPT ![c] = <<"none", 0>>]
  BY DEF DataInv, WaitInv, TypeOK, Contexts, Steps, Goto, Pending

\* A step inside a call leaves what is pending as it is.
LEMMA InsideCall ==
  ASSUME DataInv, NEW c \in Contexts, pc[c] # "idle", NEW s, s # "idle", Goto(c, s),
         UNCHANGED <<txn, writes>>
  PROVE  Pending' = Pending
  BY DEF DataInv, WaitInv, TypeOK, Contexts, Steps, Goto, Pending

LEMMA ServiceStep == DataInv /\ [Next]_vars => [Service!Next]_(Service!vars)
<1> SUFFICES ASSUME DataInv, [Next]_vars PROVE Service!Next \/ UNCHANGED Service!vars
  OBVIOUS
<1> USE DEF Contexts, Service!Contexts, Service!Tag, Service!None, Service!vars
<1>0. pc["irq"] \in {"idle", "copy"} => ~InGap
  BY DEF DataInv, WaitInv, Claimed
<1>1. ASSUME NEW c \in Contexts, Call(c) PROVE Service!Next
  <2>1. PICK isWrite \in BOOLEAN : Enter(c, isWrite)
    BY <1>1 DEF Call
  <2>2. pc[c] = "idle" /\ pc["irq"] = "idle" /\ UNCHANGED <<body, torn>>
    BY <1>1 DEF Call, history, At, Runs, DataInv, WaitInv, HandlerRests
  <2>6. UNCHANGED InGap
    BY <1>0, <1>1, <2>2 DEF Call, Enter, Goto, InGap, At, Runs, DataInv, WaitInv, TypeOK
  <2>3. Pending["irq"] = <<"none", 0>>
    BY <2>2 DEF Pending
  <2>4. Service!Request(c, IF isWrite THEN "write" ELSE "read", issued + 1)
    BY <2>1, <2>2, <2>3, <2>6, EnterPends DEF Service!Request
  <2>5. QED
    BY <2>1, <2>2, <2>4, EnterPends DEF Service!Next, Tag
<1>2. CASE IrqEnter
  <2>1. Enter("irq", FALSE) /\ pc["irq"] = "idle" /\ UNCHANGED body
    BY <1>2 DEF IrqEnter, DataInv, WaitInv, HandlerRests
  <2>2. ~InGap /\ (InGap' => pc["main"] = "trigger")
    BY <1>2 DEF IrqEnter, Enter, Goto, InGap, DataInv, WaitInv, TypeOK
  <2>3. \/ UNCHANGED <<torn, InGap>>
        \/ Pending["main"] # <<"none", 0>> /\ torn' = TRUE /\ InGap' \in BOOLEAN
    <3>1. CASE InTransfer("main")
      BY <1>2, <3>1 DEF IrqEnter, InTransfer, InGap, Pending
    <3>2. CASE ~InTransfer("main")
      BY <1>2, <2>2, <3>2 DEF IrqEnter, InTransfer, InGap, DataInv, WaitInv, TypeOK
    <3>3. QED
      BY <3>1, <3>2
  <2>5. Service!Request("irq", "read", issued + 1)
    BY <2>1, <2>3, EnterPends DEF Service!Request
  <2>6. QED
    BY <2>1, <2>5, EnterPends DEF Service!Next, Tag
<1>3. CASE IrqExit
  BY <1>0, <1>3 DEF IrqExit, At, InGap, Pending, calls, history
<1>4. CASE SendCommand
  BY <1>4 DEF SendCommand, InGap, Pending, calls, history
<1>5. CASE TransferDone
  BY <1>5 DEF TransferDone, InGap, Pending, calls, history
<1>6. ASSUME NEW c \in Contexts, Transact(c)
      PROVE  Service!Next \/ UNCHANGED Service!vars
  <2> USE DEF At, calls, history
  <2>0. UNCHANGED <<calls, inIrq, delivered, history>>
    BY <1>6 DEF Transact
  <2>10. UNCHANGED InGap
    <3>1. At(c, pc[c]) /\ \E s \in Steps : Goto(c, s)
      BY <1>6 DEF Transact, ClearBuffers, CopyHeader, CopyBody, LowerFlag, StartTransfer,
                  Trigger, FinishWait, CopyAnswer, Steps
    <3>2. QED
      BY <2>0, <3>1 DEF Runs, Goto, InGap, DataInv, WaitInv, TypeOK
  <2>1. CASE ClearBuffers(c)
    BY <2>0, <2>1, <2>10, InsideCall DEF ClearBuffers
  <2>2. CASE CopyHeader(c)
    <3>1. pc[c] # "idle" /\ (Goto(c, "body") \/ Goto(c, "lower")) /\ UNCHANGED body
      BY <2>2 DEF CopyHeader
    <3>2. Pending' = Pending
      BY <2>0, <3>1, InsideCall
    <3>3. QED
      BY <2>0, <2>10, <3>1, <3>2
  <2>3. CASE CopyBody(c)
    BY <2>0, <2>3, <2>10, InsideCall DEF CopyBody
  <2>4. CASE LowerFlag(c)
    BY <2>0, <2>4, <2>10, InsideCall DEF LowerFlag
  <2>5. CASE StartTransfer(c)
    <3>1. pc[c] # "idle" /\ (Goto(c, "trigger") \/ Goto(c, "wait")) /\ UNCHANGED body
      BY <2>5 DEF StartTransfer
    <3>2. Pending' = Pending
      BY <2>0, <3>1, InsideCall
    <3>3. QED
      BY <2>0, <2>10, <3>1, <3>2
  <2>6. CASE Trigger(c)
    BY <2>0, <2>6, <2>10, InsideCall DEF Trigger
  <2>7. CASE FinishWait(c)
    <3>1. CASE txn[c] \in writes
      <4>1. Pending' = [Pending EXCEPT ![c] = <<"none", 0>>]
        BY <2>0, <2>7, <3>1, ReturnEnds DEF FinishWait
      <4>2. Pending[c] = <<"write", txn[c]>> /\ UNCHANGED <<body, torn>>
        BY <2>0, <2>7, <3>1 DEF FinishWait, Pending
      <4>3. c = "main" => Pending["irq"] = <<"none", 0>>
        BY <2>0, <2>7 DEF FinishWait, Runs, Pending, DataInv, WaitInv, HandlerRests
      <4>6. ~InGap
        BY <2>7 DEF FinishWait, Runs, DataInv, WaitInv, Claimed, InGap
      <4>4. Service!Reply(c)
        BY <2>10, <4>1, <4>2, <4>3, <4>6 DEF Service!Reply
      <4>5. QED
        BY <4>4 DEF Service!Next
    <3>2. CASE txn[c] \notin writes
      BY <2>0, <2>7, <2>10, <3>2, InsideCall DEF FinishWait
    <3>3. QED
      BY <3>1, <3>2
  <2>8. CASE CopyAnswer(c)
    <3>1. Pending' = [Pending EXCEPT ![c] = <<"none", 0>>]
      BY <2>0, <2>8, ReturnEnds DEF CopyAnswer
    <3>2. /\ Pending[c] = <<"read", txn[c]>>
          /\ body' = [body EXCEPT ![c] = spi_rx_buffer]
          /\ UNCHANGED torn
          /\ spi_rx_buffer \in Tag
      BY <2>0, <2>8 DEF CopyAnswer, Pending, DataInv, WaitInv, Numbered, TypeOK
    <3>3. ~torn => spi_rx_buffer = txn[c]
      BY <2>0, <2>8 DEF CopyAnswer, DataInv, WaitInv, Undisturbed, Sound, InTransfer, Runs
    <3>4. c = "main" => Pending["irq"] = <<"none", 0>>
      BY <2>0, <2>8 DEF CopyAnswer, Runs, Pending, DataInv, WaitInv, HandlerRests
    <3>7. ~InGap
      BY <1>0, <2>8 DEF CopyAnswer, Runs, InGap
    <3>5. Service!Reply(c)
      <4>1. Pending[c] # <<"none", 0>> /\ Pending[c][1] = "read" /\ Pending[c][2] = txn[c]
        BY <3>2
      <4>2. spi_rx_buffer \in IF torn THEN Service!Tag ELSE {Pending[c][2]}
        BY <3>2, <3>3, <4>1 DEF Tag
      <4>3. QED
        BY <2>10, <3>1, <3>2, <3>4, <3>7, <4>1, <4>2 DEF Service!Reply
    <3>6. QED
      BY <3>5 DEF Service!Next
  <2>9. QED
    BY <1>6, <2>1, <2>2, <2>3, <2>4, <2>5, <2>6, <2>7, <2>8 DEF Transact
<1>7. CASE UNCHANGED vars
  BY <1>7 DEF vars, InGap, Pending
<1>8. QED
  BY <1>1, <1>2, <1>3, <1>4, <1>5, <1>6, <1>7 DEF Next

\* The transport implements the safety part of SpiService: calls nest, and a
\* read returns its own answer unless it has been disturbed.
THEOREM ImplementsService == Spec => Service!Safe
<1>1. Init => Service!Init
  BY DEF Init, InGap, Service!Init, Service!Contexts, Service!None, Pending, Contexts, Zero
<1>2. QED
  BY <1>1, ServiceStep, DataInvariant, PTL DEF Spec, Service!Safe
=============================================================================
