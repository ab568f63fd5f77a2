-------------------------------- MODULE Node --------------------------------
(***************************************************************************)
(* A node as main of src/nodes/examples/cli/main.cpp makes it: Bluetooth   *)
(* without services, the radio, the reception of commands and the main     *)
(* loop, one after the other and then together.  A node is a CommandTask,  *)
(* the loop its foreground ends in, with a BluetoothSetup and a Radio.     *)
(* Their steps are its steps; here is what they share: the one foreground, *)
(* which interrupts hold up and a hung SPI transaction stops, the          *)
(* Bluetooth address, from which the radio takes its own, and a restart,   *)
(* which leaves the radio chip as it is.                                   *)
(*                                                                         *)
(* The library's applications use the radio in their tasks and callbacks.  *)
(***************************************************************************)
EXTENDS CommandTask

CONSTANTS
  MaxOperations,                              \* of Radio
  MaxServices, MaxVendorUuids, MaxAdvertised, \* of BluetoothSetup
  MaxRestarts                                 \* bound on the restarts

ASSUME RestartAssumption == MaxRestarts \in Nat /\ MaxOperations \in Nat /\ MaxServices = 0

VARIABLES
  boot,      \* the call main is in
  restarts,  \* number of restarts so far
  stage, services, next, enabled, uuid_type, handle, table, placed,
  announced, prepared, advertising,
  warm, step, spi, listening, edge, isr, handling, callbacks, operation,
  status, mask, outstanding, started, hung

Bluetooth == INSTANCE BluetoothSetup
Radio     == INSTANCE Radio

bluetooth == <<stage, services, next, enabled, uuid_type, handle, table, placed,
               announced, prepared, advertising>>
radio     == <<warm, step, spi, listening, edge, isr, handling, callbacks, operation,
               status, mask, outstanding, started, hung>>
vars      == <<boot, restarts, bluetooth, radio, taskVars>>

\* An interrupt that is due comes first, and nothing comes after a hang.
MainRuns == isr = "none" /\ ~edge /\ ~hung

-----------------------------------------------------------------------------
Init ==
  /\ boot = "core" /\ restarts = 0
  /\ Bluetooth!SetupInit /\ Radio!Init /\ TaskInit
  /\ ~warm

\* core::initialize: its parts fail with a message at most.
CoreInitialize ==
  /\ boot = "core" /\ MainRuns
  /\ boot' = "bluetooth"
  /\ UNCHANGED <<restarts, bluetooth, radio, taskVars>>

BluetoothInitialize ==
  /\ boot = "bluetooth" /\ MainRuns
  /\ Bluetooth!SetupNext
  /\ boot' = IF stage' = "done" THEN "radio" ELSE boot
  /\ UNCHANGED <<restarts, radio, taskVars>>

\* dw1000::initialize.  get_short_address needs a stack that is enabled.
RadioInitialize ==
  /\ boot = "radio"
  /\ Radio!Initialize
  /\ step' = "ready" => enabled
  /\ boot' = IF step' \in {"ready", "failed"} THEN "reception" ELSE boot
  /\ UNCHANGED <<restarts, bluetooth, taskVars>>

\* schedule_command_reception.
StartReception ==
  /\ boot = "reception" /\ MainRuns
  /\ Boot
  /\ boot' = "loop"
  /\ UNCHANGED <<restarts, bluetooth, radio>>

\* app_sched_execute and the tasks it calls, up to a Return that may never come.
Loop ==
  /\ boot = "loop" /\ MainRuns
  /\ Take \/ Repost \/ FinishHandler \/ Release
  /\ UNCHANGED <<boot, restarts, bluetooth, radio>>

ReturnTyped ==
  /\ boot = "loop" /\ MainRuns
  /\ FinishCommand
  /\ UNCHANGED <<boot, restarts, bluetooth, radio>>

\* Timers, events of the stack, callbacks and tasks schedule tasks.
ScheduleTask(t) ==
  /\ boot # "core" /\ ~hung
  /\ Schedule(t)
  /\ UNCHANGED <<boot, restarts, bluetooth, radio>>

\* A task or a callback uses the radio.
UseRadio ==
  /\ mode = "handler" \/ isr = "callback"
  /\ Radio!SetIrqCallbacks \/ Radio!TransmitNow \/ Radio!TransmitDeffered \/ Radio!ReceiveNow
  /\ UNCHANGED <<boot, restarts, bluetooth, taskVars>>

\* The chip goes on, and its interrupts are handled whatever the foreground does.
Interrupt ==
  /\ Radio!Isr
  /\ UNCHANGED <<boot, restarts, bluetooth, taskVars>>

ChipFinishes ==
  /\ Radio!Finish
  /\ UNCHANGED <<boot, restarts, bluetooth, taskVars>>

\* The processor is restarted at any time, and the chip goes on.
Restart ==
  /\ restarts < MaxRestarts
  /\ restarts' = restarts + 1
  /\ boot' = "core"
  /\ stage' = "stack" /\ next' = 1 /\ enabled' = FALSE
  /\ table' = <<>> /\ announced' = {} /\ prepared' = FALSE /\ advertising' = FALSE
  /\ warm' = TRUE /\ step' = "start" /\ spi' = "none" /\ hung' = FALSE
  /\ listening' = FALSE /\ edge' = FALSE /\ isr' = "none" /\ handling' = {}
  /\ callbacks' = [e \in Radio!Events |-> "null"]
  /\ outstanding' = "off" /\ started' = 0
  /\ queue' = <<>> /\ mode' = "boot" /\ crowded' = FALSE
  /\ UNCHANGED <<services, uuid_type, handle, placed, operation, status, mask>>

MainStep ==
  CoreInitialize \/ BluetoothInitialize \/ RadioInitialize \/ StartReception \/ Loop

Next ==
  \/ MainStep
  \/ ReturnTyped
  \/ \E t \in AppTasks : ScheduleTask(t)
  \/ UseRadio
  \/ Interrupt
  \/ ChipFinishes
  \/ Restart

Spec == Init /\ [][Next]_vars

\* The foreground goes on when no interrupt is due, interrupts are handled, and the
\* chip ends what it can end by itself.
FairSpec ==
  /\ Spec
  /\ WF_vars(MainStep) /\ WF_vars(Interrupt)
  /\ WF_vars(operation \in {"transmit", "receive_for"} /\ ChipFinishes)

-----------------------------------------------------------------------------
\* The program hangs in an SPI transaction only where Radio says so; in particular
\* after power-on main always gets to its loop, whatever fails on the way.
HangsOnlyWithoutSpi == Radio!HangsOnlyWithoutSpi

\* No event of the chip is forgotten, also if the chip has gone on during a restart.
NoEventIsForgotten == Radio!NoEventIsForgotten

\* What the chip was told before a restart never gets to a callback of the
\* application that runs now.
CallbacksFitTheOperation ==
  [][\A e \in Radio!Events :
       Radio!Handle(e) /\ callbacks[e] = "application" =>
         e \in Radio!Outcomes(outstanding)]_vars

\* Whatever fails, and whenever the processor is restarted, in the end the console
\* prompts for ever, or the program hangs in an SPI transaction, or the application
\* has filled the queue behind the reception.
ConsoleLivesUnlessHung ==
  <>[]hung \/ <>[]crowded \/ []<>(mode = "reading")

\* The radio's operations come to their end while the foreground waits for somebody
\* to type.
OperationsEnd ==
  step = "ready" /\ outstanding \in {"transmit", "receive_for"} ~> outstanding = "off"
=============================================================================
