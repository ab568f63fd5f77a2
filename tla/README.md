# Verification of the DWM1001 SDK

TLA+ models of the node software under `src/nodes/common` (a C++ library for the
Decawave DWM1001 module: an nRF52832 with a DW1000 radio) and of the example node
`src/nodes/examples/cli`, the TLC configurations that check them and proofs that
TLAPS checks. Paths below are relative to the repository.

## The system

A node has one processor, no operating system and three kinds of execution:

- the foreground: `main` calls `app_sched_execute` for ever, which runs the tasks
  queued by `utilities::schedule_task` to completion, one after another;
- the GPIOTE handler (priority 7): the DW1000 raises its IRQ line and
  `irq_callback` calls the driver's `dwt_isr`, which calls the application back;
- interrupts above it: the SPIM driver's (priority 6, `spi_callback`), and the
  SoftDevice's event dispatch and the timers (Bluetooth).

They share plain static variables; nothing is locked.

| Component | State | Operations | Used by |
| --- | --- | --- | --- |
| SPI transport (`dw1000.cpp`) | `spi_io_done`, two buffers, the SPIM | `readfromspi`, `writetospi`, `spi_callback`, `irq_callback`, empty `decamutexon/off` | the DW1000 driver, from the foreground and from the GPIOTE handler |
| Radio operations (`dw1000.cpp`) | in the chip | `initialize`, `set_irq_callbacks`, `set_tx_buffer`, `get_tx_buffer`, transmit, receive, timestamps | applications |
| Command line (`cli.cpp`) | `command_handlers`, locals | `initialize`, `read_arguments`, `process_command` | its own task |
| Tasks (`utilities.cpp`, `core.cpp`, `cli.cpp`, `main.cpp`) | the scheduler's queue | `schedule_task`, `receive_command_task`, main loop | everybody |
| Console output (`cli.cpp`, `cli.hpp`) | the UART | `write`, `write_line`, `hexdump` | everybody, interrupts included |
| Bluetooth connection (`bluetooth.cpp`) | `connection_handle`, queued write module, advertising | the event handlers | the SoftDevice |
| GATT characteristics (`bluetooth.hpp/.cpp`) | `value`, `value_size`, the attribute in the SoftDevice | `set_value`, `send_notification` | applications, the peer |
| Bluetooth initialization (`bluetooth.cpp`) | `advertising_module`, the service handles and UUIDs, the stack's attribute table | `initialize`, `register_service`, `register_characteristic`, `get_address` | `main`, the radio (address) |
| Number conversions | - | `from_string`, `hex`, `dec`, timestamps, short address | applications |
| Host library (`python/common.py`) | a text buffer | `process_input`, `write_command` | scripts on a host |

What must be right:

- SPI: every transaction ends (it does but for one gap, see below), a read returns the chip's answer to itself, and a
  write reaches the chip unchanged, although the handler uses the same buffers;
- command line: no access outside the buffers, handlers get the words that were
  typed, a command is refused only if nobody answers to it;
- tasks: the prompt always comes back, no task waits for ever behind another;
- connection: a peer that asks is answered and nobody else is, the node can
  always be connected to again;
- characteristics: the peer reads what was set last, and never anything older than the value before it;
- radio: no event of the chip is forgotten, a callback ends the operation that is
  outstanding, SPI is not used where there is no SPI driver;
- frames: what a context has put into the transmit buffer is what leaves, and a delayed one
  leaves when it was asked to;
- console: no byte of the foreground is lost, and no line is lost in part;
- numbers: nothing readable is refused, and what is shown can be typed in again;
- Bluetooth initialization: whoever can connect finds each characteristic in its service;
- host library: the script gets the prompt behind every command, and the result of its own
  command;
- the node: whatever fails at boot, and whenever the processor is restarted, it ends with a
  prompt or in one of the hangs that are known.

The behaviours that are hard to test, and the properties about them, are listed in
`PROJECT.json` under `hazards`. The main ones are the handler's SPI transactions
inside the foreground's, the busy waits, the queue of five events that a task needs
two slots of, events that wait while the link they are about is gone, memory the
Bluetooth stack reads while the program writes it, a transmit buffer set in two
transactions, one UART for the foreground and all handlers, and a radio that goes on
working while the processor is restarted.

## The modules

| Module | Models | Abstract specification | Instance | Proofs |
| --- | --- | --- | --- | --- |
| `SpiBus` | `dw1000.cpp` 42-141 | `SpiService` | `MCSpiBus` | `SpiBusProofs` |
| `CommandLine` | `cli.cpp` 35, 68-181, 197-212 | the words of the line, as operators | `MCCommandLine` | `CommandLineProofs` |
| `CommandTask` | `utilities.cpp` 34-45, `cli.cpp` 183-195, `main.cpp` 108-124 | - | `MCCommandTask` | `NodeProofs` |
| `Connection` | `bluetooth.cpp` 42-186, 394-415 | - | `MCConnection` | `ConnectionProofs` |
| `Characteristic` | `bluetooth.hpp` 97-185, `bluetooth.cpp` 321-415 | - | `MCCharacteristic` | `GattProofs` |
| `Radio` | `dw1000.cpp` 138-346 | - | `MCNode` | `NodeProofs` |
| `Console` | `cli.cpp` 34-66, `cli.hpp` 87-100 | - | `MCConsole` | `SerialProofs` |
| `Frames` | `dw1000.cpp` 43-54, 291-338 | - | `MCFrames` | `TransmissionProofs` |
| `DelayedReply` | `dw1000.cpp` 323-385 | - | `MCDelayedReply` | `TransmissionProofs` |
| `Numbers` | `utilities.hpp` 50-65, `cli.hpp` 48-75, `cli.cpp` 220-244, `main.cpp` 56-106 | the value of digits by their places | `MCNumbers` | `NumbersProofs` |
| `BluetoothSetup` | `bluetooth.cpp` 193-375, 423-515 | - | `MCBluetoothSetup` | `GattProofs` |
| `HostSession` | `python/common.py` 38-64, `cli.cpp` 37-66, `cli.hpp` 25-100, `main.cpp` 41-119 | - | `MCHostSession` | `SerialProofs` |
| `Node` | `main.cpp` 108-124, `core.cpp` 31-49, with `BluetoothSetup`, `Radio` and `CommandTask` | - | `MCNode` | `NodeProofs` |

Operators under a comment that begins with "Mutant" are variants of the definition
that follows them, with a bug such code might have. No specification uses them: put
in the place of the definition they show that a property can fail.
`PROJECT.json` names the property each of them breaks.

### SpiBus

Each step of `readfromspi` and `writetospi` that touches shared state is an action,
for a context `c` that is `"main"` or `"irq"`; `pc[c]` says where it stands. `Runs(c)`
is the processor: while the handler runs the foreground does not move. `IrqEnter` can
come at any foreground step. The SPIM's two phases, `SendCommand` and `TransferDone`,
happen at any time; the latter includes `spi_callback`, which preempts both contexts.

Bytes are abstracted to the number of the transaction they belong to. `0` is what
`fill(0)` leaves. `spim.command` is the header as EasyDMA found it in the buffer; the
body is read from the buffer when the data phase ends. So a buffer rewritten between
the two phases gives a command with another command's body, as in the code.

Unconditional integrity does not hold. A handler that comes after the foreground has
begun to fill the buffers rewrites them, and its transfer is refused if the
foreground's is running. The damage can outlast the handler: a foreground transaction
may be finished by the end of the handler's transfer while its own is still running,
and the next one then begins on a busy bus. The history variable `torn` says that an
interrupt has come in the middle of a foreground transaction at some time, and the
integrity properties promise nothing after that.

Nor does every call return. `nrfx_spim_xfer` marks its driver busy (`StartTransfer`) before it selects the
chip, sets up EasyDMA and starts the transfer (`Trigger`). A handler that comes in this gap is refused, polls
`spi_io_done` all the same, and nothing runs that could raise it: the foreground, which would
start it, waits for the handler. `PollsInVainOnlyInTheGap` says that this is exactly
when a poll is in vain: whoever polls anywhere else finds the flag raised or a transfer under way, whoever's it is.

`SpiService` states the promise with one outstanding call per context, nested, an
answer for each, and arbitrary answers once disturbed. `ServiceSpec` says that `SpiBus`
implements it under the mapping `pending <- Pending`, `answer <- body`,
`disturbed <- torn`, `stuck <- InGap`, including that every call returns unless a handler gets stuck in the gap.

### CommandLine

`storage` is an array of cells, `character` and `argument` are the iterators as
indices. Each prompt begins with `storage` indeterminate (`Garbage`), since it is an
uninitialised local. A byte from the UART is one of three actions for a space or a
character, split by the code's conditions, or `ReceiveReturn`; the "too long" test
behind the `if` is `Advance`, part of the actions that store something. Echoing and
messages are left out. `TryHandler` is one turn of the loop over the handlers. A
handler is represented by the word it compares its first argument with.

`typed` and `start` record what was typed, and how much of the line earlier prompts
swallowed. `Words` and `Fits` read the line without a buffer and are what the buffers
are compared with.

### CommandTask

`queue` is the SDK's event queue. `app_sched_execute` frees the slot of an event when
its handler has returned, so `Take` leaves the event in the queue and `Release` removes
it. `AppTasks` are an application's own tasks, scheduled by interrupts or by tasks as often as these like:
`schedule_task` does not ask whether a task waits already. `mode = "reading"` is the blocking UART
read, `"hung"` the endless loop at `cli.cpp` 190. An application can fill the queue during the read,
with one task alone, and the reception then hangs; the history variable `crowded` says that
it has not left the two slots the reception needs, of the five the library's queue has, at some time.
`OneReception` promises nothing after that, and `StarvesOnlyBehindTheCli` that nothing else stops a task.

### Connection

The SoftDevice's side is external and modelled from how the code uses it: one link that
comes and goes, a queue of events, and calls accepted when a link exists. `Dispatch`
handles the oldest event, with the modules of the SDK that observe it first. All real
connections have the same handle value; the model numbers them in order to tell them
apart, but a call acts on whatever is linked. `acted` and `notified` record for whom a
call was meant and whom it met, and whether it was accepted: a handle the code has not stored, or has
lost, is refused. `send_notification` reads `connection_handle` twice:
`CheckConnection` and `SendNotification` are separate, and the second read gives the
old or the present value.

### Characteristic

Both templates in one module: `variable_length` chooses. `value` is memory the stack
reads and the peer writes (`BLE_GATTS_VLOC_USER`), so `set_value` copies it cell by cell.
`length` is the stack's idea of the length, `value_size` the object's. For a variable
length they differ until the first `set_value` when an initial size was registered, and
after a write of the peer; a notification then imposes `value_size`. `Settled` excludes
these cases, which the code does not try to handle; `NothingOlderIsRead` does not.
`set_value` takes a span of any length. Of one that is longer than `value`, the first bytes behind it go to
`value_size` (`CopyCell` leaves it arbitrary), which is assigned only afterwards, and the stack refuses its length, in
`update_value` and in a notification. What lies behind the object is not modelled, nor that
`value_size` has 16 bits: the processor has no memory for a longer span.

### Radio

`step` is where `initialize` stands; each call of it that changes something is an
action, and those that can fail have a disjunct that ends at `"failed"`: `initialize`
returns nothing, so the application goes on. An SPI transaction is one step, as
`SpiBus` has its inside; here it matters whether there is a driver (`spi`), because without
one nobody raises `spi_io_done` and the caller is `hung`. `warm` says that only
the processor has been restarted. The chip then still has its operation, events and
mask, and can raise the line between `SetUpIrq` and `ResetChip`, when the handler has no SPI.

`Sense` is the GPIOTE channel, which sees rising edges only. `dwt_isr` is external:
`ReadStatus` reads the status once and `Handle(e)` clears an event and calls back.
`callbacks` goes from `"null"` to the `"dummy"` ones of `initialize` to those of the
application. Applications are not in the repository. One is assumed to set its
callbacks first and to have one operation outstanding; it may start the next in a callback.

### HostSession

What the node writes is a sequence of chunks in `output`, moved to `wire` by
`WriteChunk`. Each argument of `write` or `write_line` is one, so that the line of an
interrupt handler (`Log`) can come between any two. A handler that interrupts a chunk
finds the UART busy; nobody looks at the result of `nrfx_uarte_tx`, and the line is lost,
which in the model is that nothing happens. `ProcessInput` adds an element to
`buffer` and tries the patterns in the order of `common.py`. The script is assumed to take tokens
until it gets the prompt and then to write the next command; `ReadEcho` is the
`readline` of `write_command`, which takes whatever ends with the first newline for the echo.
`of` tells which command an element answers.

### Console

The same UART as in `HostSession`, from the inside: levels of execution above each other
(`Runs`), each writing a line argument by argument and an argument chunk by chunk. `nrfx_uarte_tx`
has no event handler here and polls; `Busy` is its flag, which stays up until the
interrupted caller has looked again, so `uart` (the transmission) may be over
while the driver still refuses. `begin`, `end` and the length of the text are the iterators
of `details::write`. `due`, `arrived` and `cut` record what the line consists of, what got onto the wire and
whether the line began inside somebody else's chunk. A handler's line is lost as a whole
exactly then: its chunks are refused one after the other, and none of them gets through because the
interrupted caller cannot go on in between.

### Frames

`set_tx_buffer` is `WriteTxData` and `WriteTxFctrl`, two SPI transactions that a callback may come
between. A byte is the number of its frame, so what the peer receives tells which frames it
was put together from. `SpiBufferSize`, `Header` and `MaxFrame` are related by an assumption the
library's constants satisfy (1 + 127 <= 128); `Lengths` may go beyond, which the code
logs and does, up to the chip's buffers (`Memory`). `set_tx_buffer` does not ask for the two bytes of the check sequence
either. Of a frame of 0 or 1 bytes the driver writes `length - 2` in 32 bits (`Word`), and the copy into the SPI
buffer faults (`WriteTooShort`; after it nobody runs). `logged` says whether the comparison in
`writetospi` has noticed: of 0 bytes the sum with the header stays large, of 1 byte it wraps to 0 and is not noticed. The history variable `whole` says that nobody else has touched the buffer since a context has
set it. The tail of the receive buffer behind a short frame is what was there before.

### DelayedReply

The time is a number of five bytes, the registers are these bytes, and every sum and
shift is the code's (a byte has `Byte` values, 256 in the code and 2 in the run): `SetDelayedTime` loses the lowest byte and whatever is beyond the period.
The chip ignores the lowest bit of what is left, so it cannot tell times apart within `Grain`, nine bits
of the original. It refuses a transmission whose time is past by less than half a period, and one that is ahead by less than
it needs to power up (`PowerUp`), which `dwt_starttx` both answers with an error and the code logs as passed.
`elapsed` is the real time since the time was taken, without wrapping around. A request that comes more than
half a period late is taken by the chip for one in the future, and leaves almost a period
later; `LeavesOnTime`, the first half of `AnswerIsKept`, excludes it, and the application has 8.6 seconds before it happens.

### Numbers

Characters are digits or `Other`. `FromString` is `std::from_chars` with its stop at the first
character that is no digit and its overflow check; `Write` fills up with zeros. The user types an
argument, or copies what is on the screen, the digits alone or with their prefix. `Value` adds up
digits by their places, from the last one on, and is the reference for all conversions: `Evaluate` reads
them from the first one on, as `from_chars` does. `Size` and `ToChars` are `std::to_chars`, written
without a loop. Rows of a dump are numbered with `RowDigits` digits as long as these suffice, and
with more behind that, as the code does; `DumpReadsBack` promises equal widths only so far.

### BluetoothSetup

`stage` is the call `initialize` is in. Each call fails or succeeds, and nothing is
returned, so the sequence always goes on with what a failed one has left: a handle
or a UUID type of 0. Which calls the stack then refuses is external. The application's
initializers are the library's own pattern: register a service, then its characteristic.
There is no property about advertising: `start_advertising` is called in any case, and whether anybody can then connect
is up to the checks of the SDK's module.

### Node

`Node` extends `CommandTask`, whose loop its foreground ends in, and instances `BluetoothSetup` and `Radio` over
variables of its own; `boot` is the call `main` is in. What the modules share is the foreground (`MainRuns`), which
interrupts hold up and a hang stops, `enabled`, without which the radio has no address, and `Restart`, which
resets everything but the chip (`operation`, `status`, `mask`). The example registers no
service (`MaxServices = 0`). Tasks and callbacks use the radio as applications do. An SPI transaction is a single step
here, which cannot be interrupted: the handler that is stuck in the gap (see `SpiBus`) is outside of
`HangsOnlyWithoutSpi`, `ConsoleLivesUnlessHung` and `OperationsEnd`.

## The runs

| Run | Bounds | Shows |
| --- | --- | --- |
| `spi_bus` | 4 transactions | `PollsInVainOnlyInTheGap`, `TransactionsAreFaithful`, `HandlerReadsFromIdleBus`, `ServiceSpec` |
| `command_line` | storage 5, 2 arguments, 3 handlers, 7 characters between two Returns | `ArgumentsWellFormed`, `ArgumentsAreTheWords`, `MatchesWholeLinesThatFit`, `UnknownMeansNoHandler` |
| `command_task` | queue 5, 2 tasks, posted any number of times | `OneReception`, `StarvesOnlyBehindTheCli` |
| `connection` | 3 connections, requests raised with at most 3 events waiting | `HandlesFollowTheLink`, `HandlersAnswerTheirPeer`, `NotificationsAreCurrent`, `Reconnectable`, `TimedOutLinkEnds` |
| `characteristic` | 3 cells, values of 0 to 5, 4 set_value calls | `PeerReadsTheLastValue`, `NothingOlderIsRead` |
| `host_session` | 3 commands, 2 logged lines | `TurnsAlternate`, `ResultOfItsCommand`, `ResultLostOnlyToALog`, `PromptComesBack` |
| `console` | foreground and 2 interrupt levels, buffer of 2, arguments of 0, 2 and 3 bytes, 2 per line | `LinesAreWholeOrLost`, `HandlersReturn` |
| `frames` | SPI buffer 6, standard frame 5, frames of 0, 1, 2, 4, 5 and 8 bytes, 3 of them, lengths of 5 bits in the driver | `OnlyOddFramesOverrun`, `FramesLeaveWhole`, `NewestFirst` |
| `delayed_reply` | time of 5 binary digits, delays 1, 8, 16, 20, 3 units to power up, up to 50 units of waiting | `AnswerIsKept`, `TimestampsMeasure` |
| `numbers` | bases 3 and 4, values below 16, texts of up to 3 characters, rows of 2, blocks of up to 5 bytes | `RefusedOnlyIfUnreadable`, `DigitsComeBack`, `DumpReadsBack` |
| `bluetooth_setup` | up to 3 services, 2 vendor UUIDs, room for 2 in the advertising data | `CharacteristicsStayHome` |
| `node` | queue 5, 1 task, posted any number of times, 3 operations, 2 restarts | `HangsOnlyWithoutSpi`, `NoEventIsForgotten`, `OneReception`, `CallbacksFitTheOperation`, `ConsoleLivesUnlessHung`, `OperationsEnd` |

`HangsOnlyWithoutSpi` and `NoEventIsForgotten` of `Node` are those of `Radio`, and `OneReception` is that of
`CommandTask`, all over the node's variables: the run of the whole node checks these two components
under the steps of the others and under restarts, where they could be disturbed. `OneReception`
counts a hung reception as none, so it contains that the reception never hangs while the application leaves it two slots.

Why the bounds are enough: four transactions are two of the foreground and two of
handlers, or a foreground one disturbed by a handler's and followed by another. Seven
characters overflow a storage of five, leave a rest that is a command of its own, and
allow three words with spaces around them where two fit; the three tables are one with
room to spare, one that is full and has a repeated word, and one too long. The queue
has its real size. Three connections allow the events of one to wait while the link
of the next is made and dropped. Two tasks, or one posted again and again, fill the queue at every point of the reception. Four values of up to three cells allow an old long value to
show behind a shorter one; values of five run over `value_size` and something behind it. Three operations of the node's radio are one that ends, one started in its
callback and one that comes while the first handler has not returned. Three commands let a
late line of one meet the echo of the next and the result of the one after it; two logged lines can
come into the same result, or one into the echo and one into the result.
Two interrupt levels let a handler's line be interrupted inside a refused and inside an accepted
chunk; arguments of 0, 2 and 3 bytes are an empty chunk, a full one and one with a rest. In `frames` frames of
0 and 1 byte wrap around, once in the length and once more in the sum; one of 4 bytes has room to spare, one of 5 fills the SPI buffer when it is read, one of 8 overruns it; three frames are one
interrupted, one of the callback and an older one whose rest shows. In `delayed_reply` every start of the time
is tried, so all sums that wrap around occur; delays are below the power-up time, between it and half the period, at half and above, and the application may be
slower than a whole period. In `numbers` the bases keep their order, the widest
value has different lengths in both, and texts of three characters exceed it in the larger base; blocks end
before, at and behind the end of a row. Three services with room for two make both limits bite, and
leave two services that fail behind one that does not. In `node` the second restart meets
a chip that works for a run that has itself been a restart, and the queue has its real size.

Deadlock is checked for `command_line`, `characteristic`, `console`, `delayed_reply` and
`numbers`, which never stop (the bound on `set_value` leaves notifications). It is not for the others: the SPI
driver rests when nobody calls it or the bound on transactions is reached, a frame that is too short ends the program (`frames`), a hung
reception or a hung SPI transaction stops the program (`command_task`, `node`), no connection
or command follows the last one, and the Bluetooth initialization ends.

Two places where a text of the repository and its code differ were met on the way. They are noted here and no
run is about them. The comments at `bluetooth.cpp` 232 and 234 give a connection interval of 0.5 and 1
seconds; the code beside them asks for 0.1 and 0.2. The help of `dec` (`main.cpp` 52) promises to
convert a hex value; of a value as `hex` shows it, with 0x, `from_chars` reads the 0 and stops, and
`dec` answers 0. `DigitsComeBack` is therefore about the digits alone.

Fairness. `SpiBus`: the context that runs takes its next step (a processor executes), a
handler's callbacks end, and the peripheral finishes a transfer; calls and IRQs are not
assumed to come. `CommandTask`: `main` keeps running and application tasks return;
`FinishCommand` is not fair, for nobody need type a Return. `Connection`: a raised event is
dispatched, and a requested disconnection is carried out. `HostSession`: node and host run, but the script need not write another
command. `Console`: the level that runs goes on, and a transmission ends. `Node`: the foreground goes on when no interrupt is due, interrupts are handled,
and the chip ends what it can end by itself (a transmission, or a reception with a timeout; a reception
without one need not end); no restart and no task is assumed, nor that anybody types a Return
(`Restart`, `ScheduleTask` and `ReturnTyped` are not fair).
`CommandLine`, `Characteristic`, `Frames`, `DelayedReply`, `Numbers` and `BluetoothSetup` have safety properties only.

## The proofs

TLAPS proves these for every value of the constants under the assumptions stated in the
modules (sizes are positive naturals, characters are distinct, sets are finite).

- `SpiBusProofs`. `VainPollsAreInTheGap` rests on `WaitInv`: the driver is marked and not started exactly while
  one context is inside `nrfx_spim_xfer`; a handler that has stopped the foreground there gets as far as its own wait, with the flag down;
  and whoever waits anywhere else is served, but for a foreground whose flag the handler has lowered and not yet made up for.
  `UntornMeansFaithful` rests on an invariant that says, for each step of an undisturbed
  transaction, what buffers, flag and peripheral hold; while the handler runs in front of
  an idle foreground, or one that has not filled its buffers yet, the same holds for the
  handler. `HandlersReadFaithfully` has the same shape for a handler that found the bus
  idle, whatever state the foreground is in. `ImplementsService` maps each action to a
  step or a stutter of `SpiService`.
- `CommandLineProofs`. `BufferInv` ties the iterators together: everything before
  `character` is initialised, the arguments below `argument` are set and point to text, the
  one at `argument` is set exactly while a word is being stored. `FitInv` relates `character` to the number
  of characters that need room, and the arguments to the number of word beginnings; their
  cardinalities grow by one with each character typed. `WordsStand` says where in `storage` each word of
  the line stands: the argument whose number is the word's rank points to it, cell by cell, and a `'\0'` follows it
  unless it is still being typed. From this `HandlersSeeTheWords` (`ArgumentsAreTheWords`) follows, since the
  C string at an argument is then the word. `DispatchInv` says that no handler before `cursor`
  answers to the command.
- `ConnectionProofs`. The events in the queue are an alternation of connections and
  disconnections, and the last of them, or the handles if there is none, tells
  whether a link exists; since a disconnection is dispatched before advertising
  starts again, a waiting event can be about the present link or a closed one but
  not about one followed by another.
- `GattProofs`. `ValueInv`: the cells `set_value` has copied are the new ones, the
  others that the peer has not written one value old, between two calls nothing older lies within `value_size`, and
  the two lengths then agree if the peer has not written and the object's does not exceed the memory. `SetupInv`, for the initialization: a service has a handle only once its initializer has run,
  and the last in the stack's table is the last that got a handle, so a characteristic, which the stack puts
  into the last service, is at home.
- `NodeProofs`, in three parts. `TaskInv`: the queue is within its slots, and the reception waits at most once, and
  not while it runs. `RoomInv`: unless the history is `crowded`, the events of the application leave two slots, and the reception's own
  put changes nothing about that; so whenever it puts itself into the queue there is one (`SlotLeft`), and it waits or runs (`ReceptionInv`).
  `RadioInv`: which SPI driver there is at each step of
  `initialize`; what chip and handler can do before the chip is reset; that a line that is high
  has a handler coming or one that has read its events; and that of a chip whose application
  has set its callbacks at most one operation or event is unhandled, which is an
  outcome of the outstanding operation. `HangsAreExplained`, `EdgesSuffice` and `CallbacksFit` follow.
  For the node, `NodeIsItsComponents` shows that each of its steps is one step, or none, of each of
  `BluetoothSetup`, `Radio` and `CommandTask`, or a restart, behind which all three are in one of their
  initial states; `Radio`'s is that of a warm chip, whose mask `initialize` alone has set (`MaskInv`). So the
  invariants of the components are one of the node, and their safety properties hold in it, for any number of restarts.
- `SerialProofs`. `ConsoleInv`: a level that polls is the only one, everybody above it began inside its chunk, and
  what has arrived of a line is what lies before `begin`, or nothing if the line is cut. The transmission adds its
  chunk before the caller has seen its end, so for a polling level `arrived` depends on `uart`.
  `SessionInv`, for the node and its host, is about the stream of what the host has in its buffer and what is on the
  wire behind it, and about what the node has still to write, whose length tells where in the answer it stands:
  until the answer is written there is no prompt in the stream, then a single one, the last thing but for logs; an element of a
  log has the rest of its line behind it; every value has the number of the present command, and behind `Result:` one
  follows before any `#`; and a result that nothing has come into stands in one piece, also when a part of it is in the buffer.
- `TransmissionProofs`. `FramesInv`: while `whole` holds for a context the chip's buffer has its frame up to where it
  got, at most one context has it, an armed transmission that is kept still finds its frame there, and
  frames lie in both buffers from the newest to the oldest.
  `ReplyInv`, for the delayed reply, relates times that are the same but for whole periods: the clock and `base + elapsed`, the
  time of departure and `base + delay` without a remainder below `Grain`. A transmission that was accepted has less than half a period
  to wait, counted from when it was asked for, until it leaves. So the moment at which a frame leaves and the one it was meant for are
  the same but for whole periods, and if it was not asked for half a period late, less than one period apart: they are the same.
  The arithmetic rests on lemmas about `Same` (sums, remainders, two times near each other) and on
  `BytesComeBack`, that the five bytes of a time make up that time.
- `NumbersProofs`. The recursive definitions of `Numbers` are functions, and what they compute is proved
  by induction: `NatLeast`, that a set of naturals has a least element, is an instance of the
  library's `WFMin`, and gives `Induction` in the form "a set with 0 and all successors has all naturals". `Recursion` shows
  with it that the recursive functions exist. `EvaluateIsValue`: at each digit from the front, what has been
  read times the power of the digits to come, plus their value, is the whole value; and what is refused on the way does
  not fit, for the digits to come only add to it. `WrittenReadsBack`: the value of the last `n`
  digits written is the remainder by the `n`-th power of the base. The rest is counting the rows of a dump.

Type correctness is proved as well, from the same invariants, and needs no run: the `TypeOK` of `SpiBus`, `CommandLine`,
`CommandTask`, `Connection`, `Characteristic`, `Radio`, `Console` and `Frames` as theorems, the types of the other modules as
parts of `SetupInv`, `SessionInv` and `ReplyInv`.
So are `ArgumentsContiguous`, `NeverHangs`, `ChunksFit`, `ForegroundLosesNothing` and `CallbacksSendTheirFrames`,
for every size: they are part of what a run checks (`NeverHangs` of `OneReception`), lemmas on the way to
it (a line is lost or whole because chunks fit) or corollaries of the same invariant.

So every invariant and every action property that a run checks is proved, and `ServiceSpec` but for its fairness. The
assumptions on constants are what the code has: sizes are positive, `Header + MaxFrame` fits the SPI buffer, a
transaction's length has more values than any sum of sizes (`Word`), a byte has an even number of values, delays are at least 1 and less than a period (the power-up time may be any), the bases are ordered, and the example registers
no service (`MaxServices = 0`, in `Node` only). The bounds for TLC (`MaxTyped`, `MaxWait`, ...) are any naturals.

Only model-checked: liveness (`StarvesOnlyBehindTheCli`, `Reconnectable`, `TimedOutLinkEnds`,
`OperationsEnd`, `PromptComesBack`, `HandlersReturn`, `ConsoleLivesUnlessHung`, the fairness half of
`ServiceSpec`), which is outside the prover's reach here.

## Not modelled, and the plan

What is left, in this order:

1. `RadioBus`: `Radio`'s single-step transactions over `SpiBus`, so that a torn transaction shows as a wrong
   status or mask. Today the two meet only in their assumptions: `Radio` and `Frames` take a
   transaction for one step, which `SpiBus` justifies as long as none is torn, and then the gap in which a handler hangs would be one of the
   node's hangs.
2. `Node` with services and a connection, composed with `Connection` and `Characteristic`.

Left out for good: the SoftDevice, the SDK and the DW1000 driver themselves (external; what
the code relies on is in the models); build, board and SDK configuration, of which the models take the constants;
`mac_frame.hpp` (a type nothing executes); `compute_clock_offset_ratio` (floating point); the values of the
PAN id, the short address, the frame filter and the antenna delays, which are written to the chip once
and read by nothing in the repository; LEDs and log texts.
