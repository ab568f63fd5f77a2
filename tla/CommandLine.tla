---------------------------- MODULE CommandLine ----------------------------
(***************************************************************************)
(* Reading a command line and finding its handler: initialize,             *)
(* read_arguments and process_command of src/nodes/common/cli.cpp.         *)
(*                                                                         *)
(* A byte read from the UART is Return, a character of Text, Space, or an  *)
(* unprintable byte, which leaves no trace.  storage and arguments are     *)
(* locals: each prompt begins with storage indeterminate (Garbage).        *)
(* Iterators and pointers are indices, End the one past the end; Null is   *)
(* nullptr.  A handler is represented by the word it compares              *)
(* arguments.at(0) with, as the handlers of examples/cli/main.cpp do.      *)
(***************************************************************************)
EXTENDS Integers, Sequences, FiniteSets, SequencesExt

CONSTANTS
  StorageSize,     \* 64 in the code
  MaxArguments,    \* 5
  MaxHandlers,     \* 10
  Text,            \* the printable characters other than the space
  Tables,          \* the handler lists an application may pass to initialize
  MaxTyped         \* bound on the characters typed before a Return

CONSTANTS Space, Nul, Garbage, NoHandler   \* distinct, and not in Text

ASSUME SizeAssumption ==
  /\ StorageSize  \in Nat \ {0}
  /\ MaxArguments \in Nat \ {0}
  /\ MaxHandlers  \in Nat \ {0}
  /\ MaxTyped     \in Nat

ASSUME CharacterAssumption ==
  /\ {Space, Nul, Garbage} \cap Text = {}
  /\ Space # Nul /\ Space # Garbage /\ Nul # Garbage
  /\ NoHandler \notin Seq(Text)

ASSUME TableAssumption == Tables \subseteq Seq(Seq(Text))

VARIABLES
  phase,             \* "boot", "idle", "reading" or "matching"
  command_handlers,
  storage,
  character,         \* where the next character goes
  arguments,
  argument,          \* the slot of the next argument, or of the current one
  cursor,            \* the handler process_command tries next
  handled,           \* what came of the last command
  typed,             \* history: the printable characters since the last Return
  start              \* history: how many of them earlier prompts swallowed

locals == <<storage, character, arguments, argument>>
vars   == <<phase, command_handlers, storage, character, arguments, argument,
            cursor, handled, typed, start>>

Null  == -1
Cells == 0 .. StorageSize - 1
Slots == 1 .. MaxArguments
Bytes == Text \cup {Space, Nul, Garbage}

\* The characters of a string constant that starts at p.
CString(p) ==
  LET nul == CHOOSE q \in Cells : /\ q >= p /\ storage[q] = Nul
                                  /\ \A r \in p .. q - 1 : storage[r] # Nul
  IN  [i \in 1 .. nul - p |-> storage[p + i - 1]]

\* What process_command passes to a handler.
Valid  == {k \in Slots : \A j \in 1 .. k : arguments[j] # Null}
Passed == [k \in Valid |-> CString(arguments[k])]

\* Mutant: only the beginning of storage is a boundary.
AtBeginning == character = 0

\* character == storage.begin() || *std::prev(character) == '\0'
AtBoundary == \A p \in Cells : p = character - 1 => storage[p] = Nul

-----------------------------------------------------------------------------
Init ==
  /\ phase            = "boot"
  /\ command_handlers = [k \in 1 .. MaxHandlers |-> NoHandler]
  /\ storage          = [p \in Cells |-> Garbage]
  /\ character        = 0
  /\ arguments        = [k \in Slots |-> Null]
  /\ argument         = 1
  /\ cursor           = 1
  /\ handled          = "nothing"
  /\ typed            = <<>>
  /\ start            = 0

\* Too long a list is refused as a whole; the CLI runs without handlers.
Initialize ==
  /\ phase = "boot"
  /\ phase' = "idle"
  /\ \E table \in Tables :
       command_handlers' =
         IF Len(table) > MaxHandlers THEN command_handlers
         ELSE [k \in 1 .. MaxHandlers |->
                 IF k <= Len(table) THEN table[k] ELSE command_handlers[k]]
  /\ UNCHANGED <<locals, cursor, handled, typed, start>>

Prompt ==
  /\ phase = "idle"
  /\ phase'     = "reading"
  /\ storage'   = [p \in Cells |-> Garbage]
  /\ character' = 0
  /\ arguments' = [k \in Slots |-> Null]
  /\ argument'  = 1
  /\ cursor'    = 1
  /\ handled'   = "nothing"
  /\ start'     = Len(typed)
  /\ UNCHANGED <<command_handlers, typed>>

Type(c) ==
  /\ phase = "reading"
  /\ Len(typed) < MaxTyped
  /\ typed' = Append(typed, c)
  /\ UNCHANGED <<command_handlers, cursor, handled, start>>

\* Mutants: full one character too late, or too early.
AdvanceLate ==
  /\ character' = character + 1
  /\ phase' = IF character = StorageSize THEN "idle" ELSE phase
AdvanceEarly ==
  /\ character' = character + 1
  /\ phase' = IF character + 2 = StorageSize THEN "idle" ELSE phase

\* A full storage ends the command, whatever stands behind it in the input.
Advance ==
  /\ character' = character + 1
  /\ phase' = IF character + 1 = StorageSize THEN "idle" ELSE phase

\* Leading and repeated spaces.
SkipSpace ==
  /\ Type(Space)
  /\ AtBoundary
  /\ UNCHANGED <<phase, locals>>

EndArgument ==
  /\ Type(Space)
  /\ ~AtBoundary
  /\ storage'  = [storage EXCEPT ![character] = Nul]
  /\ argument' = argument + 1
  /\ Advance
  /\ UNCHANGED arguments

\* The character is consumed and lost.
TooManyArguments(c) ==
  /\ Type(c)
  /\ AtBoundary
  /\ argument = MaxArguments + 1
  /\ phase' = "idle"
  /\ UNCHANGED locals

StoreText(c) ==
  /\ Type(c)
  /\ AtBoundary => argument # MaxArguments + 1
  /\ arguments' = IF AtBoundary THEN [arguments EXCEPT ![argument] = character]
                  ELSE arguments
  /\ storage' = [storage EXCEPT ![character] = c]
  /\ Advance
  /\ UNCHANGED argument

\* An empty line goes no further.
ReceiveReturn ==
  /\ phase = "reading"
  /\ storage' = [storage EXCEPT ![character] = Nul]
  /\ IF \A k \in Slots : arguments[k] = Null
     THEN phase' = "idle" /\ typed' = <<>> /\ start' = 0
     ELSE phase' = "matching" /\ UNCHANGED <<typed, start>>
  /\ UNCHANGED <<command_handlers, character, arguments, argument, cursor,
                 handled>>

Conclude(outcome) ==
  /\ phase'   = "idle"
  /\ handled' = outcome
  /\ typed'   = <<>>
  /\ start'   = 0
  /\ UNCHANGED cursor

\* Mutant: the last handler of the array is not tried.
TryHandlerButLast ==
  /\ phase = "matching"
  /\ IF cursor >= MaxHandlers THEN Conclude("unknown")
     ELSE IF command_handlers[cursor] = NoHandler THEN Conclude("unknown")
     ELSE IF Passed[1] = command_handlers[cursor] THEN Conclude("accepted")
     ELSE cursor' = cursor + 1 /\ UNCHANGED <<phase, handled, typed, start>>
  /\ UNCHANGED <<command_handlers, locals>>

\* The loop over the handlers stops at the first that accepts the command, at
\* the first nullptr, or at the end of the array.
TryHandler ==
  /\ phase = "matching"
  /\ IF cursor > MaxHandlers THEN Conclude("unknown")
     ELSE IF command_handlers[cursor] = NoHandler THEN Conclude("unknown")
     ELSE IF Passed[1] = command_handlers[cursor] THEN Conclude("accepted")
     ELSE cursor' = cursor + 1 /\ UNCHANGED <<phase, handled, typed, start>>
  /\ UNCHANGED <<command_handlers, locals>>

Next ==
  \/ Initialize
  \/ Prompt
  \/ SkipSpace
  \/ EndArgument
  \/ \E c \in Text : TooManyArguments(c) \/ StoreText(c)
  \/ ReceiveReturn
  \/ TryHandler

Spec == Init /\ [][Next]_vars

-----------------------------------------------------------------------------
\* Every variable keeps its type; in particular character stays inside storage
\* or one past it, and argument inside arguments or one past it.
TypeOK ==
  /\ phase            \in {"boot", "idle", "reading", "matching"}
  /\ command_handlers \in [1 .. MaxHandlers -> Seq(Text) \cup {NoHandler}]
  /\ storage          \in [Cells -> Bytes]
  /\ character        \in 0 .. StorageSize
  /\ arguments        \in [Slots -> Cells \cup {Null}]
  /\ argument         \in 1 .. MaxArguments + 1
  /\ cursor           \in 1 .. MaxHandlers + 1
  /\ handled          \in {"nothing", "accepted", "unknown"}
  /\ typed            \in Seq(Text \cup {Space})
  /\ start            \in Nat

\* No access outside the buffers and no read of an indeterminate character:
\* whatever was typed, the reader may write at character, everything behind it
\* is initialised, and each argument a handler is given is a string that begins
\* with a character and ends with a '\0' before the end of storage.
ArgumentsWellFormed ==
  /\ phase = "reading" => character < StorageSize
  /\ \A p \in Cells : p < character => storage[p] # Garbage
  /\ phase = "matching" =>
       \A k \in Slots : arguments[k] # Null =>
         /\ storage[arguments[k]] \in Text
         /\ \E q \in Cells : q > arguments[k] /\ storage[q] = Nul
         /\ \A r \in Cells : arguments[k] <= r /\ r <= character => storage[r] # Garbage

\* The arguments are set from the first on, without a hole, so find_if's first
\* nullptr is the number of the arguments; a handler is never called without one.
ArgumentsContiguous ==
  /\ \A j, k \in Slots : j < k /\ arguments[k] # Null => arguments[j] # Null
  /\ phase = "matching" => arguments[1] # Null

-----------------------------------------------------------------------------
(* What was typed, read without a buffer.                                  *)

Starts(line) ==
  {i \in DOMAIN line : line[i] # Space /\ (i = 1 \/ line[i - 1] = Space)}

WordAt(line, i) ==
  LET last == CHOOSE j \in i .. Len(line) :
                /\ \A m \in i .. j : line[m] # Space
                /\ j = Len(line) \/ line[j + 1] = Space
  IN  SubSeq(line, i, last)

\* The word that begins at i is the Rank(line, i)-th.
Rank(line, i) == Cardinality({j \in Starts(line) : j <= i})

Words(line) ==
  LET begin(k) == CHOOSE i \in Starts(line) : Rank(line, i) = k
  IN  [k \in 1 .. Cardinality(Starts(line)) |-> WordAt(line, begin(k))]

\* The characters that need room: all but the spaces nothing precedes.
Kept(line) ==
  {i \in DOMAIN line : line[i] # Space \/ (i > 1 /\ line[i - 1] # Space)}

Fits(line) ==
  /\ Cardinality(Kept(line)) < StorageSize
  /\ Cardinality(Starts(line)) <= MaxArguments

Line == SubSeq(typed, start + 1, Len(typed))

\* The handlers see exactly the words typed since the prompt, in order, however
\* many spaces stand before, between and behind them.
ArgumentsAreTheWords == phase = "matching" => Passed = Words(Line)

\* A line is matched as a whole if and only if it fits the storage with its
\* terminator and has no word too many.  Of any other line some characters are
\* swallowed, and what follows them is read as a command of its own.
MatchesWholeLinesThatFit ==
  /\ phase = "matching" /\ start = 0 => Fits(typed)
  /\ start > 0 => ~Fits(SubSeq(typed, 1, start))

\* A command is unknown only if no handler of the table that was accepted at
\* start-up answers to it, and accepted only if one does.
UnknownMeansNoHandler ==
  handled # "nothing" =>
    (handled = "accepted" <=>
       \E k \in 1 .. MaxHandlers :
         command_handlers[k] # NoHandler /\ command_handlers[k] = Passed[1])
=============================================================================
