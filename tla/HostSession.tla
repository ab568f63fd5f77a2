---------------------------- MODULE HostSession ----------------------------
(***************************************************************************)
(* A script on a host that talks to a node's command line: process_input   *)
(* and write_command of src/python/common.py, and what the node writes to  *)
(* its UART, by cli.cpp, cli.hpp and the handlers of examples/cli.         *)
(*                                                                         *)
(* The script is assumed to take tokens until it gets a prompt, and then   *)
(* to write the next command.                                              *)
(*                                                                         *)
(* The node writes in chunks: each argument of write or write_line is one, *)
(* or several if it is longer than 32 bytes.  An interrupt handler that    *)
(* logs between two chunks gets its whole line in.  One that interrupts a  *)
(* chunk finds the UART busy, nobody looks at the result of                *)
(* nrfx_uarte_tx, and the line is lost: nothing happens.                   *)
(*                                                                         *)
(* What is written is a sequence of elements; of is the command an element *)
(* answers, or 0.                                                          *)
(***************************************************************************)
EXTENDS Naturals, Sequences

CONSTANTS
  MaxCommands,   \* bound on the commands of a session
  MaxLogs        \* bound on the lines logged by interrupt handlers

ASSUME SessionAssumption == MaxCommands \in Nat /\ MaxLogs \in Nat

VARIABLES
  output,     \* the chunks the node is about to write, a prompt being the last;
              \* when there are none it waits for a command
  wire,       \* the elements on their way to the host
  sent,       \* a command is on its way to the node
  host,       \* "waiting" in process_input, "ready", or in write_command ("echo")
  buffer,     \* process_input's
  commands,   \* number of commands written so far
  reply,      \* what the node answers to the last one
  results,    \* the results taken since it was written
  logs,       \* number of lines logged so far
  disturbed   \* history: one came between a result's first chunk and the prompt

sessionVars == <<output, wire, sent, host, buffer, commands, reply, results, logs, disturbed>>

LogLevels == {"ERROR:", "INFO:", "DEBUG:"}
Newlines  == {"\r\n", "\n\r"}
Replies   == {"nothing", "result", "error", "text"}

Part(kind, n) == [kind |-> kind, of |-> n]

\* Mutant: no blank behind it, so that the host's "#> " is not in it.
ShortPrompt == <<Part("#", 0), Part("#", 0)>>

\* "##> "
Prompt == <<Part("#", 0), Part("#>", 0)>>

WriteLine(level, n) == << <<Part(level, n)>>, <<Part("text", n)>>, <<Part("\r\n", n)>> >>

\* Mutant: write in the place of write_line.
AnswerUnended(what, n) ==
  CASE what = "result" -> << <<Part("Result:", n)>>, <<Part("value", n)>> >>
    [] what = "error"  -> WriteLine("ERROR:", n)
    [] what = "text"   -> << <<Part("text", n)>>, <<Part("text", n)>>, <<Part("\r\n", n)>> >>
    [] OTHER           -> <<>>

\* A handler writes a result, an error or some text; a command nobody answers to is
\* an error.  The script's commands have a word and fit the buffers.
Answer(what, n) ==
  CASE what = "result" -> << <<Part("Result:", n)>>, <<Part("value", n)>>, <<Part("\r\n", n)>> >>
    [] what = "error"  -> WriteLine("ERROR:", n)
    [] what = "text"   -> << <<Part("text", n)>>, <<Part("text", n)>>, <<Part("\r\n", n)>> >>
    [] OTHER           -> <<>>

-----------------------------------------------------------------------------
\* main logs lines, here one, and schedules the first prompt.
SessionInit ==
  /\ output    = WriteLine("INFO:", 0) \o <<Prompt>>
  /\ wire      = <<>>
  /\ sent      = FALSE
  /\ host      = "waiting"
  /\ buffer    = <<>>
  /\ commands  = 0
  /\ reply     = "nothing"
  /\ results   = {}
  /\ logs      = 0
  /\ disturbed = FALSE

(* The node.                                                               *)

WriteChunk ==
  /\ output # <<>>
  /\ wire'   = wire \o Head(output)
  /\ output' = Tail(output)
  /\ UNCHANGED <<sent, host, buffer, commands, reply, results, logs, disturbed>>

\* The characters are echoed one by one, a Return as "\n\r".
ReceiveCommand ==
  /\ output = <<>>
  /\ sent
  /\ sent' = FALSE
  /\ \E what \in Replies :
       /\ reply'  = what
       /\ output' = << <<Part("echo", commands)>>, <<Part("echo", commands)>>,
                       <<Part("\n\r", commands)>> >> \o Answer(what, commands) \o <<Prompt>>
  /\ disturbed' = FALSE
  /\ UNCHANGED <<wire, host, buffer, commands, results, logs>>

\* The first chunk of a result has been written, the prompt behind it has not.
InResult == reply = "result" /\ Len(output) \in 1 .. 3

\* ERROR_LOG in an interrupt handler.
Log ==
  /\ logs < MaxLogs
  /\ logs' = logs + 1
  /\ wire' = wire \o <<Part("ERROR:", 0), Part("text", 0), Part("\r\n", 0)>>
  /\ disturbed' = (disturbed \/ InResult)
  /\ UNCHANGED <<output, sent, host, buffer, commands, reply, results>>

-----------------------------------------------------------------------------
(* The host.                                                               *)

Kind(b, i) == b[i].kind

\* Result:(?P<content>[\s\S]+)\r\n#
IsResult(b) ==
  /\ Len(b) > 2
  /\ Kind(b, Len(b)) = "#" /\ Kind(b, Len(b) - 1) = "\r\n"
  /\ \E i \in 1 .. Len(b) - 2 : Kind(b, i) = "Result:"

Content(b) == {b[i].of : i \in {j \in DOMAIN b : Kind(b, j) = "value"}}

\* Mutant: the pattern is "#".
IsHash(b) == b # <<>> /\ Kind(b, Len(b)) = "#"

\* #> and a space
IsPrompt(b) == b # <<>> /\ Kind(b, Len(b)) = "#>"

\* (ERROR|INFO|DEBUG): (?P<content>.+)\r\n, where .+ crosses no line
IsLog(b) ==
  /\ Len(b) > 2
  /\ Kind(b, Len(b)) = "\r\n"
  /\ \E i \in 1 .. Len(b) - 2 :
       /\ Kind(b, i) \in LogLevels
       /\ \A j \in i .. Len(b) - 1 : Kind(b, j) \notin Newlines

\* Mutant: the text in front of a match is kept for the next one.
ProcessKeeping ==
  /\ host = "waiting"
  /\ wire # <<>>
  /\ wire' = Tail(wire)
  /\ LET b == Append(buffer, Head(wire))
     IN  /\ buffer'  = b
         /\ results' = IF IsResult(b) THEN results \cup {Content(b)} ELSE results
         /\ host'    = IF ~IsResult(b) /\ IsPrompt(b) THEN "ready" ELSE "waiting"
  /\ UNCHANGED <<output, sent, commands, reply, logs, disturbed>>

\* One more character, and the patterns tried in their order; a match ends the
\* call, and the text in front of it is gone with the buffer.
ProcessInput ==
  /\ host = "waiting"
  /\ wire # <<>>
  /\ wire' = Tail(wire)
  /\ LET b == Append(buffer, Head(wire))
     IN  /\ buffer'  = IF IsResult(b) \/ IsPrompt(b) \/ IsLog(b) THEN <<>> ELSE b
         /\ results' = IF IsResult(b) THEN results \cup {Content(b)} ELSE results
         /\ host'    = IF ~IsResult(b) /\ IsPrompt(b) THEN "ready" ELSE "waiting"
  /\ UNCHANGED <<output, sent, commands, reply, logs, disturbed>>

WriteCommand ==
  /\ host = "ready"
  /\ commands < MaxCommands
  /\ commands' = commands + 1
  /\ sent'     = TRUE
  /\ host'     = "echo"
  /\ results'  = {}
  /\ UNCHANGED <<output, wire, buffer, reply, logs, disturbed>>

\* uart.readline() reads to the first newline, whoever has written it.
ReadEcho ==
  /\ host = "echo"
  /\ wire # <<>>
  /\ wire' = Tail(wire)
  /\ host' = IF Head(wire).kind \in Newlines THEN "waiting" ELSE "echo"
  /\ UNCHANGED <<output, sent, buffer, commands, reply, results, logs, disturbed>>

SessionNext ==
  \/ WriteChunk
  \/ ReceiveCommand
  \/ Log
  \/ ProcessInput
  \/ WriteCommand
  \/ ReadEcho

SessionSpec == SessionInit /\ [][SessionNext]_sessionVars

\* The node and the host run, the script need not go on.
SessionFairSpec ==
  /\ SessionSpec
  /\ WF_sessionVars(WriteChunk) /\ WF_sessionVars(ReceiveCommand)
  /\ WF_sessionVars(ProcessInput) /\ WF_sessionVars(ReadEcho)

-----------------------------------------------------------------------------
\* When the script writes a command, the node waits for one, and nothing is on its
\* way to the host but what interrupt handlers have logged.
TurnsAlternate ==
  host = "ready" =>
    /\ output = <<>> /\ ~sent
    /\ \A i \in DOMAIN wire : wire[i].kind \in {"ERROR:", "text", "\r\n"} /\ wire[i].of = 0

\* A result the host takes is that of the command it has written last, whole and
\* without anything of another, whatever is logged in between.
ResultOfItsCommand == results \subseteq {{commands}}

\* If the node has answered with a result, the host has got it by the time it gets
\* the prompt, unless a handler has logged a line between the first chunk of the
\* result and the prompt: then process_input drops the result with the line.
ResultLostOnlyToALog ==
  host = "ready" /\ reply = "result" => results # {} \/ disturbed

\* Whatever is logged, the script gets a prompt behind every command.
PromptComesBack == host # "ready" ~> host = "ready"
=============================================================================
