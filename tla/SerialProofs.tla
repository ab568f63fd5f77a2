---------------------------- MODULE SerialProofs ----------------------------
(***************************************************************************)
(* Proofs about what is written to the serial port: about Console, for     *)
(* every buffer, number of levels and lengths, and about HostSession, for  *)
(* every number of commands and of logged lines.                           *)
(***************************************************************************)
EXTENDS Console, HostSession, SequenceTheorems, TLAPS

-----------------------------------------------------------------------------
(* The console.                                                            *)

\* Somebody below c polls for the end of a chunk.
BusyBelow(c) == \E d \in Levels : d < c /\ at[d] = "polling"

\* At most one level polls, and when the transmitter runs one does.
OnePolls ==
  /\ \A c, d \in Levels : at[c] = "polling" /\ at[d] = "polling" => c = d
  /\ uart => \E c \in Levels : at[c] = "polling"

\* Whether a line can be written is settled when it begins: whoever is below
\* does not move before it has ended.
CutInv == \A c \in Levels : at[c] # "idle" => (cut[c] <=> BusyBelow(c))

\* What is on the wire of a line that is not cut: everything up to the place the
\* iterators have reached.
Place(c)   == IF at[c] = "polling" /\ ~uart THEN end[c] ELSE begin[c]
Reached(c) == IF at[c] = "line" THEN due[c] ELSE due[c] - size[c] + Place(c)

Accounts ==
  \A c \in Levels : at[c] # "idle" => arrived[c] = IF cut[c] THEN 0 ELSE Reached(c)

ConsoleInv == TypeOK /\ ChunksFit /\ OnePolls /\ CutInv /\ Accounts

-----------------------------------------------------------------------------
\* The end of a chunk that begins within a text is within the text and one
\* buffer away at most; it is behind the beginning unless the text is over.
LEMMA EndFits ==
  ASSUME NEW n \in Nat, NEW from \in Nat, from <= n
  PROVE  /\ End(from, n) \in Nat
         /\ End(from, n) <= n /\ End(from, n) <= from + BufferSize
         /\ from < n => from < End(from, n)
BY BufferAssumption DEF End

LEMMA ConsoleInit == Init => ConsoleInv
<1> SUFFICES ASSUME Init PROVE ConsoleInv
  OBVIOUS
<1>1. 0 \in 0 .. MaxArguments
  BY LengthAssumption
<1>2. TypeOK
  BY <1>1 DEF Init, TypeOK, Places
<1>3. ChunksFit /\ OnePolls /\ CutInv /\ Accounts
  BY DEF Init, ChunksFit, OnePolls, CutInv, Accounts
<1> QED
  BY <1>2, <1>3 DEF ConsoleInv

\* Nobody below c polls when c is busy itself.
LEMMA PollsAlone ==
  ASSUME ConsoleInv, NEW c \in Levels, at[c] = "polling"
  PROVE  ~cut[c]
<1>1. ~BusyBelow(c)
  BY LevelAssumption DEF ConsoleInv, OnePolls, BusyBelow, Levels
<1> QED
  BY <1>1 DEF ConsoleInv, CutInv

\* While c runs, somebody polls exactly if c does or somebody below it.
LEMMA BusyWhenRunning ==
  ASSUME ConsoleInv, NEW c \in Levels, Runs(c), at[c] # "polling"
  PROVE  Busy <=> BusyBelow(c)
BY LevelAssumption DEF Busy, BusyBelow, Runs, Levels

-----------------------------------------------------------------------------
LEMMA BeginLineStep ==
  ASSUME ConsoleInv, NEW c \in Levels, BeginLine(c) PROVE ConsoleInv'
<1> USE DEF BeginLine, ConsoleInv
<1>0. 0 \in 0 .. MaxArguments
  BY LengthAssumption
<1>1. TypeOK'
  BY <1>0 DEF TypeOK, Places, Busy
<1>2. ChunksFit' /\ OnePolls'
  BY DEF TypeOK, ChunksFit, OnePolls
<1>3. CutInv'
  <2>1. ASSUME NEW d \in Levels PROVE BusyBelow(d)' <=> BusyBelow(d)
    BY DEF TypeOK, BusyBelow
  <2> QED
    BY <2>1, BusyWhenRunning DEF TypeOK, CutInv
<1>4. Accounts'
  BY DEF TypeOK, Accounts, Reached, Place
<1> QED
  BY <1>1, <1>2, <1>3, <1>4

LEMMA WriteArgumentStep ==
  ASSUME ConsoleInv, NEW c \in Levels, NEW n \in Lengths, WriteArgument(c, n)
  PROVE  ConsoleInv'
<1> USE DEF WriteArgument, ConsoleInv
<1>0. n \in Nat
  BY LengthAssumption
<1>1. /\ End(0, n) \in Nat /\ End(0, n) <= n /\ End(0, n) <= BufferSize
      /\ n # 0 => 0 < End(0, n)
  BY <1>0, EndFits, BufferAssumption
<1>2. TypeOK'
  BY <1>0, <1>1, LengthAssumption DEF TypeOK, Places
<1>3. ChunksFit' /\ OnePolls'
  BY <1>0, <1>1, BufferAssumption DEF TypeOK, ChunksFit, OnePolls
<1>4. CutInv'
  <2>1. ASSUME NEW d \in Levels PROVE BusyBelow(d)' <=> BusyBelow(d)
    BY DEF TypeOK, BusyBelow
  <2> QED
    BY <2>1 DEF TypeOK, CutInv
<1>5. Accounts'
  <2>1. ASSUME NEW d \in Levels, d # c, at[d] # "idle"
        PROVE  arrived'[d] = IF cut'[d] THEN 0 ELSE Reached(d)'
    BY <2>1 DEF TypeOK, Accounts, Reached, Place
  <2>2. arrived'[c] = IF cut'[c] THEN 0 ELSE Reached(c)'
    BY <1>0 DEF TypeOK, Accounts, Reached, Place
  <2> QED
    BY <2>1, <2>2 DEF TypeOK, Accounts
<1> QED
  BY <1>2, <1>3, <1>4, <1>5

LEMMA StartChunkStep ==
  ASSUME ConsoleInv, NEW c \in Levels, StartChunk(c) PROVE ConsoleInv'
<1> USE DEF StartChunk, ConsoleInv
<1>0. begin[c] < end[c] /\ end[c] <= begin[c] + BufferSize /\ end[c] <= size[c]
  BY DEF ChunksFit
<1>1. Busy <=> cut[c]
  BY BusyWhenRunning DEF CutInv
<1>2. CASE Busy
  <2> USE DEF Advance
  <2>0. size[c] \in Nat /\ end[c] \in Nat /\ end[c] <= size[c]
    BY <1>0 DEF TypeOK
  <2>1. /\ End(end[c], size[c]) \in Nat
        /\ End(end[c], size[c]) <= size[c]
        /\ End(end[c], size[c]) <= end[c] + BufferSize
        /\ end[c] # size[c] => end[c] < End(end[c], size[c])
    <3> HIDE DEF StartChunk, ConsoleInv, Advance
    <3>1. end[c] # size[c] => end[c] < size[c]
      BY <2>0
    <3> QED
      BY <2>0, <3>1, EndFits
  <2>2. TypeOK'
    <3>1. UNCHANGED <<arguments, size, due, arrived, cut, uart>>
      BY <1>2
    <3>2. at' \in [Levels -> Places] /\ begin' \in [Levels -> Nat] /\ end' \in [Levels -> Nat]
      BY <1>2, <2>1 DEF TypeOK, Places
    <3> QED
      BY <3>1, <3>2 DEF TypeOK
  <2>3. ChunksFit' /\ OnePolls'
    BY <1>2, <2>1 DEF TypeOK, ChunksFit, OnePolls
  <2>4. CutInv'
    <3>1. ASSUME NEW d \in Levels PROVE BusyBelow(d)' <=> BusyBelow(d)
      BY <1>2 DEF TypeOK, BusyBelow
    <3> QED
      BY <1>2, <3>1 DEF TypeOK, CutInv
  <2>5. Accounts'
    <3>1. ASSUME NEW d \in Levels, d # c, at[d] # "idle"
          PROVE  arrived'[d] = IF cut'[d] THEN 0 ELSE Reached(d)'
      BY <1>2, <3>1 DEF TypeOK, Accounts, Reached, Place
    <3>2. cut[c] /\ arrived[c] = 0
      BY <1>1, <1>2 DEF Accounts
    <3> QED
      BY <1>2, <3>1, <3>2 DEF TypeOK, Accounts
  <2> QED
    BY <2>2, <2>3, <2>4, <2>5
<1>3. CASE ~Busy
  <2>1. at' = [at EXCEPT ![c] = "polling"] /\ uart' = TRUE /\ UNCHANGED <<begin, end>>
    BY <1>3
  <2>2. ~uart
    BY <1>3 DEF Busy, OnePolls
  <2>3. TypeOK' /\ ChunksFit' /\ OnePolls'
    BY <1>3, <2>1 DEF TypeOK, Places, ChunksFit, OnePolls, Busy
  <2>4. CutInv'
    <3>1. ASSUME NEW d \in Levels, at[d] # "idle" PROVE BusyBelow(d)' <=> BusyBelow(d)
      <4>1. d <= c
        BY <3>1, LevelAssumption DEF Runs, Levels
      <4> QED
        BY <2>1, <4>1, LevelAssumption DEF TypeOK, BusyBelow, Levels
    <3> QED
      BY <2>1, <3>1 DEF TypeOK, CutInv
  <2>5. Accounts'
    <3>1. ASSUME NEW d \in Levels, d # c, at[d] # "idle"
          PROVE  arrived'[d] = IF cut'[d] THEN 0 ELSE Reached(d)'
      <4>1. at[d] # "polling"
        BY <1>3 DEF Busy
      <4> QED
        BY <2>1, <3>1, <4>1 DEF TypeOK, Accounts, Reached, Place
    <3>2. arrived'[c] = IF cut'[c] THEN 0 ELSE Reached(c)'
      BY <2>1 DEF TypeOK, Accounts, Reached, Place
    <3> QED
      BY <2>1, <3>1, <3>2 DEF TypeOK, Accounts
  <2> QED
    BY <2>3, <2>4, <2>5
<1> QED
  BY <1>2, <1>3

LEMMA TransmittedStep == ASSUME ConsoleInv, Transmitted PROVE ConsoleInv'
<1> USE DEF ConsoleInv
<1>1. PICK c \in Levels :
        at[c] = "polling" /\ arrived' = [arrived EXCEPT ![c] = @ + (end[c] - begin[c])]
  BY DEF Transmitted
<1>2. /\ uart /\ uart' = FALSE
      /\ UNCHANGED <<at, arguments, size, begin, end, due, cut>>
  BY DEF Transmitted
<1>3. begin[c] < end[c]
  BY <1>1 DEF ChunksFit
<1>a. end[c] - begin[c] \in Nat
  BY <1>3 DEF TypeOK
<1>b. TypeOK'
  <2>1. arrived[c] + (end[c] - begin[c]) \in Nat
    BY <1>a DEF TypeOK
  <2>2. arrived' \in [Levels -> Nat]
    BY <1>1, <2>1 DEF TypeOK
  <2> QED
    BY <1>2, <2>2 DEF TypeOK
<1>4. TypeOK' /\ ChunksFit' /\ OnePolls'
  BY <1>1, <1>2, <1>b DEF ChunksFit, OnePolls
<1>5. CutInv'
  BY <1>2 DEF CutInv, BusyBelow
<1>6. Accounts'
  <2>1. ASSUME NEW d \in Levels, d # c, at[d] # "idle"
        PROVE  arrived'[d] = IF cut'[d] THEN 0 ELSE Reached(d)'
    <3>1. at[d] # "polling"
      BY <1>1, <2>1 DEF OnePolls
    <3> QED
      BY <1>1, <1>2, <2>1, <3>1 DEF TypeOK, Accounts, Reached, Place
  <2>2. arrived'[c] = IF cut'[c] THEN 0 ELSE Reached(c)'
    <3>1. ~cut[c]
      BY <1>1, PollsAlone
    <3>2. arrived[c] = due[c] - size[c] + begin[c]
      BY <1>1, <1>2, <3>1 DEF Accounts, Reached, Place
    <3>3. Reached(c)' = due[c] - size[c] + end[c]
      BY <1>1, <1>2 DEF Reached, Place
    <3> QED
      BY <1>1, <1>2, <3>1, <3>2, <3>3 DEF TypeOK
  <2> QED
    BY <1>2, <2>1, <2>2 DEF Accounts
<1> QED
  BY <1>4, <1>5, <1>6

LEMMA FinishChunkStep ==
  ASSUME ConsoleInv, NEW c \in Levels, FinishChunk(c) PROVE ConsoleInv'
<1> USE DEF FinishChunk, Advance, ConsoleInv
<1>0. begin[c] < end[c] /\ end[c] <= size[c]
  BY DEF ChunksFit
<1>a. size[c] \in Nat /\ end[c] \in Nat /\ end[c] <= size[c]
  BY <1>0 DEF TypeOK
<1>1. /\ End(end[c], size[c]) \in Nat
      /\ End(end[c], size[c]) <= size[c]
      /\ End(end[c], size[c]) <= end[c] + BufferSize
      /\ end[c] # size[c] => end[c] < End(end[c], size[c])
  BY <1>a, EndFits
<1>2. TypeOK'
  BY <1>1 DEF TypeOK, Places
<1>3. ChunksFit' /\ OnePolls'
  BY <1>1 DEF TypeOK, ChunksFit, OnePolls
<1>4. CutInv'
  <2>1. ASSUME NEW d \in Levels, at[d] # "idle" PROVE BusyBelow(d)' <=> BusyBelow(d)
    <3>1. d <= c
      BY <2>1, LevelAssumption DEF Runs, Levels
    <3> QED
      BY <3>1, LevelAssumption DEF TypeOK, BusyBelow, Levels
  <2> QED
    BY <2>1 DEF TypeOK, CutInv
<1>5. Accounts'
  <2>1. ASSUME NEW d \in Levels, d # c, at[d] # "idle"
        PROVE  arrived'[d] = IF cut'[d] THEN 0 ELSE Reached(d)'
    BY <2>1 DEF TypeOK, Accounts, Reached, Place
  <2>2. arrived'[c] = IF cut'[c] THEN 0 ELSE Reached(c)'
    <3>1. ~cut[c]
      BY PollsAlone
    <3>2. arrived[c] = due[c] - size[c] + end[c]
      BY <3>1 DEF Accounts, Reached, Place
    <3> QED
      BY <3>1, <3>2 DEF TypeOK, Reached, Place
  <2> QED
    BY <2>1, <2>2 DEF TypeOK, Accounts
<1> QED
  BY <1>2, <1>3, <1>4, <1>5

LEMMA EndLineStep ==
  ASSUME ConsoleInv, NEW c \in Levels, EndLine(c) PROVE ConsoleInv'
<1> USE DEF EndLine, ConsoleInv
<1>1. TypeOK' /\ ChunksFit' /\ OnePolls'
  BY DEF TypeOK, Places, ChunksFit, OnePolls
<1>2. CutInv'
  <2>1. ASSUME NEW d \in Levels PROVE BusyBelow(d)' <=> BusyBelow(d)
    BY DEF TypeOK, BusyBelow
  <2> QED
    BY <2>1 DEF TypeOK, CutInv
<1>3. Accounts'
  BY DEF TypeOK, Accounts, Reached, Place
<1> QED
  BY <1>1, <1>2, <1>3

\* The invariant holds in every behaviour.
THEOREM ConsoleInvariant == Spec => []ConsoleInv
<1>1. ConsoleInv /\ [Next]_vars => ConsoleInv'
  <2> SUFFICES ASSUME ConsoleInv, [Next]_vars PROVE ConsoleInv'
    OBVIOUS
  <2>1. CASE UNCHANGED vars
    BY <2>1 DEF vars, ConsoleInv, TypeOK, ChunksFit, OnePolls, CutInv, BusyBelow, Accounts, Reached, Place
  <2> QED
    BY <2>1, BeginLineStep, WriteArgumentStep, StartChunkStep, TransmittedStep,
      FinishChunkStep, EndLineStep DEF Next, Step
<1> QED
  BY ConsoleInit, <1>1, PTL DEF Spec

-----------------------------------------------------------------------------
\* Every variable keeps its type, for any buffer size, levels and lengths.
THEOREM ConsoleTypes == Spec => []TypeOK
<1>1. ConsoleInv => TypeOK
  BY DEF ConsoleInv
<1> QED
  BY <1>1, ConsoleInvariant, PTL

\* No chunk is empty, reaches beyond its text or overflows the buffer it is copied to.
THEOREM EveryChunkFits == Spec => []ChunksFit
<1>1. ConsoleInv => ChunksFit
  BY DEF ConsoleInv
<1> QED
  BY <1>1, ConsoleInvariant, PTL

\* The line of a handler is on the wire as a whole or not at all, however many
\* priorities interrupt each other.
THEOREM WholeOrLost == Spec => []LinesAreWholeOrLost
<1>1. ConsoleInv => LinesAreWholeOrLost
  BY DEF ConsoleInv, Accounts, Reached, Place, LinesAreWholeOrLost
<1> QED
  BY <1>1, ConsoleInvariant, PTL

\* The foreground's lines are complete.
THEOREM ForegroundIsComplete == Spec => []ForegroundLosesNothing
<1>1. ConsoleInv => ForegroundLosesNothing
  <2> SUFFICES ASSUME ConsoleInv, at[Main] = "line" PROVE arrived[Main] = due[Main]
    BY DEF ForegroundLosesNothing
  <2>1. Main \in Levels /\ ~BusyBelow(Main)
    BY LevelAssumption DEF Main, Levels, BusyBelow
  <2> QED
    BY <2>1 DEF ConsoleInv, CutInv, Accounts, Reached, Place
<1> QED
  BY <1>1, ConsoleInvariant, PTL

-----------------------------------------------------------------------------
(* The session.                                                            *)

Kinds == LogLevels \cup Newlines \cup {"#", "#>", "text", "Result:", "value", "echo"}
Parts == [kind : Kinds, of : Nat]

\* What the host has read since its last match and what it is going to read.
Stream == buffer \o wire

SessionTypes ==
  /\ output    \in Seq(Seq(Parts))
  /\ wire      \in Seq(Parts)
  /\ sent      \in BOOLEAN
  /\ host      \in {"waiting", "ready", "echo"}
  /\ buffer    \in Seq(Parts)
  /\ commands  \in Nat
  /\ reply     \in Replies
  /\ disturbed \in BOOLEAN
  /\ commands = 0 => reply = "nothing" /\ ~sent /\ host # "echo"
  /\ host # "waiting" => buffer = <<>>

\* The lines of an answer, in chunks.
AnswerLength == IF commands > 0 /\ reply = "nothing" THEN 0 ELSE 3

\* The last chunk but k - 1 that is written for a command.
KindFromEnd(k) ==
  IF k > AnswerLength + 2 THEN "echo"
  ELSE IF k = AnswerLength + 2 THEN "\n\r"
  ELSE IF k = 2 THEN "\r\n"
  ELSE IF reply = "result" THEN IF k = 3 THEN "value" ELSE "Result:"
  ELSE IF k = 3 THEN "text"
  ELSE IF commands = 0 THEN "INFO:"
  ELSE IF reply = "error" THEN "ERROR:" ELSE "text"

ChunkFromEnd(k) == IF k = 1 THEN Prompt ELSE <<Part(KindFromEnd(k), commands)>>

\* What is still to be written is the end of it.
EndOfAnswer ==
  /\ Len(output) <= AnswerLength + 4
  /\ \A i \in 1 .. Len(output) : output[i] = ChunkFromEnd(Len(output) - i + 1)

LogParts == {Part("ERROR:", 0), Part("text", 0), Part("\r\n", 0)}

\* While a command is expected there are only logged lines.
Quiet ==
  host = "ready" \/ sent =>
    /\ output = <<>>
    /\ \A i \in 1 .. Len(Stream) : Stream[i] \in LogParts
    /\ ~(host = "ready" /\ sent)

\* Until then a single prompt is on its way, and it is the last thing the node writes.
PromptAt(p) ==
  /\ p > Len(buffer)
  /\ Kind(Stream, p) = "#>"
  /\ \A i \in 1 .. p - 1 : Kind(Stream, i) # "#>"
  /\ \A i \in p + 1 .. Len(Stream) : Stream[i] \in LogParts

OnePrompt ==
  ~sent /\ host # "ready" =>
    IF output # <<>> THEN \A i \in 1 .. Len(Stream) : Kind(Stream, i) \notin {"#", "#>"}
                     ELSE \E p \in 1 .. Len(Stream) : PromptAt(p)

\* The end of the echo is in front of the answer.
EchoEnds ==
  host = "echo" /\ ~sent =>
    \/ Len(output) >= AnswerLength + 2
    \/ \E i \in 1 .. Len(Stream) :
         /\ Kind(Stream, i) = "\n\r"
         /\ \A j \in 1 .. i : Kind(Stream, j) \notin {"Result:", "#", "#>"}

\* Values are those of the last command, and a value follows each result before any
\* prompt does.
Values ==
  \A i \in 1 .. Len(Stream) : Kind(Stream, i) = "value" => Stream[i].of = commands

ValueFollows ==
  \A i \in 1 .. Len(Stream) : Kind(Stream, i) = "Result:" =>
    /\ reply = "result" /\ ~sent
    /\ \/ Len(output) = 3
       \/ /\ Len(output) < 3
          /\ \E j \in i + 1 .. Len(Stream) :
               Kind(Stream, j) = "value" /\ \A k \in 1 .. j : Kind(Stream, k) # "#"

\* What a handler logs stays together, and only it logs while a result is written.
Logged(e) == e.kind = "ERROR:" /\ e.of = 0

LogsAreWhole ==
  \A i \in 1 .. Len(Stream) : Logged(Stream[i]) =>
    i + 2 <= Len(Stream) /\ Kind(Stream, i + 1) = "text" /\ Kind(Stream, i + 2) = "\r\n"

OnlyHandlersLog ==
  reply = "result" =>
    \A i \in 1 .. Len(Stream) : Kind(Stream, i) \in LogLevels => Logged(Stream[i])

\* A result nobody has disturbed or taken is still there, in one piece.
UnbrokenAt(r) ==
  LET n == Len(output)
  IN  /\ Len(buffer) < r + 3
      /\ Kind(Stream, r) = "Result:"
      /\ n > 0 => Len(Stream) = r + 3 - n
      /\ n < 3 => Len(Stream) >= r + 1 /\ Kind(Stream, r + 1) = "value"
      /\ n < 2 => Len(Stream) >= r + 2 /\ Kind(Stream, r + 2) = "\r\n"
      /\ n < 1 => Len(Stream) >= r + 4 /\ Kind(Stream, r + 3) = "#" /\ Kind(Stream, r + 4) = "#>"

Unbroken ==
  reply = "result" /\ ~sent /\ ~disturbed /\ results = {} /\ host # "ready" /\ Len(output) < 4 =>
    \E r \in 1 .. Len(Stream) : UnbrokenAt(r)

SessionInv ==
  /\ SessionTypes /\ EndOfAnswer /\ Quiet /\ OnePrompt /\ EchoEnds
  /\ Values /\ ValueFollows /\ LogsAreWhole /\ OnlyHandlersLog /\ Unbroken
  /\ ResultOfItsCommand /\ ResultLostOnlyToALog

-----------------------------------------------------------------------------
LEMMA PartIsAPart ==
  ASSUME NEW kind \in Kinds, NEW n \in Nat
  PROVE  /\ Part(kind, n) \in Parts
         /\ Part(kind, n).kind = kind /\ Part(kind, n).of = n
BY DEF Part, Parts

LEMMA LogPartKinds ==
  \A e \in LogParts : e \in Parts /\ e.kind \in {"ERROR:", "text", "\r\n"} /\ e.of = 0
<1>1. {"ERROR:", "text", "\r\n"} \subseteq Kinds
  BY DEF Kinds, LogLevels, Newlines
<1>2. \A kind \in {"ERROR:", "text", "\r\n"} :
        Part(kind, 0) \in Parts /\ Part(kind, 0).kind = kind /\ Part(kind, 0).of = 0
  BY <1>1, PartIsAPart
<1> QED
  BY <1>2 DEF LogParts

LEMMA LogPartFields ==
  /\ Part("ERROR:", 0).kind = "ERROR:" /\ Part("text", 0).kind = "text"
  /\ Part("\r\n", 0).kind = "\r\n" /\ Part("ERROR:", 0).of = 0
BY DEF Part

LEMMA TuplesAreSequences ==
  \A S : \A a, b, c \in S :
    /\ <<a>> \in Seq(S) /\ Len(<<a>>) = 1 /\ <<a>>[1] = a
    /\ <<a, b>> \in Seq(S) /\ Len(<<a, b>>) = 2 /\ <<a, b>>[1] = a /\ <<a, b>>[2] = b
    /\ <<a, b, c>> \in Seq(S) /\ Len(<<a, b, c>>) = 3
    /\ <<a, b, c>>[1] = a /\ <<a, b, c>>[2] = b /\ <<a, b, c>>[3] = c
OBVIOUS

LEMMA StreamType ==
  ASSUME SessionTypes
  PROVE  /\ Stream \in Seq(Parts)
         /\ \E n \in Nat : n = Len(Stream)
         /\ \E n \in Nat : n = Len(buffer)
         /\ \E n \in Nat : n = Len(wire)
         /\ \E n \in Nat : n = Len(output)
         /\ Len(Stream) = Len(buffer) + Len(wire)
         /\ \A i \in 1 .. Len(Stream) :
              /\ Stream[i] \in Parts
              /\ Stream[i] = IF i <= Len(buffer) THEN buffer[i] ELSE wire[i - Len(buffer)]
<1>1. /\ buffer \in Seq(Parts) /\ wire \in Seq(Parts) /\ output \in Seq(Seq(Parts))
  BY DEF SessionTypes
<1>2. /\ Len(buffer) \in Nat /\ Len(wire) \in Nat /\ Len(output) \in Nat
      /\ \E n \in Nat : n = Len(buffer)
      /\ \E n \in Nat : n = Len(wire)
      /\ \E n \in Nat : n = Len(output)
  BY <1>1, LenProperties
<1>3. /\ Stream \in Seq(Parts) /\ Len(Stream) = Len(buffer) + Len(wire)
      /\ \A i \in 1 .. Len(buffer) + Len(wire) :
           Stream[i] = IF i <= Len(buffer) THEN buffer[i] ELSE wire[i - Len(buffer)]
  BY <1>1, ConcatProperties DEF Stream
<1>4. \A i \in 1 .. Len(Stream) : Stream[i] \in Parts
  BY <1>3, ElementOfSeq
<1>5. \E n \in Nat : n = Len(Stream)
  BY <1>3, LenProperties
<1> QED
  BY <1>2, <1>3, <1>4, <1>5

\* What is put on the wire goes to the end of the stream.
LEMMA Sending ==
  ASSUME SessionTypes, NEW s \in Seq(Parts), wire' = wire \o s, UNCHANGED buffer
  PROVE  /\ wire' \in Seq(Parts) /\ Stream' \in Seq(Parts)
         /\ Len(Stream') = Len(Stream) + Len(s)
         /\ \A i \in 1 .. Len(Stream) : Stream'[i] = Stream[i]
         /\ \A i \in Len(Stream) + 1 .. Len(Stream') : Stream'[i] = s[i - Len(Stream)]
<1>1. buffer \in Seq(Parts) /\ wire \in Seq(Parts)
  BY DEF SessionTypes
<1>2. Stream \in Seq(Parts)
  BY StreamType
<1>3. wire' \in Seq(Parts)
  BY <1>1, ConcatProperties
<1>4. Stream' = Stream \o s
  BY <1>1, ConcatAssociative DEF Stream
<1>5. (\E n \in Nat : n = Len(s)) /\ (\E n \in Nat : n = Len(Stream))
  BY <1>2, LenProperties
<1>6. /\ Stream \o s \in Seq(Parts) /\ Len(Stream \o s) = Len(Stream) + Len(s)
      /\ \A i \in 1 .. Len(Stream) + Len(s) :
           (Stream \o s)[i] = IF i <= Len(Stream) THEN Stream[i] ELSE s[i - Len(Stream)]
  BY <1>2, ConcatProperties
<1> QED
  <2>1. \A i \in 1 .. Len(Stream) : i \in 1 .. Len(Stream) + Len(s)
    BY <1>5
  <2>2. \A i \in Len(Stream) + 1 .. Len(Stream) + Len(s) :
          i \in 1 .. Len(Stream) + Len(s) /\ ~(i <= Len(Stream))
    BY <1>5
  <2> QED
    BY <1>3, <1>4, <1>6, <2>1, <2>2

\* What the host takes moves from the wire into the buffer, and is dropped with it.
LEMMA Taking ==
  ASSUME SessionTypes, wire # <<>>, wire' = Tail(wire)
  PROVE  LET b == Append(buffer, Head(wire))
         IN  /\ wire' \in Seq(Parts) /\ b \in Seq(Parts)
             /\ Len(b) = Len(buffer) + 1 /\ Len(b) \in 1 .. Len(Stream)
             /\ \A i \in 1 .. Len(b) : b[i] = Stream[i]
             /\ buffer' = b => Stream' = Stream
             /\ buffer' = <<>> =>
                  /\ Stream' \in Seq(Parts) /\ Len(Stream') = Len(Stream) - Len(b)
                  /\ \A i \in 1 .. Len(Stream') : Stream'[i] = Stream[i + Len(b)]
<1> DEFINE b == Append(buffer, Head(wire))
<1>1. /\ buffer \in Seq(Parts) /\ wire \in Seq(Parts)
  BY DEF SessionTypes
<1>2. (\E n \in Nat : n = Len(buffer)) /\ Len(wire) \in Nat \ {0}
  BY <1>1, EmptySeq, LenProperties
<1>3. /\ Head(wire) = wire[1] /\ Head(wire) \in Parts /\ Tail(wire) \in Seq(Parts)
      /\ Len(Tail(wire)) = Len(wire) - 1
      /\ \A i \in 1 .. Len(Tail(wire)) : Tail(wire)[i] = wire[i + 1]
  BY <1>1, HeadTailProperties
<1>4. /\ b \in Seq(Parts) /\ Len(b) = Len(buffer) + 1
      /\ \A i \in 1 .. Len(buffer) : b[i] = buffer[i]
      /\ b[Len(buffer) + 1] = wire[1]
  BY <1>1, <1>3, AppendProperties
<1>5. /\ Len(Stream) = Len(buffer) + Len(wire)
      /\ \A i \in 1 .. Len(Stream) :
           Stream[i] = IF i <= Len(buffer) THEN buffer[i] ELSE wire[i - Len(buffer)]
  BY StreamType
<1>6. \A i \in 1 .. Len(b) : b[i] = Stream[i]
  <2> SUFFICES ASSUME NEW i \in 1 .. Len(b) PROVE b[i] = Stream[i]
    OBVIOUS
  <2>1. CASE i <= Len(buffer)
    BY <1>2, <1>4, <1>5, <2>1
  <2>2. CASE i = Len(buffer) + 1
    BY <1>2, <1>4, <1>5, <2>2
  <2> QED
    BY <1>2, <1>4, <2>1, <2>2
<1>7. ASSUME buffer' = b PROVE Stream' = Stream
  <2>1. Stream' = b \o Tail(wire)
    BY <1>7 DEF Stream
  <2>2. /\ b \o Tail(wire) \in Seq(Parts)
        /\ Len(b \o Tail(wire)) = Len(b) + Len(Tail(wire))
        /\ \A i \in 1 .. Len(b) + Len(Tail(wire)) : (b \o Tail(wire))[i] =
                     IF i <= Len(b) THEN b[i] ELSE Tail(wire)[i - Len(b)]
    BY <1>3, <1>4, ConcatProperties
  <2>3. Len(b \o Tail(wire)) = Len(Stream)
    BY <1>2, <1>3, <1>4, <1>5, <2>2
  <2>4. ASSUME NEW i \in 1 .. Len(Stream) PROVE (b \o Tail(wire))[i] = Stream[i]
    <3>1. CASE i <= Len(b)
      <4>1. i \in 1 .. Len(b) /\ i \in 1 .. Len(b) + Len(Tail(wire))
        BY <1>2, <1>4, <2>2, <2>3, <3>1
      <4>2. (b \o Tail(wire))[i] = b[i]
        BY <2>2, <3>1, <4>1
      <4> QED
        BY <1>6, <4>1, <4>2
    <3>2. CASE i > Len(b)
      <4>1. (b \o Tail(wire))[i] = Tail(wire)[i - Len(b)]
        BY <1>2, <1>4, <2>2, <2>3, <3>2
      <4>2. i - Len(b) \in 1 .. Len(Tail(wire))
        BY <1>2, <1>3, <1>4, <1>5, <3>2
      <4>3. (i - Len(b)) + 1 = i - Len(buffer)
        BY <1>2, <1>4
      <4> QED
        BY <1>2, <1>3, <1>4, <1>5, <3>2, <4>1, <4>2, <4>3
    <3> QED
      BY <1>2, <1>4, <1>5, <3>1, <3>2
  <2>5. Stream \in Seq(Parts)
    BY StreamType
  <2>6. b \o Tail(wire) = Stream
    BY <2>2, <2>3, <2>4, <2>5, SeqEqual
  <2> QED
    BY <2>1, <2>6
<1>8. ASSUME buffer' = <<>>
      PROVE  /\ Stream' \in Seq(Parts) /\ Len(Stream') = Len(Stream) - Len(b)
             /\ \A i \in 1 .. Len(Stream') : Stream'[i] = Stream[i + Len(b)]
  <2>1. Stream' = Tail(wire)
    BY <1>3, <1>8, ConcatEmptySeq DEF Stream
  <2>2. Len(Stream') = Len(Stream) - Len(b)
    BY <1>2, <1>3, <1>4, <1>5, <2>1
  <2>3. ASSUME NEW i \in 1 .. Len(Tail(wire)) PROVE Tail(wire)[i] = Stream[i + Len(b)]
    <3>1. Tail(wire)[i] = wire[i + 1]
      BY <1>3
    <3>2. /\ i + Len(b) \in 1 .. Len(Stream) /\ ~(i + Len(b) <= Len(buffer))
          /\ (i + Len(b)) - Len(buffer) = i + 1
      BY <1>2, <1>3, <1>4, <1>5
    <3> QED
      BY <1>5, <3>1, <3>2
  <2> QED
    BY <1>3, <2>1, <2>2, <2>3
<1>9. Len(b) = Len(buffer) + 1 /\ Len(b) \in 1 .. Len(Stream)
  BY <1>2, <1>4, <1>5
<1> QED
  BY <1>3, <1>4, <1>6, <1>7, <1>8, <1>9

-----------------------------------------------------------------------------
\* What is written for a command: the prompt, and in front of it one element at a time.
ChunkElement(k, e) ==
  /\ ChunkFromEnd(k) = <<e>>
  /\ e.kind \notin {"#", "#>"} /\ ~Logged(e)
  /\ e.kind = "value" => e.of = commands
  /\ k = AnswerLength + 2 => e.kind = "\n\r"
  /\ k > AnswerLength + 2 => e.kind = "echo"
  /\ reply = "result" => e.kind \notin LogLevels
  /\ e.kind = "Result:" <=> reply = "result" /\ k = 4
  /\ reply = "result" /\ k = 3 => e.kind = "value"
  /\ reply = "result" /\ k = 2 => e.kind = "\r\n"

LEMMA Chunks ==
  ASSUME commands \in Nat, reply \in Replies, commands = 0 => reply = "nothing",
         NEW k \in 2 .. AnswerLength + 4
  PROVE  \E e \in Parts : ChunkElement(k, e)
<1> DEFINE e == Part(KindFromEnd(k), commands)
<1>1. k # 1 /\ AnswerLength \in {0, 3} /\ (reply = "result" => AnswerLength = 3)
  BY DEF AnswerLength
<1>2. KindFromEnd(k) \in Kinds
  BY DEF KindFromEnd, Kinds, LogLevels, Newlines
<1>3. e \in Parts /\ e.kind = KindFromEnd(k) /\ e.of = commands
  BY <1>2, PartIsAPart
<1>4. /\ KindFromEnd(k) \notin {"#", "#>"}
      /\ KindFromEnd(k) = "ERROR:" => commands # 0
      /\ k = AnswerLength + 2 => KindFromEnd(k) = "\n\r"
      /\ k > AnswerLength + 2 => KindFromEnd(k) = "echo"
      /\ reply = "result" => KindFromEnd(k) \notin LogLevels
      /\ KindFromEnd(k) = "Result:" <=> reply = "result" /\ k = 4
      /\ reply = "result" /\ k = 3 => KindFromEnd(k) = "value"
      /\ reply = "result" /\ k = 2 => KindFromEnd(k) = "\r\n"
  BY <1>1 DEF KindFromEnd, LogLevels
<1>5. ~Logged(e)
  BY <1>3, <1>4 DEF Logged
<1>6. ChunkFromEnd(k) = <<e>>
  BY <1>1 DEF ChunkFromEnd
<1> HIDE DEF e
<1>7. ChunkElement(k, e)
  BY <1>3, <1>4, <1>5, <1>6 DEF ChunkElement
<1> QED
  BY <1>3, <1>7

-----------------------------------------------------------------------------
\* The shape of the stream does not depend on what has been dropped from it.
LEMMA Dropping ==
  ASSUME SessionInv, NEW d \in 1 .. Len(Stream),
         Len(Stream') = Len(Stream) - d,
         \A i \in 1 .. Len(Stream') : Stream'[i] = Stream[i + d],
         UNCHANGED <<output, sent, commands, reply>>
  PROVE  Values' /\ ValueFollows' /\ LogsAreWhole' /\ OnlyHandlersLog'
<1>1. \E n \in Nat : n = Len(Stream)
  BY StreamType DEF SessionInv
<1>2. \A i \in 1 .. Len(Stream') : i + d \in 1 .. Len(Stream)
  BY <1>1
<1>3. \A i \in 1 .. Len(Stream') : Kind(Stream', i) = Kind(Stream, i + d)
  BY DEF Kind
<1>4. Values'
  BY <1>2, <1>3 DEF SessionInv, Values, Kind
<1>5. ValueFollows'
  <2> SUFFICES ASSUME NEW i \in 1 .. Len(Stream'), Kind(Stream', i) = "Result:"
               PROVE  /\ reply = "result" /\ ~sent
                      /\ \/ Len(output) = 3
                         \/ /\ Len(output) < 3
                            /\ \E j \in i + 1 .. Len(Stream') :
                                 /\ Kind(Stream', j) = "value"
                                 /\ \A k \in 1 .. j : Kind(Stream', k) # "#"
    BY DEF ValueFollows, Kind
  <2>1. i + d \in 1 .. Len(Stream) /\ Kind(Stream, i + d) = "Result:"
    BY <1>2, <1>3
  <2>2. /\ reply = "result" /\ ~sent
        /\ \/ Len(output) = 3
           \/ /\ Len(output) < 3
              /\ \E j \in i + d + 1 .. Len(Stream) :
                   Kind(Stream, j) = "value" /\ \A k \in 1 .. j : Kind(Stream, k) # "#"
    BY <2>1 DEF SessionInv, ValueFollows
  <2>3. ASSUME NEW j \in i + d + 1 .. Len(Stream),
               Kind(Stream, j) = "value", \A k \in 1 .. j : Kind(Stream, k) # "#"
        PROVE  \E m \in i + 1 .. Len(Stream') :
                 Kind(Stream', m) = "value" /\ \A k \in 1 .. m : Kind(Stream', k) # "#"
    <3>1. j - d \in i + 1 .. Len(Stream') /\ j - d \in 1 .. Len(Stream') /\ (j - d) + d = j
      BY <1>1
    <3>2. Kind(Stream', j - d) = "value"
      BY <1>3, <2>3, <3>1
    <3>3. \A k \in 1 .. j - d : k \in 1 .. Len(Stream') /\ k + d \in 1 .. j
      BY <1>1, <3>1
    <3>4. \A k \in 1 .. j - d : Kind(Stream', k) # "#"
      BY <1>3, <2>3, <3>3
    <3> QED
      BY <3>1, <3>2, <3>4
  <2> QED
    BY <2>2, <2>3
<1>6. LogsAreWhole'
  <2> SUFFICES ASSUME NEW i \in 1 .. Len(Stream'), Logged(Stream'[i])
               PROVE  /\ i + 2 <= Len(Stream')
                      /\ Kind(Stream', i + 1) = "text" /\ Kind(Stream', i + 2) = "\r\n"
    BY DEF LogsAreWhole, Kind, Logged
  <2>1. /\ i + d + 2 <= Len(Stream)
        /\ Kind(Stream, i + d + 1) = "text" /\ Kind(Stream, i + d + 2) = "\r\n"
    BY <1>2 DEF SessionInv, LogsAreWhole
  <2>2. /\ i + 2 <= Len(Stream') /\ i + 1 \in 1 .. Len(Stream') /\ i + 2 \in 1 .. Len(Stream')
        /\ i + d + 1 = (i + 1) + d /\ i + d + 2 = (i + 2) + d
    BY <1>1, <2>1
  <2>3. /\ Kind(Stream', i + 1) = Kind(Stream, (i + 1) + d)
        /\ Kind(Stream', i + 2) = Kind(Stream, (i + 2) + d)
    BY <1>3, <2>2
  <2> QED
    BY <1>1, <2>1, <2>2, <2>3
<1>7. OnlyHandlersLog'
  BY <1>2, <1>3 DEF SessionInv, OnlyHandlersLog, Kind, Logged
<1> QED
  BY <1>4, <1>5, <1>6, <1>7

\* A handler logs a line.
LEMMA LogStep == SessionInv /\ Log => SessionInv'
<1> SUFFICES ASSUME SessionInv, Log PROVE SessionInv'
  OBVIOUS
<1> DEFINE s == <<Part("ERROR:", 0), Part("text", 0), Part("\r\n", 0)>>
<1>1. /\ wire' = wire \o s
      /\ UNCHANGED <<output, sent, host, buffer, commands, reply, results>>
      /\ disturbed' = (disturbed \/ InResult)
  BY DEF Log
<1>2. s \in Seq(Parts) /\ Len(s) = 3
  <2>1. Part("ERROR:", 0) \in Parts /\ Part("text", 0) \in Parts /\ Part("\r\n", 0) \in Parts
    BY LogPartKinds DEF LogParts
  <2> QED
    BY <2>1, TuplesAreSequences
<1>3. SessionTypes
  BY DEF SessionInv
<1> HIDE DEF s
<1>4. /\ wire' \in Seq(Parts) /\ Len(Stream') = Len(Stream) + 3
      /\ \A i \in 1 .. Len(Stream) : Stream'[i] = Stream[i]
      /\ \A i \in Len(Stream) + 1 .. Len(Stream) + 3 : Stream'[i] = s[i - Len(Stream)]
  BY <1>1, <1>2, <1>3, Sending
<1>5. /\ \E n \in Nat : n = Len(Stream)
      /\ \E n \in Nat : n = Len(output)
  BY <1>3, StreamType
<1>6. /\ Stream'[Len(Stream) + 1] = Part("ERROR:", 0)
      /\ Stream'[Len(Stream) + 2] = Part("text", 0)
      /\ Stream'[Len(Stream) + 3] = Part("\r\n", 0)
  <2>1. s[1] = Part("ERROR:", 0) /\ s[2] = Part("text", 0) /\ s[3] = Part("\r\n", 0)
    BY TuplesAreSequences DEF s
  <2>2. /\ Stream'[Len(Stream) + 1] = s[(Len(Stream) + 1) - Len(Stream)]
        /\ Stream'[Len(Stream) + 2] = s[(Len(Stream) + 2) - Len(Stream)]
        /\ Stream'[Len(Stream) + 3] = s[(Len(Stream) + 3) - Len(Stream)]
    BY <1>4, <1>5
  <2>3. /\ (Len(Stream) + 1) - Len(Stream) = 1
        /\ (Len(Stream) + 2) - Len(Stream) = 2
        /\ (Len(Stream) + 3) - Len(Stream) = 3
    BY <1>5
  <2> QED
    BY <2>1, <2>2, <2>3
<1>7. /\ \A i \in 1 .. Len(Stream') :
           i \notin 1 .. Len(Stream) => i \in {Len(Stream) + 1, Len(Stream) + 2, Len(Stream) + 3}
      /\ \A i \in 1 .. Len(Stream) : i \in 1 .. Len(Stream')
  BY <1>4, <1>5
<1>8. /\ \A i \in 1 .. Len(Stream) : Kind(Stream', i) = Kind(Stream, i)
      /\ \A i \in 1 .. Len(Stream') : i \notin 1 .. Len(Stream) =>
           Stream'[i] \in LogParts /\ Kind(Stream', i) \in {"ERROR:", "text", "\r\n"}
      /\ Kind(Stream', Len(Stream) + 1) = "ERROR:" /\ Kind(Stream', Len(Stream) + 2) = "text"
      /\ Kind(Stream', Len(Stream) + 3) = "\r\n"
  <2>1. \A i \in 1 .. Len(Stream) : Kind(Stream', i) = Kind(Stream, i)
    BY <1>4 DEF Kind
  <2>2. \A i \in 1 .. Len(Stream') : i \notin 1 .. Len(Stream) => Stream'[i] \in LogParts
    BY <1>6, <1>7 DEF LogParts
  <2>3. \A i \in 1 .. Len(Stream') : i \notin 1 .. Len(Stream) =>
          Kind(Stream', i) \in {"ERROR:", "text", "\r\n"}
    BY <2>2, LogPartKinds DEF Kind
  <2>4. /\ Kind(Stream', Len(Stream) + 1) = "ERROR:" /\ Kind(Stream', Len(Stream) + 2) = "text"
        /\ Kind(Stream', Len(Stream) + 3) = "\r\n"
    BY <1>6, LogPartFields DEF Kind
  <2> QED
    BY <2>1, <2>2, <2>3, <2>4
<1>9. SessionTypes' /\ EndOfAnswer'
  <2>1. SessionTypes'
    <3>1. disturbed' \in BOOLEAN
      BY <1>1
    <3> QED
      BY <1>1, <1>4, <3>1 DEF SessionInv, SessionTypes
  <2>2. EndOfAnswer'
    BY <1>1 DEF SessionInv, EndOfAnswer, AnswerLength, ChunkFromEnd, KindFromEnd
  <2> QED
    BY <2>1, <2>2
<1>10. Quiet'
  BY <1>1, <1>4, <1>7, <1>8 DEF SessionInv, Quiet
<1>11. OnePrompt'
  <2> SUFFICES ASSUME ~sent, host # "ready"
               PROVE  IF output # <<>>
                      THEN \A i \in 1 .. Len(Stream') : Kind(Stream', i) \notin {"#", "#>"}
                      ELSE \E p \in 1 .. Len(Stream') : PromptAt(p)'
    BY <1>1 DEF OnePrompt, Kind
  <2>1. CASE output # <<>>
    BY <1>7, <1>8, <2>1 DEF SessionInv, OnePrompt
  <2>2. CASE output = <<>>
    <3>1. PICK p \in 1 .. Len(Stream) : PromptAt(p)
      BY <2>2 DEF SessionInv, OnePrompt
    <3>2. p \in 1 .. Len(Stream') /\ \A i \in 1 .. p - 1 : i \in 1 .. Len(Stream)
      BY <1>5, <1>7
    <3>3. \A i \in p + 1 .. Len(Stream') : i \in 1 .. Len(Stream') /\
            (i \in 1 .. Len(Stream) => i \in p + 1 .. Len(Stream))
      BY <1>4, <1>5
    <3>4. PromptAt(p)'
      BY <1>1, <1>4, <1>8, <3>1, <3>2, <3>3 DEF PromptAt, Kind
    <3> QED
      BY <2>2, <3>2, <3>4
  <2> QED
    BY <2>1, <2>2
<1>12. EchoEnds'
  <2> SUFFICES ASSUME host = "echo", ~sent, ~(Len(output) >= AnswerLength + 2)
               PROVE  \E i \in 1 .. Len(Stream') :
                        /\ Kind(Stream', i) = "\n\r"
                        /\ \A j \in 1 .. i : Kind(Stream', j) \notin {"Result:", "#", "#>"}
    BY <1>1 DEF EchoEnds, AnswerLength, Kind
  <2>1. PICK i \in 1 .. Len(Stream) :
          /\ Kind(Stream, i) = "\n\r"
          /\ \A j \in 1 .. i : Kind(Stream, j) \notin {"Result:", "#", "#>"}
    BY DEF SessionInv, EchoEnds
  <2>2. i \in 1 .. Len(Stream') /\ \A j \in 1 .. i : j \in 1 .. Len(Stream)
    BY <1>5, <1>7
  <2> QED
    BY <1>8, <2>1, <2>2
<1>13. Values'
  BY <1>1, <1>4, <1>7, <1>8 DEF SessionInv, Values, Kind
<1>14. ValueFollows'
  <2> SUFFICES ASSUME NEW i \in 1 .. Len(Stream'), Kind(Stream', i) = "Result:"
               PROVE  /\ reply = "result" /\ ~sent
                      /\ \/ Len(output) = 3
                         \/ /\ Len(output) < 3
                            /\ \E j \in i + 1 .. Len(Stream') :
                                 /\ Kind(Stream', j) = "value"
                                 /\ \A k \in 1 .. j : Kind(Stream', k) # "#"
    BY <1>1 DEF ValueFollows, Kind
  <2>1. i \in 1 .. Len(Stream) /\ Kind(Stream, i) = "Result:"
    BY <1>8
  <2>2. \A j \in i + 1 .. Len(Stream) :
          j \in i + 1 .. Len(Stream') /\ j \in 1 .. Len(Stream) /\ \A k \in 1 .. j : k \in 1 .. Len(Stream)
    BY <1>4, <1>5
  <2> QED
    BY <1>8, <2>1, <2>2 DEF SessionInv, ValueFollows
<1>15. LogsAreWhole'
  <2> SUFFICES ASSUME NEW i \in 1 .. Len(Stream'), Logged(Stream'[i])
               PROVE  /\ i + 2 <= Len(Stream')
                      /\ Kind(Stream', i + 1) = "text" /\ Kind(Stream', i + 2) = "\r\n"
    BY DEF LogsAreWhole, Kind, Logged
  <2>1. CASE i \in 1 .. Len(Stream)
    <3>1. i + 2 <= Len(Stream) /\ Kind(Stream, i + 1) = "text" /\ Kind(Stream, i + 2) = "\r\n"
      BY <1>4, <2>1 DEF SessionInv, LogsAreWhole
    <3>2. i + 1 \in 1 .. Len(Stream) /\ i + 2 \in 1 .. Len(Stream) /\ i + 2 <= Len(Stream')
      BY <1>4, <1>5, <3>1
    <3> QED
      BY <1>8, <3>1, <3>2
  <2>2. CASE i \notin 1 .. Len(Stream)
    <3>1. Kind(Stream', i) = "ERROR:"
      BY DEF Kind, Logged
    <3>2. i = Len(Stream) + 1
      BY <1>7, <1>8, <2>2, <3>1
    <3> QED
      <4>1. i + 1 = Len(Stream) + 2 /\ i + 2 = Len(Stream) + 3
        BY <1>5, <3>2
      <4> QED
        BY <1>4, <1>5, <1>8, <4>1
  <2> QED
    BY <2>1, <2>2
<1>16. OnlyHandlersLog'
  <2>1. \A i \in 1 .. Len(Stream') : i \notin 1 .. Len(Stream) =>
          (Kind(Stream', i) \in LogLevels => Logged(Stream'[i]))
    BY <1>8, LogPartKinds DEF LogLevels, Logged, Kind
  <2> QED
    BY <1>1, <1>4, <1>8, <2>1 DEF SessionInv, OnlyHandlersLog, Kind, Logged
<1>17. Unbroken'
  <2> SUFFICES ASSUME reply = "result", ~sent, ~disturbed', results = {}, host # "ready",
                      Len(output) < 4
               PROVE  \E r \in 1 .. Len(Stream') : UnbrokenAt(r)'
    BY <1>1 DEF Unbroken
  <2>a. ~disturbed /\ ~InResult
    BY <1>1
  <2>b. ~(Len(output) \in 1 .. 3)
    BY <2>a DEF InResult
  <2>1. Len(output) = 0
    BY <1>5, <2>b
  <2>2. PICK r \in 1 .. Len(Stream) : UnbrokenAt(r)
    BY <2>a DEF SessionInv, Unbroken
  <2>3. /\ r \in 1 .. Len(Stream') /\ r + 1 \in 1 .. Len(Stream) /\ r + 2 \in 1 .. Len(Stream)
        /\ r + 3 \in 1 .. Len(Stream) /\ r + 4 \in 1 .. Len(Stream)
        /\ r + 1 <= Len(Stream') /\ r + 2 <= Len(Stream') /\ r + 4 <= Len(Stream')
    <3>1. Len(Stream) >= r + 4
      BY <2>1, <2>2 DEF UnbrokenAt
    <3> QED
      BY <1>4, <1>5, <3>1
  <2>4. UnbrokenAt(r)'
    <3>1. /\ Len(buffer) < r + 3 /\ Kind(Stream, r) = "Result:"
          /\ Kind(Stream, r + 1) = "value" /\ Kind(Stream, r + 2) = "\r\n"
          /\ Kind(Stream, r + 3) = "#" /\ Kind(Stream, r + 4) = "#>"
      BY <1>5, <2>1, <2>2 DEF UnbrokenAt
    <3>2. /\ Kind(Stream', r) = "Result:" /\ Kind(Stream', r + 1) = "value"
          /\ Kind(Stream', r + 2) = "\r\n" /\ Kind(Stream', r + 3) = "#"
          /\ Kind(Stream', r + 4) = "#>"
      BY <1>8, <2>3, <3>1
    <3> QED
      BY <1>1, <1>4, <1>5, <2>1, <2>3, <3>1, <3>2 DEF UnbrokenAt, Kind
  <2> QED
    BY <2>3, <2>4
<1>18. ResultOfItsCommand' /\ ResultLostOnlyToALog'
  BY <1>1 DEF SessionInv, ResultOfItsCommand, ResultLostOnlyToALog
<1> QED
  BY <1>9, <1>10, <1>11, <1>12, <1>13, <1>14, <1>15, <1>16, <1>17, <1>18 DEF SessionInv

\* A prompt or a result behind what has been dropped only moves.
LEMMA PromptMoves ==
  ASSUME SessionInv, NEW d \in 1 .. Len(Stream),
         Len(Stream') = Len(Stream) - d,
         \A i \in 1 .. Len(Stream') : Stream'[i] = Stream[i + d],
         buffer' = <<>>,
         NEW p \in 1 .. Len(Stream), PromptAt(p), p > d
  PROVE  \E q \in 1 .. Len(Stream') : PromptAt(q)'
<1>1. PICK len \in Nat : len = Len(Stream)
  BY StreamType DEF SessionInv
<1>2. PICK q \in Nat : q = p - d
  BY <1>1
<1>3. /\ d \in 1 .. len /\ p \in 1 .. len /\ q \in 1 .. len - d /\ q + d = p /\ q > 0
      /\ \A i \in 1 .. q - 1 : i \in 1 .. len - d /\ i + d \in 1 .. p - 1
      /\ \A i \in q + 1 .. len - d : i \in 1 .. len - d /\ i + d \in p + 1 .. len
  BY <1>1, <1>2
<1>4. /\ Len(Stream') = len - d
      /\ \A i \in 1 .. len - d : Stream'[i] = Stream[i + d]
  BY <1>1
<1>5. /\ Stream[p].kind = "#>"
      /\ \A i \in 1 .. p - 1 : Stream[i].kind # "#>"
      /\ \A i \in p + 1 .. len : Stream[i] \in LogParts
  BY <1>1 DEF PromptAt, Kind
<1>6. /\ Stream'[q].kind = "#>"
      /\ \A i \in 1 .. q - 1 : Stream'[i].kind # "#>"
      /\ \A i \in q + 1 .. len - d : Stream'[i] \in LogParts
  BY <1>3, <1>4, <1>5
<1>7. Len(buffer') = 0 /\ q > Len(buffer')
  <2>1. Len(buffer') = 0
    OBVIOUS
  <2> QED
    BY <1>3, <2>1
<1>8. PromptAt(q)'
  BY <1>4, <1>6, <1>7 DEF PromptAt, Kind
<1> QED
  BY <1>3, <1>4, <1>8

LEMMA ResultMoves ==
  ASSUME SessionInv, NEW d \in 1 .. Len(Stream),
         Len(Stream') = Len(Stream) - d,
         \A i \in 1 .. Len(Stream') : Stream'[i] = Stream[i + d],
         buffer' = <<>>, UNCHANGED output,
         NEW r \in 1 .. Len(Stream), UnbrokenAt(r), r > d
  PROVE  \E q \in 1 .. Len(Stream') : UnbrokenAt(q)'
<1>1. PICK len \in Nat : len = Len(Stream)
  BY StreamType DEF SessionInv
<1>2. PICK n \in Nat : n = Len(output)
  BY StreamType DEF SessionInv
<1>3. PICK q \in Nat : q = r - d
  BY <1>1
<1>4. d \in 1 .. len /\ r \in 1 .. len /\ q \in 1 .. len - d /\ q + d = r
  BY <1>1, <1>3
<1>5. /\ Len(Stream') = len - d
      /\ \A i \in 1 .. len - d, j \in 1 .. len :
           j = i + d => Stream'[i].kind = Stream[j].kind
  BY <1>1
<1>6. /\ Stream[r].kind = "Result:"
      /\ n > 0 => len = r + 3 - n
      /\ n < 3 => len >= r + 1 /\ Stream[r + 1].kind = "value"
      /\ n < 2 => len >= r + 2 /\ Stream[r + 2].kind = "\r\n"
      /\ n < 1 => len >= r + 4 /\ Stream[r + 3].kind = "#" /\ Stream[r + 4].kind = "#>"
  BY <1>1, <1>2 DEF UnbrokenAt, Kind
<1>7. Stream'[q].kind = "Result:" /\ (n > 0 => len - d = q + 3 - n)
  <2>1. Stream'[q].kind = Stream[r].kind
    BY <1>4, <1>5
  <2>2. n > 0 => len - d = q + 3 - n
    BY <1>4, <1>6
  <2> QED
    BY <1>6, <2>1, <2>2
<1>8. n < 3 => len - d >= q + 1 /\ Stream'[q + 1].kind = "value"
  <2> SUFFICES ASSUME n < 3
               PROVE  len - d >= q + 1 /\ Stream'[q + 1].kind = "value"
    OBVIOUS
  <2>1. q + 1 \in 1 .. len - d /\ r + 1 \in 1 .. len /\ r + 1 = (q + 1) + d
    BY <1>4, <1>6
  <2>2. Stream'[q + 1].kind = Stream[r + 1].kind
    BY <1>5, <2>1
  <2> QED
    BY <1>4, <1>6, <2>1, <2>2
<1>9. n < 2 => len - d >= q + 2 /\ Stream'[q + 2].kind = "\r\n"
  <2> SUFFICES ASSUME n < 2
               PROVE  len - d >= q + 2 /\ Stream'[q + 2].kind = "\r\n"
    OBVIOUS
  <2>1. q + 2 \in 1 .. len - d /\ r + 2 \in 1 .. len /\ r + 2 = (q + 2) + d
    BY <1>4, <1>6
  <2>2. Stream'[q + 2].kind = Stream[r + 2].kind
    BY <1>5, <2>1
  <2> QED
    BY <1>4, <1>6, <2>1, <2>2
<1>10. n < 1 => /\ len - d >= q + 4
                /\ Stream'[q + 3].kind = "#" /\ Stream'[q + 4].kind = "#>"
  <2> SUFFICES ASSUME n < 1
               PROVE  /\ len - d >= q + 4
                      /\ Stream'[q + 3].kind = "#" /\ Stream'[q + 4].kind = "#>"
    OBVIOUS
  <2>1. /\ q + 3 \in 1 .. len - d /\ r + 3 \in 1 .. len /\ r + 3 = (q + 3) + d
        /\ q + 4 \in 1 .. len - d /\ r + 4 \in 1 .. len /\ r + 4 = (q + 4) + d
    BY <1>4, <1>6
  <2>2. Stream'[q + 3].kind = Stream[r + 3].kind /\ Stream'[q + 4].kind = Stream[r + 4].kind
    BY <1>5, <2>1
  <2> QED
    BY <1>4, <1>6, <2>1, <2>2
<1>11. Len(buffer') = 0 /\ Len(buffer') < q + 3
  <2>1. Len(buffer') = 0
    OBVIOUS
  <2> QED
    BY <1>4, <2>1
<1>12. n = Len(output')
  BY <1>2
<1>13. UnbrokenAt(q)'
  BY <1>5, <1>7, <1>8, <1>9, <1>10, <1>11, <1>12 DEF UnbrokenAt, Kind
<1> QED
  BY <1>4, <1>5, <1>13

\* The node writes its next chunk.
LEMMA ChunkTaken ==
  ASSUME SessionInv, WriteChunk
  PROVE  /\ ~sent /\ host # "ready"
         /\ output' \in Seq(Seq(Parts)) /\ EndOfAnswer'
         /\ \E n \in Nat : /\ n + 1 = Len(output) /\ n = Len(output') /\ n + 1 <= AnswerLength + 4
                           /\ n = 0 <=> output' = <<>>
                           /\ wire' = wire \o ChunkFromEnd(n + 1)
         /\ AnswerLength' = AnswerLength
         /\ commands \in Nat /\ reply \in Replies /\ (commands = 0 => reply = "nothing")
<1>1. /\ output \in Seq(Seq(Parts)) /\ output # <<>>
      /\ output' = Tail(output) /\ wire' = wire \o Head(output)
      /\ UNCHANGED <<commands, reply>>
  BY DEF SessionInv, SessionTypes, WriteChunk
<1>2. ~sent /\ host # "ready"
  BY <1>1 DEF SessionInv, Quiet
<1>3. /\ Head(output) = output[1] /\ Tail(output) \in Seq(Seq(Parts))
      /\ Len(Tail(output)) = Len(output) - 1
      /\ \A i \in 1 .. Len(Tail(output)) : Tail(output)[i] = output[i + 1]
  BY <1>1, HeadTailProperties
<1>4. PICK n \in Nat : Len(output) = n + 1
  <2>1. Len(output) \in Nat \ {0}
    BY <1>1, EmptySeq
  <2>2. Len(output) - 1 \in Nat /\ Len(output) = (Len(output) - 1) + 1
    BY <2>1
  <2> QED
    BY <2>2
<1>5. Len(output') = n /\ (n = 0 <=> output' = <<>>)
  <2>1. Len(Tail(output)) = n
    BY <1>3, <1>4
  <2>2. Tail(output) = <<>> => n = 0
    BY <2>1, EmptySeq
  <2>3. Tail(output) # <<>> => n # 0
    BY <1>3, <2>1, EmptySeq
  <2> QED
    BY <1>1, <2>1, <2>2, <2>3
<1>6. /\ n + 1 <= AnswerLength + 4
      /\ \A i \in 1 .. n + 1 : output[i] = ChunkFromEnd(n + 1 - i + 1)
  BY <1>4 DEF SessionInv, EndOfAnswer
<1>7. AnswerLength' = AnswerLength /\ AnswerLength \in {0, 3}
  BY <1>1 DEF AnswerLength
<1>8. \A k : ChunkFromEnd(k)' = ChunkFromEnd(k)
  BY <1>1, <1>7 DEF ChunkFromEnd, KindFromEnd
<1>9. wire' = wire \o ChunkFromEnd(n + 1)
  <2>1. 1 \in 1 .. n + 1 /\ n + 1 - 1 + 1 = n + 1
    OBVIOUS
  <2>2. output[1] = ChunkFromEnd(n + 1 - 1 + 1)
    BY <1>6, <2>1
  <2> QED
    BY <1>1, <1>3, <2>1, <2>2
<1>10. EndOfAnswer'
  <2>1. Len(output') <= AnswerLength' + 4
    BY <1>5, <1>6, <1>7
  <2>2. ASSUME NEW i \in 1 .. n PROVE output'[i] = ChunkFromEnd(n - i + 1)'
    <3>1. /\ i \in 1 .. Len(Tail(output)) /\ i + 1 \in 1 .. n + 1
          /\ n + 1 - (i + 1) + 1 = n - i + 1
      BY <1>1, <1>5
    <3>2. output'[i] = output[i + 1]
      BY <1>1, <1>3, <3>1
    <3>3. output[i + 1] = ChunkFromEnd(n + 1 - (i + 1) + 1)
      BY <1>6, <3>1
    <3>4. ChunkFromEnd(n - i + 1)' = ChunkFromEnd(n - i + 1)
      BY <1>8
    <3> QED
      BY <3>1, <3>2, <3>3, <3>4
  <2> QED
    BY <1>5, <2>1, <2>2 DEF EndOfAnswer
<1>11. commands \in Nat /\ reply \in Replies /\ (commands = 0 => reply = "nothing")
  BY DEF SessionInv, SessionTypes
<1> QED
  BY <1>1, <1>2, <1>3, <1>4, <1>5, <1>6, <1>7, <1>9, <1>10, <1>11

LEMMA Growing ==
  ASSUME SessionInv, UNCHANGED <<commands, reply>>,
         NEW len \in Nat, NEW len1 \in Nat, len = Len(Stream), len1 = Len(Stream'), len <= len1,
         \A i \in 1 .. len : Stream'[i] = Stream[i],
         \A i \in len + 1 .. len1 :
           /\ ~Logged(Stream'[i])
           /\ Stream'[i].kind = "value" => Stream'[i].of = commands
           /\ reply = "result" => Stream'[i].kind \notin LogLevels
  PROVE  Values' /\ LogsAreWhole' /\ OnlyHandlersLog'
<1>1. \A i \in 1 .. len1 : i \in 1 .. len \/ i \in len + 1 .. len1
  OBVIOUS
<1>2. Values'
  BY <1>1 DEF SessionInv, Values, Kind
<1>3. OnlyHandlersLog'
  BY <1>1 DEF SessionInv, OnlyHandlersLog, Kind, Logged
<1>4. LogsAreWhole'
  <2> SUFFICES ASSUME NEW i \in 1 .. len1, Logged(Stream'[i])
               PROVE  i + 2 <= len1 /\ Kind(Stream', i + 1) = "text" /\ Kind(Stream', i + 2) = "\r\n"
    BY DEF LogsAreWhole, Kind, Logged
  <2>1. i \in 1 .. len /\ Logged(Stream[i])
    BY <1>1
  <2>2. i + 2 <= len /\ Kind(Stream, i + 1) = "text" /\ Kind(Stream, i + 2) = "\r\n"
    BY <2>1 DEF SessionInv, LogsAreWhole
  <2>3. i + 1 \in 1 .. len /\ i + 2 \in 1 .. len /\ i + 2 <= len1
    BY <2>2
  <2>4. Stream'[i + 1] = Stream[i + 1] /\ Stream'[i + 2] = Stream[i + 2]
    BY <2>3
  <2> QED
    BY <2>2, <2>3, <2>4 DEF Kind
<1> QED
  BY <1>2, <1>3, <1>4

LEMMA WriteStep == SessionInv /\ WriteChunk => SessionInv'
<1> SUFFICES ASSUME SessionInv, WriteChunk PROVE SessionInv'
  OBVIOUS
<1>1. /\ ~sent /\ host # "ready" /\ output' \in Seq(Seq(Parts)) /\ EndOfAnswer'
      /\ AnswerLength' = AnswerLength /\ AnswerLength \in {0, 3}
      /\ reply = "result" => AnswerLength = 3
      /\ UNCHANGED <<sent, host, buffer, commands, reply, results, disturbed>>
  BY ChunkTaken DEF WriteChunk, AnswerLength
<1>2. PICK n \in Nat : /\ n + 1 = Len(output) /\ n = Len(output') /\ n + 1 <= AnswerLength + 4
                       /\ n = 0 <=> output' = <<>>
                       /\ wire' = wire \o ChunkFromEnd(n + 1)
  BY ChunkTaken
<1>3. PICK len \in Nat : len = Len(Stream)
  BY StreamType DEF SessionInv
<1>4. output # <<>>
  BY DEF WriteChunk
<1>5. \A i \in 1 .. len : Kind(Stream, i) \notin {"#", "#>"}
  BY <1>1, <1>3, <1>4 DEF SessionInv, OnePrompt
<1>6. \A i \in 1 .. len : Kind(Stream, i) = "Result:" =>
        /\ reply = "result" /\ n + 1 <= 3
        /\ n + 1 < 3 => \E j \in i + 1 .. len :
             Kind(Stream, j) = "value" /\ \A k \in 1 .. j : Kind(Stream, k) # "#"
  BY <1>2, <1>3 DEF SessionInv, ValueFollows
<1>7. host = "echo" /\ n + 1 < AnswerLength + 2 =>
        \E i \in 1 .. len :
          /\ Kind(Stream, i) = "\n\r"
          /\ \A j \in 1 .. i : Kind(Stream, j) \notin {"Result:", "#", "#>"}
  BY <1>1, <1>2, <1>3 DEF SessionInv, EchoEnds
<1>8. reply = "result" /\ ~disturbed /\ results = {} /\ n + 1 < 4 =>
        \E r \in 1 .. len : UnbrokenAt(r)
  BY <1>1, <1>2, <1>3 DEF SessionInv, Unbroken
<1>9. ResultOfItsCommand' /\ ResultLostOnlyToALog' /\ Quiet'
  BY <1>1 DEF SessionInv, ResultOfItsCommand, ResultLostOnlyToALog, Quiet
<1>10. CASE n = 0
  <2>1. wire' = wire \o Prompt /\ output' = <<>> /\ Len(output) = 1
    BY <1>2, <1>10 DEF ChunkFromEnd
  <2>2. /\ Part("#", 0) \in Parts /\ Part("#", 0).kind = "#"
        /\ Part("#>", 0) \in Parts /\ Part("#>", 0).kind = "#>"
    BY PartIsAPart DEF Kinds
  <2>3. /\ Prompt \in Seq(Parts) /\ Len(Prompt) = 2
        /\ Prompt[1] = Part("#", 0) /\ Prompt[2] = Part("#>", 0)
    BY <2>2, TuplesAreSequences DEF Prompt
  <2>4. /\ wire' \in Seq(Parts) /\ Len(Stream') = len + 2
        /\ \A i \in 1 .. len : Stream'[i] = Stream[i]
        /\ \A i \in len + 1 .. len + 2 : Stream'[i] = Prompt[i - len]
    BY <1>1, <1>3, <2>1, <2>3, Sending DEF SessionInv
  <2>5. Kind(Stream', len + 1) = "#" /\ Kind(Stream', len + 2) = "#>"
    <3>1. Stream'[len + 1] = Prompt[(len + 1) - len] /\ Stream'[len + 2] = Prompt[(len + 2) - len]
      BY <2>4
    <3>2. (len + 1) - len = 1 /\ (len + 2) - len = 2
      OBVIOUS
    <3> QED
      BY <2>2, <2>3, <3>1, <3>2 DEF Kind
  <2>6. /\ \A i \in 1 .. len : Kind(Stream', i) = Kind(Stream, i)
        /\ \A i \in 1 .. len + 2 : i \in 1 .. len \/ i = len + 1 \/ i = len + 2
        /\ \A i \in len + 1 .. len + 2 : Kind(Stream', i) \in {"#", "#>"}
    BY <2>4, <2>5 DEF Kind
  <2>7. SessionTypes'
    BY <1>1, <2>4 DEF SessionInv, SessionTypes
  <2>8. Values' /\ LogsAreWhole' /\ OnlyHandlersLog'
    <3>1. \A i \in len + 1 .. len + 2 :
            /\ ~Logged(Stream'[i])
            /\ Stream'[i].kind = "value" => Stream'[i].of = commands
            /\ reply = "result" => Stream'[i].kind \notin LogLevels
      BY <2>6 DEF Kind, Logged, LogLevels
    <3>2. len + 2 \in Nat /\ len <= len + 2
      OBVIOUS
    <3> QED
      BY <1>1, <1>3, <2>4, <3>1, <3>2, Growing
  <2>9. OnePrompt'
    <3>1. len + 2 > Len(buffer)
      BY <1>3, StreamType DEF SessionInv
    <3>2. PromptAt(len + 2)'
      <4>1. \A i \in 1 .. (len + 2) - 1 : Kind(Stream', i) # "#>"
        BY <1>5, <2>5, <2>6
      <4>2. \A i \in (len + 2) + 1 .. Len(Stream') : FALSE
        BY <2>4
      <4> QED
        BY <1>1, <2>5, <3>1, <4>1, <4>2 DEF PromptAt, Kind
    <3>3. len + 2 \in 1 .. Len(Stream')
      BY <2>4
    <3> QED
      BY <2>1, <3>2, <3>3 DEF OnePrompt
  <2>10. EchoEnds'
    <3> SUFFICES ASSUME host = "echo"
                 PROVE  \E i \in 1 .. Len(Stream') :
                          /\ Kind(Stream', i) = "\n\r"
                          /\ \A j \in 1 .. i : Kind(Stream', j) \notin {"Result:", "#", "#>"}
      BY <1>1 DEF EchoEnds, Kind
    <3>1. PICK i \in 1 .. len :
            /\ Kind(Stream, i) = "\n\r"
            /\ \A j \in 1 .. i : Kind(Stream, j) \notin {"Result:", "#", "#>"}
      BY <1>1, <1>7, <1>10
    <3>2. i \in 1 .. Len(Stream') /\ \A j \in 1 .. i : j \in 1 .. len
      BY <2>4
    <3> QED
      BY <2>6, <3>1, <3>2
  <2>11. ValueFollows'
    <3> SUFFICES ASSUME NEW i \in 1 .. Len(Stream'), Kind(Stream', i) = "Result:"
                 PROVE  /\ reply = "result" /\ Len(output') < 3
                        /\ \E j \in i + 1 .. Len(Stream') :
                             /\ Kind(Stream', j) = "value"
                             /\ \A k \in 1 .. j : Kind(Stream', k) # "#"
      BY <1>1 DEF ValueFollows, Kind
    <3>1. i \in 1 .. len /\ Kind(Stream, i) = "Result:"
      BY <2>4, <2>5, <2>6
    <3>2. PICK j \in i + 1 .. len :
            Kind(Stream, j) = "value" /\ \A k \in 1 .. j : Kind(Stream, k) # "#"
      BY <1>6, <1>10, <3>1
    <3>3. /\ j \in i + 1 .. Len(Stream') /\ j \in 1 .. len
          /\ \A k \in 1 .. j : k \in 1 .. len
      BY <2>4, <3>1
    <3>4. Len(output') < 3
      BY <1>2, <1>10
    <3> QED
      BY <1>6, <2>6, <3>1, <3>2, <3>3, <3>4
  <2>12. Unbroken'
    <3> SUFFICES ASSUME reply = "result", ~disturbed, results = {}
                 PROVE  \E r \in 1 .. Len(Stream') : UnbrokenAt(r)'
      BY <1>1 DEF Unbroken
    <3>1. PICK r \in 1 .. len : UnbrokenAt(r)
      BY <1>8, <1>10
    <3>2. /\ Len(buffer) < r + 3 /\ Kind(Stream, r) = "Result:" /\ len = r + 2
          /\ Kind(Stream, r + 1) = "value" /\ Kind(Stream, r + 2) = "\r\n"
      <4>1. Len(output) = 1
        BY <1>2, <1>10
      <4>2. /\ Len(buffer) < r + 3 /\ Kind(Stream, r) = "Result:" /\ Len(Stream) = r + 3 - 1
            /\ Kind(Stream, r + 1) = "value" /\ Kind(Stream, r + 2) = "\r\n"
        BY <3>1, <4>1 DEF UnbrokenAt
      <4> QED
        BY <1>3, <4>2
    <3>3. /\ r \in 1 .. Len(Stream') /\ r + 1 \in 1 .. len /\ r + 2 \in 1 .. len
          /\ r + 3 = len + 1 /\ r + 4 = len + 2 /\ Len(Stream') = r + 4
      BY <2>4, <3>2
    <3>4. /\ Kind(Stream', r) = "Result:" /\ Kind(Stream', r + 1) = "value"
          /\ Kind(Stream', r + 2) = "\r\n" /\ Kind(Stream', r + 3) = "#"
          /\ Kind(Stream', r + 4) = "#>"
      BY <2>5, <2>6, <3>2, <3>3
    <3>5. Len(output') = n /\ n = 0
      BY <1>2, <1>10
    <3>6. UnbrokenAt(r)'
      BY <1>1, <3>2, <3>3, <3>4, <3>5 DEF UnbrokenAt, Kind
    <3> QED
      BY <3>3, <3>6
  <2> QED
    BY <1>1, <1>9, <2>7, <2>8, <2>9, <2>10, <2>11, <2>12 DEF SessionInv
<1>11. CASE n # 0
  <2>1. PICK e \in Parts : ChunkElement(n + 1, e)
    <3>1. n + 1 \in 2 .. AnswerLength + 4
      BY <1>1, <1>2, <1>11
    <3> QED
      BY <3>1, Chunks DEF SessionInv, SessionTypes
  <2>2. /\ wire' = wire \o <<e>> /\ output' # <<>>
        /\ <<e>> \in Seq(Parts) /\ Len(<<e>>) = 1 /\ <<e>>[1] = e
    BY <1>2, <1>11, <2>1, TuplesAreSequences DEF ChunkElement
  <2>3. /\ e.kind \notin {"#", "#>"} /\ ~Logged(e)
        /\ e.kind = "value" => e.of = commands
        /\ n + 1 = AnswerLength + 2 => e.kind = "\n\r"
        /\ reply = "result" => e.kind \notin LogLevels
        /\ e.kind = "Result:" <=> reply = "result" /\ n + 1 = 4
        /\ reply = "result" /\ n + 1 = 3 => e.kind = "value"
        /\ reply = "result" /\ n + 1 = 2 => e.kind = "\r\n"
    BY <2>1 DEF ChunkElement
  <2>4. /\ wire' \in Seq(Parts) /\ Len(Stream') = len + 1
        /\ \A i \in 1 .. len : Stream'[i] = Stream[i]
        /\ \A i \in len + 1 .. len + 1 : Stream'[i] = <<e>>[i - len]
    BY <1>1, <1>3, <2>2, Sending DEF SessionInv
  <2>5. Stream'[len + 1] = e
    <3>1. Stream'[len + 1] = <<e>>[(len + 1) - len]
      BY <2>4
    <3>2. (len + 1) - len = 1
      OBVIOUS
    <3> QED
      BY <2>2, <3>1, <3>2
  <2>6. /\ \A i \in 1 .. len : Kind(Stream', i) = Kind(Stream, i)
        /\ \A i \in 1 .. len + 1 : i \in 1 .. len \/ i = len + 1
        /\ Kind(Stream', len + 1) = e.kind
    BY <2>4, <2>5 DEF Kind
  <2>7. SessionTypes'
    BY <1>1, <2>4 DEF SessionInv, SessionTypes
  <2>8. Values' /\ LogsAreWhole' /\ OnlyHandlersLog'
    <3>1. \A i \in len + 1 .. len + 1 :
            /\ ~Logged(Stream'[i])
            /\ Stream'[i].kind = "value" => Stream'[i].of = commands
            /\ reply = "result" => Stream'[i].kind \notin LogLevels
      BY <2>3, <2>5
    <3>2. len + 1 \in Nat /\ len <= len + 1
      OBVIOUS
    <3> QED
      BY <1>1, <1>3, <2>4, <3>1, <3>2, Growing
  <2>9. OnePrompt'
    BY <1>5, <2>2, <2>3, <2>4, <2>6 DEF OnePrompt, Kind
  <2>10. EchoEnds'
    <3> SUFFICES ASSUME host = "echo", ~(Len(output') >= AnswerLength + 2)
                 PROVE  \E i \in 1 .. Len(Stream') :
                          /\ Kind(Stream', i) = "\n\r"
                          /\ \A j \in 1 .. i : Kind(Stream', j) \notin {"Result:", "#", "#>"}
      BY <1>1 DEF EchoEnds, Kind
    <3>0. n < AnswerLength + 2
      BY <1>1, <1>2
    <3>1. CASE n + 1 = AnswerLength + 2
      <4>1. \A i \in 1 .. len : Kind(Stream, i) # "Result:"
        BY <1>1, <1>6, <3>1
      <4>2. /\ len + 1 \in 1 .. Len(Stream') /\ Kind(Stream', len + 1) = "\n\r"
            /\ \A j \in 1 .. len + 1 : Kind(Stream', j) \notin {"Result:", "#", "#>"}
        BY <1>5, <2>3, <2>4, <2>6, <3>1, <4>1
      <4> QED
        BY <4>2
    <3>2. CASE n + 1 < AnswerLength + 2
      <4>1. PICK i \in 1 .. len :
              /\ Kind(Stream, i) = "\n\r"
              /\ \A j \in 1 .. i : Kind(Stream, j) \notin {"Result:", "#", "#>"}
        BY <1>7, <3>2
      <4>2. i \in 1 .. Len(Stream') /\ \A j \in 1 .. i : j \in 1 .. len
        BY <2>4
      <4> QED
        BY <2>6, <4>1, <4>2
    <3> QED
      BY <1>1, <3>0, <3>1, <3>2
  <2>11. ValueFollows'
    <3> SUFFICES ASSUME NEW i \in 1 .. Len(Stream'), Kind(Stream', i) = "Result:"
                 PROVE  /\ reply = "result"
                        /\ \/ n = 3
                           \/ /\ n < 3
                              /\ \E j \in i + 1 .. Len(Stream') :
                                   /\ Kind(Stream', j) = "value"
                                   /\ \A k \in 1 .. j : Kind(Stream', k) # "#"
      BY <1>1, <1>2 DEF ValueFollows, Kind
    <3>1. CASE i = len + 1
      BY <2>3, <2>6, <3>1
    <3>2. CASE i \in 1 .. len
      <4>1. Kind(Stream, i) = "Result:"
        BY <2>6, <3>2
      <4>2. reply = "result" /\ n < 3
        BY <1>6, <3>2, <4>1
      <4>3. CASE n + 1 = 3
        <5>1. Kind(Stream', len + 1) = "value"
          BY <2>3, <2>6, <4>2, <4>3
        <5>2. \A k \in 1 .. len + 1 : Kind(Stream', k) # "#"
          BY <1>5, <2>3, <2>6
        <5>3. len + 1 \in i + 1 .. Len(Stream')
          BY <2>4, <3>2
        <5> QED
          BY <4>2, <5>1, <5>2, <5>3
      <4>4. CASE n + 1 < 3
        <5>1. PICK j \in i + 1 .. len :
                Kind(Stream, j) = "value" /\ \A k \in 1 .. j : Kind(Stream, k) # "#"
          BY <1>6, <3>2, <4>1, <4>4
        <5>2. /\ j \in i + 1 .. Len(Stream') /\ j \in 1 .. len
              /\ \A k \in 1 .. j : k \in 1 .. len
          BY <2>4, <3>2
        <5> QED
          BY <2>6, <4>2, <5>1, <5>2
      <4> QED
        BY <4>2, <4>3, <4>4
    <3> QED
      BY <2>4, <2>6, <3>1, <3>2
  <2>12. Unbroken'
    <3> SUFFICES ASSUME reply = "result", ~disturbed, results = {}, n < 4
                 PROVE  \E r \in 1 .. Len(Stream') : UnbrokenAt(r)'
      BY <1>1, <1>2 DEF Unbroken
    <3>1. CASE n = 3
      <4>1. Kind(Stream', len + 1) = "Result:"
        BY <2>3, <2>6, <3>1
      <4>2. Len(buffer) < len + 1 + 3 /\ len + 1 \in 1 .. Len(Stream') /\ Len(Stream') = len + 1 + 3 - n
        BY <1>3, <2>4, <3>1, StreamType DEF SessionInv
      <4>3. UnbrokenAt(len + 1)'
        BY <1>1, <1>2, <3>1, <4>1, <4>2 DEF UnbrokenAt, Kind
      <4> QED
        BY <4>2, <4>3
    <3>2. CASE n < 3
      <4>1. PICK r \in 1 .. len : UnbrokenAt(r)
        BY <1>8, <3>2
      <4>2. n \in {1, 2}
        BY <1>11, <3>2
      <4>3. /\ Len(buffer) < r + 3 /\ Kind(Stream, r) = "Result:" /\ len = r + 3 - (n + 1)
            /\ n = 1 => Kind(Stream, r + 1) = "value"
        BY <1>2, <1>3, <4>1, <4>2 DEF UnbrokenAt
      <4>4. /\ r \in 1 .. Len(Stream') /\ r \in 1 .. len /\ Len(Stream') = r + 3 - n
            /\ n = 2 => r + 1 = len + 1
            /\ n = 1 => r + 1 \in 1 .. len /\ r + 2 = len + 1
        BY <2>4, <4>2, <4>3
      <4>5. /\ Kind(Stream', r) = "Result:" /\ Kind(Stream', r + 1) = "value"
            /\ n = 1 => Kind(Stream', r + 2) = "\r\n"
        BY <2>3, <2>6, <4>2, <4>3, <4>4
      <4>6. UnbrokenAt(r)'
        <5>1. CASE n = 1
          BY <1>1, <1>2, <4>3, <4>4, <4>5, <5>1 DEF UnbrokenAt, Kind
        <5>2. CASE n = 2
          BY <1>1, <1>2, <4>3, <4>4, <4>5, <5>2 DEF UnbrokenAt, Kind
        <5> QED
          BY <4>2, <5>1, <5>2
      <4> QED
        BY <4>4, <4>6
    <3> QED
      BY <3>1, <3>2
  <2> QED
    BY <1>1, <1>9, <2>7, <2>8, <2>9, <2>10, <2>11, <2>12 DEF SessionInv
<1> QED
  BY <1>10, <1>11

\* What the node writes for a command, and after it has started.
LEMMA FourChunks ==
  ASSUME NEW a \in Seq(Parts), NEW b \in Seq(Parts), NEW c \in Seq(Parts), NEW d \in Seq(Parts)
  PROVE  LET s == <<a, b, c>> \o <<d>>
         IN  /\ s \in Seq(Seq(Parts)) /\ Len(s) = 4
             /\ s[1] = a /\ s[2] = b /\ s[3] = c /\ s[4] = d
<1>1. /\ <<a, b, c>> \in Seq(Seq(Parts)) /\ Len(<<a, b, c>>) = 3
      /\ <<a, b, c>>[1] = a /\ <<a, b, c>>[2] = b /\ <<a, b, c>>[3] = c
      /\ <<d>> \in Seq(Seq(Parts)) /\ Len(<<d>>) = 1 /\ <<d>>[1] = d
  BY TuplesAreSequences
<1> QED
  BY <1>1, ConcatProperties

LEMMA SevenChunks ==
  ASSUME NEW a \in Seq(Parts), NEW b \in Seq(Parts), NEW c \in Seq(Parts), NEW d \in Seq(Parts),
         NEW e \in Seq(Parts), NEW f \in Seq(Parts), NEW g \in Seq(Parts)
  PROVE  LET s == <<a, b, c>> \o <<d, e, f>> \o <<g>>
         IN  /\ s \in Seq(Seq(Parts)) /\ Len(s) = 7
             /\ s[1] = a /\ s[2] = b /\ s[3] = c /\ s[4] = d /\ s[5] = e /\ s[6] = f /\ s[7] = g
<1> DEFINE t == <<a, b, c>> \o <<d, e, f>>
<1>1. /\ <<a, b, c>> \in Seq(Seq(Parts)) /\ Len(<<a, b, c>>) = 3
      /\ <<a, b, c>>[1] = a /\ <<a, b, c>>[2] = b /\ <<a, b, c>>[3] = c
      /\ <<d, e, f>> \in Seq(Seq(Parts)) /\ Len(<<d, e, f>>) = 3
      /\ <<d, e, f>>[1] = d /\ <<d, e, f>>[2] = e /\ <<d, e, f>>[3] = f
      /\ <<g>> \in Seq(Seq(Parts)) /\ Len(<<g>>) = 1 /\ <<g>>[1] = g
  BY TuplesAreSequences
<1>2. /\ t \in Seq(Seq(Parts)) /\ Len(t) = 6
      /\ t[1] = a /\ t[2] = b /\ t[3] = c /\ t[4] = d /\ t[5] = e /\ t[6] = f
  BY <1>1, ConcatProperties
<1> DEFINE u == <<g>>
<1>3. u \in Seq(Seq(Parts)) /\ Len(u) = 1 /\ u[1] = g
  BY <1>1
<1> HIDE DEF t, u
<1>4. /\ t \o u \in Seq(Seq(Parts)) /\ Len(t \o u) = Len(t) + Len(u)
      /\ \A i \in 1 .. Len(t) + Len(u) :
           (t \o u)[i] = IF i <= Len(t) THEN t[i] ELSE u[i - Len(t)]
  BY <1>2, <1>3, ConcatProperties
<1>5. /\ Len(t) + Len(u) = 7
      /\ \A i \in 1 .. 6 : i \in 1 .. Len(t) + Len(u) /\ i <= Len(t)
      /\ 7 \in 1 .. Len(t) + Len(u) /\ ~(7 <= Len(t)) /\ 7 - Len(t) = 1
  BY <1>2, <1>3
<1>a. \A i \in 1 .. 6 : (t \o u)[i] = t[i]
  BY <1>4, <1>5
<1>b. (t \o u)[7] = u[1]
  <2>1. (t \o u)[7] = u[7 - Len(t)]
    BY <1>4, <1>5
  <2> QED
    BY <1>5, <2>1
<1>c. /\ (t \o u)[1] = a /\ (t \o u)[2] = b /\ (t \o u)[3] = c
      /\ (t \o u)[4] = d /\ (t \o u)[5] = e /\ (t \o u)[6] = f
  <2> HIDE DEF u
  <2>1. /\ (t \o u)[1] = t[1] /\ (t \o u)[2] = t[2] /\ (t \o u)[3] = t[3]
        /\ (t \o u)[4] = t[4] /\ (t \o u)[5] = t[5] /\ (t \o u)[6] = t[6]
    <3>1. 1 \in 1 .. 6 /\ 2 \in 1 .. 6 /\ 3 \in 1 .. 6 /\ 4 \in 1 .. 6 /\ 5 \in 1 .. 6 /\ 6 \in 1 .. 6
      OBVIOUS
    <3> DEFINE w == t \o u
    <3>2. \A i \in 1 .. 6 : w[i] = t[i]
      BY <1>a
    <3> HIDE DEF w
    <3>3. w[1] = t[1] /\ w[2] = t[2] /\ w[3] = t[3] /\ w[4] = t[4] /\ w[5] = t[5] /\ w[6] = t[6]
      BY <3>1, <3>2
    <3> QED
      BY <3>3 DEF w
  <2> QED
    BY <1>2, <2>1
<1>d. LET s == t \o u
      IN  /\ s \in Seq(Seq(Parts)) /\ Len(s) = 7
          /\ s[1] = a /\ s[2] = b /\ s[3] = c /\ s[4] = d /\ s[5] = e /\ s[6] = f /\ s[7] = g
  BY <1>3, <1>4, <1>5, <1>b, <1>c
<1> QED
  BY <1>d DEF t, u

LEMMA PromptIsAChunk == Prompt \in Seq(Parts)
<1>1. Part("#", 0) \in Parts /\ Part("#>", 0) \in Parts
  BY PartIsAPart DEF Kinds
<1> QED
  BY <1>1, TuplesAreSequences DEF Prompt

\* A line of one element per chunk.
LEMMA LineIsAnAnswer ==
  ASSUME NEW k1 \in Kinds, NEW k2 \in Kinds, NEW k3 \in Kinds, NEW n \in Nat
  PROVE  /\ << <<Part(k1, n)>>, <<Part(k2, n)>>, <<Part(k3, n)>> >> \in Seq(Seq(Parts))
         /\ <<Part(k1, n)>> \in Seq(Parts) /\ <<Part(k2, n)>> \in Seq(Parts)
         /\ <<Part(k3, n)>> \in Seq(Parts)
<1>1. Part(k1, n) \in Parts /\ Part(k2, n) \in Parts /\ Part(k3, n) \in Parts
  BY PartIsAPart
<1>2. /\ <<Part(k1, n)>> \in Seq(Parts) /\ <<Part(k2, n)>> \in Seq(Parts)
      /\ <<Part(k3, n)>> \in Seq(Parts)
  BY <1>1, TuplesAreSequences
<1> QED
  BY <1>2, TuplesAreSequences

LEMMA SessionInvInit == SessionInit => SessionInv
<1> SUFFICES ASSUME SessionInit PROVE SessionInv
  OBVIOUS
<1> DEFINE a == <<Part("INFO:", 0)>>
           b == <<Part("text", 0)>>
           c == <<Part("\r\n", 0)>>
<1>1. output = <<a, b, c>> \o <<Prompt>>
  BY DEF SessionInit, WriteLine
<1>2. a \in Seq(Parts) /\ b \in Seq(Parts) /\ c \in Seq(Parts) /\ Prompt \in Seq(Parts)
  BY PromptIsAChunk, LineIsAnAnswer DEF Kinds, LogLevels, Newlines
<1> HIDE DEF a, b, c
<1>3. /\ output \in Seq(Seq(Parts)) /\ Len(output) = 4
      /\ output[1] = a /\ output[2] = b /\ output[3] = c /\ output[4] = Prompt
  BY <1>1, <1>2, FourChunks
<1>4. AnswerLength = 3 /\ commands = 0 /\ reply = "nothing" /\ ~sent /\ host = "waiting"
  BY DEF SessionInit, AnswerLength
<1>5. /\ ChunkFromEnd(4) = a /\ ChunkFromEnd(3) = b /\ ChunkFromEnd(2) = c
      /\ ChunkFromEnd(1) = Prompt
  <2>1. KindFromEnd(4) = "INFO:" /\ KindFromEnd(3) = "text" /\ KindFromEnd(2) = "\r\n"
    BY <1>4 DEF KindFromEnd
  <2> QED
    BY <1>4, <2>1 DEF ChunkFromEnd, a, b, c
<1>6. EndOfAnswer
  <2>1. ASSUME NEW i \in 1 .. Len(output) PROVE output[i] = ChunkFromEnd(Len(output) - i + 1)
    <3>1. /\ i \in {1, 2, 3, 4}
          /\ Len(output) - i + 1 = 5 - i
      BY <1>3
    <3> QED
      BY <1>3, <1>5, <3>1
  <2>2. Len(output) <= AnswerLength + 4
    BY <1>3, <1>4
  <2> QED
    BY <2>1, <2>2 DEF EndOfAnswer
<1>7. /\ buffer = <<>> /\ wire = <<>> /\ buffer \in Seq(Parts) /\ wire \in Seq(Parts)
      /\ buffer \o wire = <<>> /\ Len(<<>>) = 0
  <2>1. buffer = <<>> /\ wire = <<>>
    BY DEF SessionInit
  <2> QED
    BY <2>1, EmptySeq, ConcatEmptySeq
<1>8. Stream = <<>> /\ \A i \in 1 .. Len(Stream) : FALSE
  <2>1. Stream = <<>>
    BY <1>7 DEF Stream
  <2>2. 1 .. Len(Stream) = 1 .. 0
    BY <1>7, <2>1
  <2>3. \A i \in 1 .. 0 : FALSE
    OBVIOUS
  <2>4. ASSUME NEW i \in 1 .. Len(Stream) PROVE FALSE
    <3>1. i \in 1 .. 0
      BY <2>2
    <3> QED
      BY <2>3, <3>1
  <2> QED
    BY <2>1, <2>4
<1>9. SessionTypes
  <2>1. /\ sent \in BOOLEAN /\ disturbed \in BOOLEAN /\ host \in {"waiting", "ready", "echo"}
        /\ commands \in Nat /\ reply \in Replies
    BY DEF SessionInit, Replies
  <2> QED
    BY <1>3, <1>4, <1>7, <2>1 DEF SessionTypes
<1>10. output # <<>>
  BY <1>3
<1>11. Quiet /\ OnePrompt /\ EchoEnds /\ Unbroken
  BY <1>4, <1>8, <1>10 DEF Quiet, OnePrompt, EchoEnds, Unbroken
<1>12. Values /\ ValueFollows /\ LogsAreWhole /\ OnlyHandlersLog
  BY <1>8 DEF Values, ValueFollows, LogsAreWhole, OnlyHandlersLog
<1>13. ResultOfItsCommand /\ ResultLostOnlyToALog
  BY <1>4 DEF SessionInit, ResultOfItsCommand, ResultLostOnlyToALog
<1> QED
  BY <1>6, <1>9, <1>11, <1>12, <1>13 DEF SessionInv

\* The echo, the answer and the prompt, seen from their end.
LEMMA AnswerIsComplete ==
  ASSUME commands \in Nat \ {0}, NEW what \in Replies, reply' = what, commands' = commands,
         output' = << <<Part("echo", commands)>>, <<Part("echo", commands)>>,
                      <<Part("\n\r", commands)>> >> \o Answer(what, commands) \o <<Prompt>>
  PROVE  /\ output' \in Seq(Seq(Parts)) /\ EndOfAnswer'
         /\ Len(output') = AnswerLength' + 4 /\ AnswerLength' \in {0, 3}
         /\ what = "result" => AnswerLength' = 3
<1> DEFINE n == commands
           echo == <<Part("echo", n)>>
           newline == <<Part("\n\r", n)>>
<1>1. /\ echo \in Seq(Parts) /\ newline \in Seq(Parts) /\ Prompt \in Seq(Parts)
  BY PromptIsAChunk, LineIsAnAnswer DEF Kinds, Newlines
<1>2. AnswerLength' = IF what = "nothing" THEN 0 ELSE 3
  BY DEF AnswerLength
<1>3. \A k \in Nat : ChunkFromEnd(k)' = IF k = 1 THEN Prompt ELSE <<Part(KindFromEnd(k)', n)>>
  BY DEF ChunkFromEnd
<1>4. \A k \in Nat : k > AnswerLength' + 2 => KindFromEnd(k)' = "echo"
  BY <1>2 DEF KindFromEnd
<1>5. \A k \in Nat : k = AnswerLength' + 2 => KindFromEnd(k)' = "\n\r"
  BY <1>2 DEF KindFromEnd
<1>6. CASE what = "nothing"
  <2>1. Answer(what, n) = <<>>
    BY <1>6 DEF Answer
  <2>2. <<echo, echo, newline>> \in Seq(Seq(Parts))
    BY <1>1, TuplesAreSequences
  <2>3. output' = <<echo, echo, newline>> \o <<Prompt>>
    BY <2>1, <2>2, ConcatEmptySeq
  <2>4. ChunkFromEnd(1)' = Prompt /\ ChunkFromEnd(2)' = newline /\ ChunkFromEnd(3)' = echo
        /\ ChunkFromEnd(4)' = echo
    BY <1>2, <1>3, <1>4, <1>5, <1>6
  <2> HIDE DEF echo, newline
  <2>5. /\ output' \in Seq(Seq(Parts)) /\ Len(output') = 4
        /\ output'[1] = echo /\ output'[2] = echo /\ output'[3] = newline /\ output'[4] = Prompt
    <3> DEFINE s == <<echo, echo, newline>> \o <<Prompt>>
    <3>1. /\ s \in Seq(Seq(Parts)) /\ Len(s) = 4
          /\ s[1] = echo /\ s[2] = echo /\ s[3] = newline /\ s[4] = Prompt
      BY <1>1, FourChunks
    <3> QED
      BY <2>3, <3>1
  <2>6. ASSUME NEW i \in 1 .. 4 PROVE output'[i] = ChunkFromEnd(4 - i + 1)'
    <3>1. i \in {1, 2, 3, 4}
      OBVIOUS
    <3> QED
      BY <2>4, <2>5, <3>1
  <2> QED
    BY <1>2, <1>6, <2>5, <2>6 DEF EndOfAnswer
<1>7. CASE what # "nothing"
  <2>1. PICK k1 \in Kinds, k2 \in Kinds :
          /\ Answer(what, n) = << <<Part(k1, n)>>, <<Part(k2, n)>>, <<Part("\r\n", n)>> >>
          /\ KindFromEnd(4)' = k1 /\ KindFromEnd(3)' = k2 /\ KindFromEnd(2)' = "\r\n"
    <3>1. CASE what = "result"
      <4>1. Answer(what, n) =
              << <<Part("Result:", n)>>, <<Part("value", n)>>, <<Part("\r\n", n)>> >>
        BY <3>1 DEF Answer
      <4>2. /\ KindFromEnd(4)' = "Result:" /\ KindFromEnd(3)' = "value"
            /\ KindFromEnd(2)' = "\r\n"
        BY <1>2, <3>1 DEF KindFromEnd
      <4> QED
        BY <4>1, <4>2 DEF Kinds
    <3>2. CASE what = "error"
      <4>1. Answer(what, n) =
              << <<Part("ERROR:", n)>>, <<Part("text", n)>>, <<Part("\r\n", n)>> >>
        BY <3>2 DEF Answer, WriteLine
      <4>2. /\ KindFromEnd(4)' = "ERROR:" /\ KindFromEnd(3)' = "text"
            /\ KindFromEnd(2)' = "\r\n"
        BY <1>2, <3>2 DEF KindFromEnd
      <4> QED
        BY <4>1, <4>2 DEF Kinds, LogLevels
    <3>3. CASE what = "text"
      <4>1. Answer(what, n) =
              << <<Part("text", n)>>, <<Part("text", n)>>, <<Part("\r\n", n)>> >>
        BY <3>3 DEF Answer
      <4>2. /\ KindFromEnd(4)' = "text" /\ KindFromEnd(3)' = "text"
            /\ KindFromEnd(2)' = "\r\n"
        BY <1>2, <3>3 DEF KindFromEnd
      <4> QED
        BY <4>1, <4>2 DEF Kinds
    <3> QED
      BY <1>7, <3>1, <3>2, <3>3 DEF Replies
  <2> DEFINE a == <<Part(k1, n)>>
             b == <<Part(k2, n)>>
             c == <<Part("\r\n", n)>>
  <2>2. a \in Seq(Parts) /\ b \in Seq(Parts) /\ c \in Seq(Parts)
    BY LineIsAnAnswer DEF Kinds, Newlines
  <2>3. output' = <<echo, echo, newline>> \o <<a, b, c>> \o <<Prompt>>
    BY <2>1
  <2>4. /\ ChunkFromEnd(1)' = Prompt /\ ChunkFromEnd(2)' = c /\ ChunkFromEnd(3)' = b
        /\ ChunkFromEnd(4)' = a /\ ChunkFromEnd(5)' = newline /\ ChunkFromEnd(6)' = echo
        /\ ChunkFromEnd(7)' = echo
    BY <1>2, <1>3, <1>4, <1>5, <1>7, <2>1
  <2> HIDE DEF echo, newline, a, b, c
  <2>5. /\ output' \in Seq(Seq(Parts)) /\ Len(output') = 7
        /\ output'[1] = echo /\ output'[2] = echo /\ output'[3] = newline
        /\ output'[4] = a /\ output'[5] = b /\ output'[6] = c /\ output'[7] = Prompt
    <3> DEFINE s == <<echo, echo, newline>> \o <<a, b, c>> \o <<Prompt>>
    <3>1. /\ s \in Seq(Seq(Parts)) /\ Len(s) = 7
          /\ s[1] = echo /\ s[2] = echo /\ s[3] = newline
          /\ s[4] = a /\ s[5] = b /\ s[6] = c /\ s[7] = Prompt
      BY <1>1, <2>2, SevenChunks
    <3> QED
      BY <2>3, <3>1
  <2>6. ASSUME NEW i \in 1 .. 7 PROVE output'[i] = ChunkFromEnd(7 - i + 1)'
    <3>1. i \in {1, 2, 3, 4, 5, 6, 7}
      OBVIOUS
    <3> QED
      BY <2>4, <2>5, <3>1
  <2> QED
    <3>1. AnswerLength' = 3
      BY <1>2, <1>7
    <3>2. EndOfAnswer'
      BY <2>5, <2>6, <3>1 DEF EndOfAnswer
    <3> QED
      BY <2>5, <3>1, <3>2
<1> QED
  BY <1>6, <1>7

\* The node takes a command: only logged lines are on their way to the host.
LEMMA ReceiveStep == SessionInv /\ ReceiveCommand => SessionInv'
<1> SUFFICES ASSUME SessionInv, ReceiveCommand PROVE SessionInv'
  OBVIOUS
<1>1. PICK what \in Replies :
        /\ reply' = what
        /\ output' = << <<Part("echo", commands)>>, <<Part("echo", commands)>>,
                        <<Part("\n\r", commands)>> >> \o Answer(what, commands) \o <<Prompt>>
  BY DEF ReceiveCommand
<1>2. /\ sent /\ sent' = FALSE /\ disturbed' = FALSE
      /\ UNCHANGED <<wire, host, buffer, commands, results>>
  BY DEF ReceiveCommand
<1>3. commands \in Nat \ {0} /\ host # "ready"
  BY <1>2 DEF SessionInv, SessionTypes, Quiet
<1>4. /\ output' \in Seq(Seq(Parts)) /\ EndOfAnswer'
      /\ Len(output') = AnswerLength' + 4 /\ AnswerLength' \in {0, 3}
      /\ what = "result" => AnswerLength' = 3
  BY <1>1, <1>2, <1>3, AnswerIsComplete
<1>5. Stream' = Stream
  BY <1>2 DEF Stream
<1>6. \A i \in 1 .. Len(Stream) : Kind(Stream, i) \in {"ERROR:", "text", "\r\n"} /\ Stream[i].of = 0
  BY <1>2, LogPartKinds DEF SessionInv, Quiet, Kind
<1>7. output' # <<>>
  BY <1>4
<1>8. SessionTypes'
  BY <1>1, <1>2, <1>3, <1>4 DEF SessionInv, SessionTypes
<1>9. Quiet'
  BY <1>2, <1>3 DEF Quiet
<1>10. OnePrompt'
  <2>1. \A i \in 1 .. Len(Stream') : Kind(Stream', i) \notin {"#", "#>"}
    BY <1>5, <1>6
  <2> QED
    BY <1>7, <2>1 DEF OnePrompt, Kind
<1>11. EchoEnds'
  <2>1. AnswerLength' \in Nat
    BY <1>4
  <2>2. PICK m \in Nat : m = AnswerLength'
    BY <2>1
  <2>3. Len(output') = m + 4
    BY <1>4, <2>2
  <2>4. Len(output') >= m + 2
    BY <2>3
  <2> QED
    BY <2>2, <2>4 DEF EchoEnds
<1>12. Values' /\ ValueFollows' /\ OnlyHandlersLog'
  BY <1>5, <1>6 DEF Values, ValueFollows, OnlyHandlersLog, Kind, Logged, LogLevels
<1>13. LogsAreWhole'
  BY <1>5 DEF SessionInv, LogsAreWhole, Kind, Logged
<1>14. Unbroken'
  <2>1. reply' = "result" => ~(Len(output') < 4)
    BY <1>1, <1>4
  <2> QED
    BY <2>1 DEF Unbroken
<1>15. ResultOfItsCommand' /\ ResultLostOnlyToALog'
  BY <1>2, <1>3 DEF SessionInv, ResultOfItsCommand, ResultLostOnlyToALog
<1> QED
  BY <1>4, <1>8, <1>9, <1>10, <1>11, <1>12, <1>13, <1>14, <1>15 DEF SessionInv

\* The script writes a command: the node has nothing to say before it gets it.
LEMMA CommandStep == SessionInv /\ WriteCommand => SessionInv'
<1> SUFFICES ASSUME SessionInv, WriteCommand PROVE SessionInv'
  OBVIOUS
<1>1. /\ host = "ready" /\ host' = "echo" /\ sent' = TRUE /\ results' = {}
      /\ commands' = commands + 1
      /\ UNCHANGED <<output, wire, buffer, reply, disturbed>>
  BY DEF WriteCommand
<1>2. output = <<>> /\ \A i \in 1 .. Len(Stream) : Stream[i] \in LogParts
  BY <1>1 DEF SessionInv, Quiet
<1>3. \A i \in 1 .. Len(Stream) : Kind(Stream, i) \in {"ERROR:", "text", "\r\n"} /\ Stream[i].of = 0
  BY <1>2, LogPartKinds DEF Kind
<1>4. Stream' = Stream
  BY <1>1 DEF Stream
<1>5. commands \in Nat /\ buffer = <<>>
  BY <1>1 DEF SessionInv, SessionTypes
<1>6. SessionTypes'
  BY <1>1, <1>5 DEF SessionInv, SessionTypes
<1>7. EndOfAnswer'
  <2>1. output' = <<>> /\ Len(<<>>) = 0 /\ \A i \in 1 .. 0 : FALSE
    BY <1>1, <1>2
  <2>2. AnswerLength' \in {0, 3}
    BY DEF AnswerLength
  <2>3. Len(output') = 0
    BY <2>1
  <2>5. Len(output') <= AnswerLength' + 4
    <3>1. PICK m \in Nat : m = AnswerLength'
      BY <2>2
    <3>2. 0 <= m + 4
      OBVIOUS
    <3>3. Len(output') <= m + 4
      BY <2>3, <3>2
    <3> QED
      BY <3>1, <3>3
  <2>4. ASSUME NEW i \in 1 .. Len(output') PROVE FALSE
    BY <2>3, <2>4
  <2> QED
    BY <2>4, <2>5 DEF EndOfAnswer
<1>8. Quiet' /\ OnePrompt' /\ EchoEnds' /\ Unbroken'
  BY <1>1, <1>2, <1>4 DEF Quiet, OnePrompt, EchoEnds, Unbroken
<1>9. Values' /\ ValueFollows' /\ OnlyHandlersLog'
  BY <1>3, <1>4 DEF Values, ValueFollows, OnlyHandlersLog, Kind, Logged, LogLevels
<1>10. LogsAreWhole'
  BY <1>4 DEF SessionInv, LogsAreWhole, Kind, Logged
<1>11. ResultOfItsCommand' /\ ResultLostOnlyToALog'
  BY <1>1 DEF ResultOfItsCommand, ResultLostOnlyToALog
<1> QED
  BY <1>6, <1>7, <1>8, <1>9, <1>10, <1>11 DEF SessionInv

\* The host looks for the end of the echo.
LEMMA EchoStep == SessionInv /\ ReadEcho => SessionInv'
<1> SUFFICES ASSUME SessionInv, ReadEcho PROVE SessionInv'
  OBVIOUS
<1>1. /\ host = "echo" /\ wire # <<>> /\ wire' = Tail(wire)
      /\ host' = IF Head(wire).kind \in Newlines THEN "waiting" ELSE "echo"
      /\ UNCHANGED <<output, sent, buffer, commands, reply, results, disturbed>>
  BY DEF ReadEcho
<1>2. buffer = <<>> /\ commands # 0
  BY <1>1 DEF SessionInv, SessionTypes
<1> DEFINE b == Append(buffer, Head(wire))
<1>3. /\ wire' \in Seq(Parts) /\ Len(b) = Len(buffer) + 1 /\ Len(b) \in 1 .. Len(Stream)
      /\ \A i \in 1 .. Len(b) : b[i] = Stream[i]
      /\ Len(Stream') = Len(Stream) - Len(b)
      /\ \A i \in 1 .. Len(Stream') : Stream'[i] = Stream[i + Len(b)]
  BY <1>1, <1>2, Taking DEF SessionInv
<1>4. Len(buffer) = 0 /\ Len(b) = 1 /\ b[1] = Head(wire)
  BY <1>2
<1> HIDE DEF b
<1>5. PICK len \in Nat : len = Len(Stream)
  BY StreamType DEF SessionInv
<1>6. /\ len >= 1 /\ Len(Stream') = len - 1
      /\ \A i \in 1 .. len - 1 : Stream'[i] = Stream[i + 1]
      /\ Stream[1] = Head(wire)
  BY <1>3, <1>4, <1>5
<1>7. \A i \in 1 .. len - 1 : Kind(Stream', i) = Kind(Stream, i + 1)
  <2>1. ASSUME NEW i \in 1 .. len - 1 PROVE Stream'[i].kind = Stream[i + 1].kind
    BY <1>6
  <2> QED
    BY <2>1 DEF Kind
<1>18. /\ 1 \in 1 .. Len(Stream) /\ Len(Stream') = Len(Stream) - 1
       /\ \A i \in 1 .. Len(Stream') : Stream'[i] = Stream[i + 1]
       /\ buffer' = <<>>
  BY <1>1, <1>2, <1>5, <1>6
<1>8. Values' /\ ValueFollows' /\ LogsAreWhole' /\ OnlyHandlersLog'
  <2>1. UNCHANGED <<output, sent, commands, reply>>
    BY <1>1
  <2> QED
    BY <1>18, <2>1, Dropping
<1>9. host' \in {"waiting", "echo"} /\ (host' = "echo" => Kind(Stream, 1) # "\n\r")
  BY <1>1, <1>6 DEF Kind, Newlines
<1>10. SessionTypes'
  BY <1>1, <1>2, <1>3, <1>9 DEF SessionInv, SessionTypes
<1>11. EndOfAnswer'
  BY <1>1 DEF SessionInv, EndOfAnswer, AnswerLength, ChunkFromEnd, KindFromEnd
<1>12. Quiet'
  <2>1. \A i \in 1 .. len - 1 : i + 1 \in 1 .. len
    OBVIOUS
  <2> QED
    BY <1>1, <1>5, <1>6, <1>9, <2>1 DEF SessionInv, Quiet
<1>13. ~sent /\ ~(Len(output) >= AnswerLength + 2) =>
         \E i \in 1 .. len :
           /\ Kind(Stream, i) = "\n\r"
           /\ \A j \in 1 .. i : Kind(Stream, j) \notin {"Result:", "#", "#>"}
  BY <1>1, <1>5 DEF SessionInv, EchoEnds
<1>14. OnePrompt'
  <2> SUFFICES ASSUME ~sent
               PROVE  IF output # <<>>
                      THEN \A i \in 1 .. len - 1 : Kind(Stream', i) \notin {"#", "#>"}
                      ELSE \E p \in 1 .. len - 1 : PromptAt(p)'
    BY <1>1, <1>6 DEF OnePrompt, Kind
  <2>1. CASE output # <<>>
    <3>1. \A i \in 1 .. len - 1 : i + 1 \in 1 .. len
      OBVIOUS
    <3> QED
      BY <1>1, <1>5, <1>7, <2>1, <3>1 DEF SessionInv, OnePrompt
  <2>2. CASE output = <<>>
    <3>1. PICK p \in 1 .. len : PromptAt(p)
      BY <1>1, <1>5, <2>2 DEF SessionInv, OnePrompt
    <3>2. ~(Len(output) >= AnswerLength + 2)
      <4>1. AnswerLength \in {0, 3} /\ Len(output) = 0
        BY <2>2 DEF AnswerLength
      <4> QED
        BY <4>1
    <3>3. p # 1
      BY <1>13, <3>1, <3>2 DEF PromptAt
    <3>4. p \in 1 .. Len(Stream) /\ p > 1
      BY <1>5, <3>3
    <3>5. \E q \in 1 .. Len(Stream') : PromptAt(q)'
      BY <1>18, <3>1, <3>4, PromptMoves
    <3> QED
      BY <1>6, <2>2, <3>5
  <2> QED
    BY <2>1, <2>2
<1>15. EchoEnds'
  <2> SUFFICES ASSUME host' = "echo", ~sent, ~(Len(output) >= AnswerLength + 2)
               PROVE  \E i \in 1 .. len - 1 :
                        /\ Kind(Stream', i) = "\n\r"
                        /\ \A j \in 1 .. i : Kind(Stream', j) \notin {"Result:", "#", "#>"}
    BY <1>1, <1>6 DEF EchoEnds, Kind, AnswerLength
  <2>1. PICK i \in 1 .. len :
          /\ Kind(Stream, i) = "\n\r"
          /\ \A j \in 1 .. i : Kind(Stream, j) \notin {"Result:", "#", "#>"}
    BY <1>13
  <2>2. i # 1
    BY <1>9, <2>1
  <2>3. /\ i - 1 \in 1 .. len - 1 /\ (i - 1) + 1 = i
        /\ \A j \in 1 .. i - 1 : j \in 1 .. len - 1 /\ j + 1 \in 1 .. i
    BY <2>2
  <2>4. /\ Kind(Stream', i - 1) = "\n\r"
        /\ \A j \in 1 .. i - 1 : Kind(Stream', j) \notin {"Result:", "#", "#>"}
    BY <1>7, <2>1, <2>3
  <2> QED
    BY <2>3, <2>4
<1>16. Unbroken'
  <2> SUFFICES ASSUME reply = "result", ~sent, ~disturbed, results = {}, Len(output) < 4
               PROVE  \E r \in 1 .. len - 1 : UnbrokenAt(r)'
    BY <1>1, <1>6 DEF Unbroken
  <2>1. PICK r \in 1 .. len : UnbrokenAt(r)
    BY <1>1, <1>5 DEF SessionInv, Unbroken
  <2>2. PICK n \in Nat : n = Len(output)
    BY StreamType DEF SessionInv
  <2>3. ~(Len(output) >= AnswerLength + 2)
    BY <1>2, <2>2 DEF AnswerLength
  <2>4. /\ Kind(Stream, r) = "Result:"
        /\ n > 0 => len = r + 3 - n
        /\ n < 3 => len >= r + 1 /\ Kind(Stream, r + 1) = "value"
        /\ n < 2 => len >= r + 2 /\ Kind(Stream, r + 2) = "\r\n"
        /\ n < 1 => len >= r + 4 /\ Kind(Stream, r + 3) = "#" /\ Kind(Stream, r + 4) = "#>"
    BY <1>5, <2>1, <2>2 DEF UnbrokenAt
  <2>5. r # 1
    BY <1>13, <2>3, <2>4
  <2>6. r \in 1 .. Len(Stream) /\ r > 1
    BY <1>5, <2>5
  <2>7. \E q \in 1 .. Len(Stream') : UnbrokenAt(q)'
    BY <1>1, <1>18, <2>1, <2>6, ResultMoves
  <2> QED
    BY <1>6, <2>7
<1>17. ResultOfItsCommand' /\ ResultLostOnlyToALog'
  BY <1>1, <1>9 DEF SessionInv, ResultOfItsCommand, ResultLostOnlyToALog
<1> QED
  BY <1>8, <1>10, <1>11, <1>12, <1>14, <1>15, <1>16, <1>17 DEF SessionInv

\* The host tries its patterns on what it has read and one element more.
LEMMA ProcessStep == SessionInv /\ ProcessInput => SessionInv'
<1> SUFFICES ASSUME SessionInv, ProcessInput PROVE SessionInv'
  OBVIOUS
<1> DEFINE b == Append(buffer, Head(wire))
<1>1. /\ host = "waiting" /\ wire # <<>> /\ wire' = Tail(wire)
      /\ buffer' = IF IsResult(b) \/ IsPrompt(b) \/ IsLog(b) THEN <<>> ELSE b
      /\ results' = IF IsResult(b) THEN results \cup {Content(b)} ELSE results
      /\ host' = IF ~IsResult(b) /\ IsPrompt(b) THEN "ready" ELSE "waiting"
      /\ UNCHANGED <<output, sent, commands, reply, disturbed>>
  BY DEF ProcessInput
<1>2. /\ wire' \in Seq(Parts) /\ b \in Seq(Parts)
      /\ Len(b) = Len(buffer) + 1 /\ Len(b) \in 1 .. Len(Stream)
      /\ \A i \in 1 .. Len(b) : b[i] = Stream[i]
      /\ buffer' = b => Stream' = Stream
      /\ buffer' = <<>> =>
           /\ Stream' \in Seq(Parts) /\ Len(Stream') = Len(Stream) - Len(b)
           /\ \A i \in 1 .. Len(Stream') : Stream'[i] = Stream[i + Len(b)]
  BY <1>1, Taking DEF SessionInv
<1> HIDE DEF b
<1>3. PICK len \in Nat : len = Len(Stream)
  BY StreamType DEF SessionInv
<1>4. PICK m \in Nat : m = Len(b) /\ m \in 1 .. len
  BY <1>2, <1>3
<1>5. PICK n \in Nat : n = Len(output) /\ (n = 0 <=> output = <<>>)
  <2>1. PICK n \in Nat : n = Len(output)
    BY StreamType DEF SessionInv
  <2>2. n = 0 <=> output = <<>>
    BY <2>1, EmptySeq DEF SessionInv, SessionTypes
  <2> QED
    BY <2>1, <2>2
<1>6. \A i \in 1 .. m : Kind(b, i) = Kind(Stream, i)
  BY <1>2, <1>4 DEF Kind
<1>7. /\ Len(buffer) = m - 1 /\ b # <<>>
  <2>1. Len(buffer) = m - 1
    <3>1. PICK k \in Nat : k = Len(buffer)
      BY StreamType DEF SessionInv
    <3> QED
      BY <1>2, <1>4, <3>1
  <2>2. b # <<>>
    BY <1>2, <1>4, EmptySeq
  <2> QED
    BY <2>1, <2>2
<1>8. /\ IsPrompt(b) <=> Kind(Stream, m) = "#>"
      /\ IsResult(b) => Kind(Stream, m) = "#"
      /\ IsLog(b) => Kind(Stream, m) = "\r\n"
  BY <1>4, <1>6, <1>7 DEF IsPrompt, IsResult, IsLog
<1>9. /\ SessionTypes' /\ EndOfAnswer' /\ EchoEnds'
  <2>1. buffer' \in Seq(Parts) /\ (host' # "waiting" => buffer' = <<>>)
    <3>1. <<>> \in Seq(Parts)
      BY EmptySeq
    <3> QED
      BY <1>1, <1>2, <3>1
  <2>2. host' \in {"waiting", "ready"}
    BY <1>1
  <2>3. SessionTypes'
    BY <1>1, <1>2, <2>1, <2>2 DEF SessionInv, SessionTypes
  <2>4. EndOfAnswer'
    BY <1>1 DEF SessionInv, EndOfAnswer, AnswerLength, ChunkFromEnd, KindFromEnd
  <2>5. EchoEnds'
    BY <2>2 DEF EchoEnds
  <2> QED
    BY <2>3, <2>4, <2>5
\* A "#" or a "#>" is neither logged nor in front of an answer that is being written.
<1>10. Kind(Stream, m) \in {"#", "#>"} => ~sent /\ output = <<>>
  <2> SUFFICES ASSUME Kind(Stream, m) \in {"#", "#>"} PROVE ~sent /\ output = <<>>
    OBVIOUS
  <2>1. m \in 1 .. Len(Stream)
    BY <1>3, <1>4
  <2>2. ~sent
    <3>1. Stream[m] \notin LogParts
      BY LogPartKinds DEF Kind
    <3> QED
      BY <2>1, <3>1 DEF SessionInv, Quiet
  <2>3. output = <<>>
    BY <1>1, <2>1, <2>2 DEF SessionInv, OnePrompt
  <2> QED
    BY <2>2, <2>3
\* The prompt that is on its way is not in front of this element.
<1>11. ASSUME ~sent, output = <<>>
       PROVE  \E p \in 1 .. len : p >= m /\ PromptAt(p)
  <2>1. PICK p \in 1 .. len : PromptAt(p)
    BY <1>1, <1>3, <1>11 DEF SessionInv, OnePrompt
  <2>2. p > Len(buffer)
    BY <2>1 DEF PromptAt
  <2>3. p >= m
    BY <1>4, <1>7, <2>2
  <2> QED
    BY <2>1, <2>3
<1>12. CASE ~IsResult(b) /\ ~IsPrompt(b) /\ ~IsLog(b)
  <2>1. /\ buffer' = b /\ Stream' = Stream /\ results' = results /\ host' = "waiting"
    BY <1>1, <1>2, <1>12
  <2>2. Quiet' /\ Values' /\ LogsAreWhole'
    BY <1>1, <2>1 DEF SessionInv, Quiet, Values, LogsAreWhole, Kind
  <2>3. ValueFollows' /\ OnlyHandlersLog'
    BY <1>1, <2>1 DEF SessionInv, ValueFollows, OnlyHandlersLog, Kind
  <2>4. OnePrompt'
    <3> SUFFICES ASSUME ~sent
                 PROVE  IF output # <<>>
                        THEN \A i \in 1 .. len : Kind(Stream, i) \notin {"#", "#>"}
                        ELSE \E p \in 1 .. len : PromptAt(p)'
      BY <1>1, <1>3, <2>1 DEF OnePrompt, Kind
    <3>1. CASE output # <<>>
      BY <1>1, <1>3, <3>1 DEF SessionInv, OnePrompt
    <3>2. CASE output = <<>>
      <4>1. PICK p \in 1 .. len : p >= m /\ PromptAt(p)
        BY <1>11, <3>2
      <4>2. p # m
        BY <1>8, <1>12, <4>1 DEF PromptAt
      <4>3. p > Len(buffer')
        BY <1>4, <2>1, <4>1, <4>2
      <4>4. PromptAt(p)'
        BY <2>1, <4>1, <4>3 DEF PromptAt, Kind
      <4> QED
        BY <3>2, <4>4
    <3> QED
      BY <3>1, <3>2
  <2>5. Unbroken'
    <3> SUFFICES ASSUME reply = "result", ~sent, ~disturbed, results = {}, Len(output) < 4
                 PROVE  \E r \in 1 .. len : UnbrokenAt(r)'
      BY <1>1, <1>3, <2>1 DEF Unbroken
    <3>1. PICK r \in 1 .. len : UnbrokenAt(r)
      BY <1>1, <1>3 DEF SessionInv, Unbroken
    <3>2. /\ m - 1 < r + 3 /\ Kind(Stream, r) = "Result:"
          /\ n > 0 => len = r + 3 - n
          /\ n < 2 => Kind(Stream, r + 2) = "\r\n"
          /\ n < 1 => Kind(Stream, r + 3) = "#"
      BY <1>3, <1>5, <1>7, <3>1 DEF UnbrokenAt
    <3>3. m # r + 3
      <4> SUFFICES ASSUME m = r + 3 PROVE FALSE
        OBVIOUS
      <4>1. n = 0
        BY <1>4, <3>2
      <4>2. /\ Kind(Stream, m) = "#" /\ Kind(Stream, m - 1) = "\r\n"
            /\ m - 1 \in 1 .. m /\ r \in 1 .. m - 2 /\ r \in 1 .. m /\ m > 2 /\ m \in 1 .. m
        <5>1. m - 1 = r + 2
          OBVIOUS
        <5> QED
          BY <1>4, <3>2, <4>1, <5>1
      <4>3. Kind(b, m) = "#" /\ Kind(b, m - 1) = "\r\n" /\ Kind(b, r) = "Result:"
        BY <1>6, <3>2, <4>2
      <4>4. IsResult(b)
        BY <1>4, <4>2, <4>3 DEF IsResult
      <4> QED
        BY <1>12, <4>4
    <3>4. Len(buffer') < r + 3
      BY <1>4, <2>1, <3>2, <3>3
    <3>5. UnbrokenAt(r)'
      BY <1>1, <2>1, <3>1, <3>4 DEF UnbrokenAt, Kind
    <3> QED
      BY <3>5
  <2>6. ResultOfItsCommand' /\ ResultLostOnlyToALog'
    BY <1>1, <2>1 DEF SessionInv, ResultOfItsCommand, ResultLostOnlyToALog
  <2> QED
    BY <1>9, <2>2, <2>3, <2>4, <2>5, <2>6 DEF SessionInv
\* From here the buffer is dropped.
<1>13. ASSUME buffer' = <<>>
       PROVE  /\ m \in 1 .. Len(Stream) /\ Len(Stream') = Len(Stream) - m
              /\ \A i \in 1 .. Len(Stream') : Stream'[i] = Stream[i + m]
              /\ \A i \in 1 .. Len(Stream') : i + m \in m + 1 .. Len(Stream)
              /\ Values' /\ ValueFollows' /\ LogsAreWhole' /\ OnlyHandlersLog'
  <2>1. /\ m \in 1 .. Len(Stream) /\ Len(Stream') = Len(Stream) - m
        /\ \A i \in 1 .. Len(Stream') : Stream'[i] = Stream[i + m]
    BY <1>2, <1>3, <1>4, <1>13
  <2>2. \A i \in 1 .. Len(Stream') : i + m \in m + 1 .. Len(Stream)
    BY <1>3, <1>4, <2>1
  <2>3. UNCHANGED <<output, sent, commands, reply>>
    BY <1>1
  <2>4. Values' /\ ValueFollows' /\ LogsAreWhole' /\ OnlyHandlersLog'
    BY <2>1, <2>3, Dropping
  <2> QED
    BY <2>1, <2>2, <2>4
<1>14. CASE IsPrompt(b)
  <2>1. Kind(Stream, m) = "#>" /\ ~IsResult(b)
    BY <1>8, <1>14
  <2>2. buffer' = <<>> /\ host' = "ready" /\ results' = results
    BY <1>1, <1>14, <2>1
  <2>3. ~sent /\ output = <<>>
    BY <1>10, <2>1
  <2>4. \A i \in m + 1 .. len : Stream[i] \in LogParts
    <3>1. PICK p \in 1 .. len : p >= m /\ PromptAt(p)
      BY <1>11, <2>3
    <3>2. p = m
      <4>1. m \notin 1 .. p - 1
        BY <2>1, <3>1 DEF PromptAt
      <4> QED
        BY <1>4, <3>1, <4>1
    <3> QED
      BY <1>3, <3>1, <3>2 DEF PromptAt
  <2>5. \A i \in 1 .. Len(Stream') : Stream'[i] \in LogParts
    BY <1>3, <1>13, <2>2, <2>4
  <2>6. Quiet'
    BY <1>1, <2>2, <2>3, <2>5 DEF Quiet
  <2>7. OnePrompt' /\ Unbroken'
    BY <2>2 DEF OnePrompt, Unbroken
  <2>8. reply = "result" => results # {} \/ disturbed
    <3> SUFFICES ASSUME reply = "result", results = {}, ~disturbed PROVE FALSE
      OBVIOUS
    <3>0. n = 0 /\ Len(output) < 4
      BY <1>5, <2>3
    <3>1. PICK r \in 1 .. len : UnbrokenAt(r)
      BY <1>1, <1>3, <2>3, <3>0 DEF SessionInv, Unbroken
    <3>2. m - 1 < r + 3 /\ len >= r + 4 /\ Kind(Stream, r + 4) = "#>"
                        /\ Kind(Stream, r + 3) = "#"
      BY <1>3, <1>5, <1>7, <3>0, <3>1 DEF UnbrokenAt
    <3>3. r + 4 \in m + 1 .. len
      BY <1>4, <3>2
    <3>4. Stream[r + 4] \in LogParts /\ Stream[r + 4].kind = "#>"
      BY <2>4, <3>2, <3>3 DEF Kind
    <3> QED
      BY <3>4, LogPartKinds
  <2>9. ResultOfItsCommand' /\ ResultLostOnlyToALog'
    BY <1>1, <2>2, <2>8 DEF SessionInv, ResultOfItsCommand, ResultLostOnlyToALog
  <2> QED
    BY <1>9, <1>13, <2>2, <2>6, <2>7, <2>9 DEF SessionInv
<1>15. CASE IsResult(b)
  <2>1. /\ Kind(Stream, m) = "#" /\ ~IsPrompt(b)
    BY <1>8, <1>15
  <2>2. buffer' = <<>> /\ host' = "waiting" /\ results' = results \cup {Content(b)}
    BY <1>1, <1>15, <2>1
  <2>3. ~sent /\ output = <<>> /\ n = 0
    BY <1>5, <1>10, <2>1
  <2>4. PICK i \in 1 .. m - 2 : Kind(Stream, i) = "Result:"
    <3>1. \A i \in 1 .. m - 2 : i \in 1 .. m
      BY <1>4
    <3>2. \E i \in 1 .. m - 2 : Kind(b, i) = "Result:"
      BY <1>4, <1>15 DEF IsResult
    <3> QED
      BY <1>6, <3>1, <3>2
  <2>5. PICK j \in i + 1 .. len : Kind(Stream, j) = "value" /\ \A k \in 1 .. j : Kind(Stream, k) # "#"
    <3>1. i \in 1 .. Len(Stream)
      BY <1>3, <1>4
    <3>2. Len(output) # 3
      BY <1>5, <2>3
    <3> QED
      BY <1>3, <2>4, <3>1, <3>2 DEF SessionInv, ValueFollows
  <2>6. j \in 1 .. m
    <3>1. m \notin 1 .. j
      BY <2>1, <2>5
    <3> QED
      BY <1>4, <3>1
  <2>7. DOMAIN b = 1 .. m
    BY <1>2, <1>4, LenProperties
  <2>8. \A k \in 1 .. m : Kind(b, k) = "value" => b[k].of = commands
    <3>1. \A k \in 1 .. m : k \in 1 .. Len(Stream) /\ b[k] = Stream[k]
      BY <1>2, <1>3, <1>4
    <3> QED
      BY <1>6, <3>1 DEF SessionInv, Values
  <2>9. Content(b) = {commands}
    <3>1. Kind(b, j) = "value" /\ b[j].of = commands
      BY <1>6, <2>5, <2>6, <2>8
    <3>2. j \in {k \in DOMAIN b : Kind(b, k) = "value"}
      BY <2>6, <2>7, <3>1
    <3>3. \A k \in {k \in DOMAIN b : Kind(b, k) = "value"} : b[k].of = commands
      BY <2>7, <2>8
    <3> QED
      BY <3>1, <3>2, <3>3 DEF Content
  <2>10. Quiet' /\ Unbroken'
    <3>1. results' # {}
      BY <2>2
    <3> QED
      BY <1>1, <2>2, <2>3, <3>1 DEF Quiet, Unbroken
  <2>11. OnePrompt'
    <3>1. PICK p \in 1 .. len : p >= m /\ PromptAt(p)
      BY <1>11, <2>3
    <3>2. p # m
      BY <2>1, <3>1 DEF PromptAt
    <3>3. p \in 1 .. Len(Stream) /\ p > m
      BY <1>3, <1>4, <3>1, <3>2
    <3>4. \E q \in 1 .. Len(Stream') : PromptAt(q)'
      BY <1>13, <2>2, <3>1, <3>3, PromptMoves
    <3> QED
      BY <1>1, <2>3, <3>4 DEF OnePrompt
  <2>12. ResultOfItsCommand' /\ ResultLostOnlyToALog'
    BY <1>1, <2>2, <2>9 DEF SessionInv, ResultOfItsCommand, ResultLostOnlyToALog
  <2> QED
    BY <1>9, <1>13, <2>2, <2>10, <2>11, <2>12 DEF SessionInv
<1>16. CASE IsLog(b)
  <2>1. Kind(Stream, m) = "\r\n" /\ ~IsPrompt(b) /\ ~IsResult(b)
    BY <1>8, <1>16
  <2>2. buffer' = <<>> /\ host' = "waiting" /\ results' = results
    BY <1>1, <1>16, <2>1
  <2>3. Quiet'
    <3>1. sent => output = <<>> /\ \A i \in 1 .. Len(Stream) : Stream[i] \in LogParts
      BY DEF SessionInv, Quiet
    <3>2. \A i \in 1 .. Len(Stream') : i + m \in 1 .. Len(Stream)
      BY <1>3, <1>4, <1>13, <2>2
    <3> QED
      BY <1>1, <1>13, <2>2, <3>1, <3>2 DEF Quiet
  <2>4. OnePrompt'
    <3> SUFFICES ASSUME ~sent
                 PROVE  IF output # <<>>
                        THEN \A i \in 1 .. Len(Stream') : Kind(Stream', i) \notin {"#", "#>"}
                        ELSE \E p \in 1 .. Len(Stream') : PromptAt(p)'
      BY <1>1 DEF OnePrompt, Kind
    <3>1. CASE output # <<>>
      <4>1. \A i \in 1 .. Len(Stream) : Kind(Stream, i) \notin {"#", "#>"}
        BY <1>1, <3>1 DEF SessionInv, OnePrompt
      <4>2. ASSUME NEW i \in 1 .. Len(Stream') PROVE Kind(Stream', i) \notin {"#", "#>"}
        <5>1. i + m \in 1 .. Len(Stream) /\ Stream'[i] = Stream[i + m]
          BY <1>3, <1>4, <1>13, <2>2
        <5> QED
          BY <4>1, <5>1 DEF Kind
      <4> QED
        BY <3>1, <4>2
    <3>2. CASE output = <<>>
      <4>1. PICK p \in 1 .. len : p >= m /\ PromptAt(p)
        BY <1>11, <3>2
      <4>2. p # m
        BY <2>1, <4>1 DEF PromptAt
      <4>3. p \in 1 .. Len(Stream) /\ p > m
        BY <1>3, <1>4, <4>1, <4>2
      <4>4. \E q \in 1 .. Len(Stream') : PromptAt(q)'
        BY <1>13, <2>2, <4>1, <4>3, PromptMoves
      <4> QED
        BY <3>2, <4>4
    <3> QED
      BY <3>1, <3>2
  <2>5. Unbroken'
    <3> SUFFICES ASSUME reply = "result", ~sent, ~disturbed, results = {}, Len(output) < 4
                 PROVE  \E r \in 1 .. Len(Stream') : UnbrokenAt(r)'
      BY <1>1, <2>2 DEF Unbroken
    <3>1. PICK r \in 1 .. len : UnbrokenAt(r)
      BY <1>1, <1>3 DEF SessionInv, Unbroken
    <3>2. /\ n < 4 /\ m - 1 < r + 3 /\ Kind(Stream, r) = "Result:"
          /\ n > 0 => len = r + 3 - n
          /\ n < 3 => Kind(Stream, r + 1) = "value"
      BY <1>3, <1>5, <1>7, <3>1 DEF UnbrokenAt
    <3>3. PICK i \in 1 .. m - 2 : /\ Kind(b, i) \in LogLevels
                                  /\ \A j \in i .. m - 1 : Kind(b, j) \notin Newlines
      BY <1>4, <1>16 DEF IsLog
    <3>4. i \in 1 .. m /\ i \in 1 .. Len(Stream)
      BY <1>3, <1>4
    <3>5. Kind(Stream, i) \in LogLevels
      BY <1>6, <3>3, <3>4
    <3>6. /\ Kind(Stream, i) = "ERROR:" /\ Kind(Stream, i + 1) = "text"
          /\ Kind(Stream, i + 2) = "\r\n"
      <4>1. Logged(Stream[i])
        BY <3>4, <3>5 DEF SessionInv, OnlyHandlersLog
      <4> QED
        BY <3>4, <4>1 DEF SessionInv, LogsAreWhole, Logged, Kind
    <3>7. m = i + 2
      <4>1. i + 2 \in 1 .. m
        BY <1>4
      <4>2. i + 2 \notin i .. m - 1
        BY <1>6, <3>3, <3>6, <4>1 DEF Newlines
      <4> QED
        BY <1>4, <4>2
    <3>8. r \notin {i, i + 1, i + 2}
      BY <3>2, <3>6
    <3>9. r + 1 # i
      <4> SUFFICES ASSUME r + 1 = i PROVE FALSE
        OBVIOUS
      <4>1. ~(n < 3)
        BY <3>2, <3>6
      <4>2. n = 3
        BY <3>2, <4>1
      <4> QED
        BY <1>4, <3>2, <3>7, <4>2
    <3>10. r \in 1 .. Len(Stream) /\ r > m
      BY <1>3, <1>4, <3>2, <3>7, <3>8, <3>9
    <3> QED
      BY <1>1, <1>13, <2>2, <3>1, <3>10, ResultMoves
  <2>6. ResultOfItsCommand' /\ ResultLostOnlyToALog'
    BY <1>1, <2>2 DEF SessionInv, ResultOfItsCommand, ResultLostOnlyToALog
  <2> QED
    BY <1>9, <1>13, <2>2, <2>3, <2>4, <2>5, <2>6 DEF SessionInv
<1> QED
  BY <1>12, <1>14, <1>15, <1>16

-----------------------------------------------------------------------------
LEMMA SessionStep == SessionInv /\ [SessionNext]_sessionVars => SessionInv'
<1> SUFFICES ASSUME SessionInv, [SessionNext]_sessionVars PROVE SessionInv'
  OBVIOUS
<1>1. CASE SessionNext
  BY <1>1, WriteStep, ReceiveStep, LogStep, ProcessStep, CommandStep, EchoStep DEF SessionNext
<1>2. CASE UNCHANGED sessionVars
  <2> USE <1>2 DEF SessionInv, sessionVars
  <2>1. Stream' = Stream /\ AnswerLength' = AnswerLength
    BY DEF Stream, AnswerLength
  <2>2. SessionTypes' /\ ResultOfItsCommand' /\ ResultLostOnlyToALog'
    BY DEF SessionTypes, ResultOfItsCommand, ResultLostOnlyToALog
  <2>3. EndOfAnswer'
    BY DEF EndOfAnswer, AnswerLength, ChunkFromEnd, KindFromEnd
  <2>4. Quiet' /\ OnePrompt'
    BY <2>1 DEF Quiet, OnePrompt, PromptAt, Kind
  <2>5. EchoEnds' /\ Values' /\ ValueFollows'
    BY <2>1 DEF EchoEnds, Values, ValueFollows, Kind
  <2>6. LogsAreWhole' /\ OnlyHandlersLog'
    BY <2>1 DEF LogsAreWhole, OnlyHandlersLog, Logged, Kind
  <2>7. Unbroken'
    BY <2>1 DEF Unbroken, UnbrokenAt, Kind
  <2> QED
    BY <2>2, <2>3, <2>4, <2>5, <2>6, <2>7
<1> QED
  BY <1>1, <1>2

\* What SessionInv says of the stream holds in every state of a session.
THEOREM SessionInvariant == SessionSpec => []SessionInv
<1>1. SessionInit => SessionInv
  BY SessionInvInit
<1>2. SessionInv /\ [SessionNext]_sessionVars => SessionInv'
  BY SessionStep
<1> QED
  BY <1>1, <1>2, PTL DEF SessionSpec

\* However the node's answers and the handlers' lines get mixed up, the script writes
\* a command only when the node waits for one and nothing but logged lines is on its
\* way: process_input and the prompts of cli.cpp keep the two in step.
THEOREM TurnsAlternateAlways == SessionSpec => []TurnsAlternate
<1>1. SessionInv => TurnsAlternate
  <2> SUFFICES ASSUME SessionInv, host = "ready"
               PROVE  /\ output = <<>> /\ ~sent
                      /\ \A i \in DOMAIN wire :
                           wire[i].kind \in {"ERROR:", "text", "\r\n"} /\ wire[i].of = 0
    BY DEF TurnsAlternate
  <2>1. /\ output = <<>> /\ ~sent /\ \A i \in 1 .. Len(Stream) : Stream[i] \in LogParts
    BY DEF SessionInv, Quiet
  <2>2. buffer = <<>> /\ wire \in Seq(Parts)
    BY DEF SessionInv, SessionTypes
  <2>3. Stream = wire /\ DOMAIN wire = 1 .. Len(Stream)
    BY <2>2, ConcatEmptySeq, LenProperties DEF Stream
  <2> QED
    BY <2>1, <2>3, LogPartKinds
<1> QED
  BY <1>1, SessionInvariant, PTL

\* A result the host takes is that of the command it has written last.
THEOREM ResultsAreOfTheirCommand == SessionSpec => []ResultOfItsCommand
<1>1. SessionInv => ResultOfItsCommand
  BY DEF SessionInv
<1> QED
  BY <1>1, SessionInvariant, PTL

\* The host is not given the prompt without the result, unless a handler has logged
\* a line behind the result's first chunk.
THEOREM ResultsAreLostOnlyToLogs == SessionSpec => []ResultLostOnlyToALog
<1>1. SessionInv => ResultLostOnlyToALog
  BY DEF SessionInv
<1> QED
  BY <1>1, SessionInvariant, PTL
=============================================================================
