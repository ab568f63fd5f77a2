------------------------- MODULE CommandLineProofs -------------------------
(***************************************************************************)
(* Proofs about CommandLine for every size of the buffers, every alphabet  *)
(* and every list of handlers: the reader stays inside its buffers, hands  *)
(* out terminated strings without a hole, and these are the words typed.   *)
(***************************************************************************)
EXTENDS CommandLine, FiniteSetTheorems, SequenceTheorems, TLAPS

-----------------------------------------------------------------------------
(* The inductive invariant.                                                *)

\* While a command is read or matched there is room for one more character.
Room == phase \in {"reading", "matching"} => character < StorageSize

\* What stands behind character was typed, or ended an argument.
Written == \A p \in Cells : p < character => storage[p] \in Text \cup {Nul}

Terminated == phase = "matching" => storage[character] = Nul

\* Every argument begins with a character that was typed.
Pointed ==
  \A k \in Slots : arguments[k] # Null =>
    arguments[k] < character /\ storage[arguments[k]] \in Text

\* The slots up to argument are set; argument itself once its word has begun.
Filled ==
  /\ ~AtBoundary => argument \in Slots
  /\ \A k \in Slots :
       arguments[k] # Null <=> (k < argument \/ (k = argument /\ ~AtBoundary))

NonEmpty == phase = "matching" => arguments[1] # Null

BufferInv == TypeOK /\ Room /\ Written /\ Terminated /\ Pointed /\ Filled /\ NonEmpty

-----------------------------------------------------------------------------
(* Type correctness.                                                       *)

LEMMA TypeInit == Init => TypeOK
BY SizeAssumption DEF Init, TypeOK, Cells, Slots, Bytes, Null

\* Consuming a character of the alphabet.
LEMMA TypedStep ==
  ASSUME TypeOK, NEW c \in Text \cup {Space}, Type(c)
  PROVE  typed' \in Seq(Text \cup {Space})
BY DEF TypeOK, Type

\* Storing one byte; Advance may end the command.
LEMMA StoreStep ==
  ASSUME TypeOK, character < StorageSize,
         NEW c \in Bytes, storage' = [storage EXCEPT ![character] = c], Advance
  PROVE  /\ storage' \in [Cells -> Bytes]
         /\ character' \in 0 .. StorageSize
         /\ phase' \in {"boot", "idle", "reading", "matching"}
BY SizeAssumption DEF TypeOK, Advance, Cells

LEMMA TypeStep == BufferInv /\ [Next]_vars => TypeOK'
<1> SUFFICES ASSUME BufferInv, [Next]_vars PROVE TypeOK'
  OBVIOUS
<1> USE SizeAssumption DEF BufferInv
<1>e. <<>> \in Seq(Text \cup {Space})
  OBVIOUS
<1>1. CASE Initialize
  <2>1. PICK table \in Tables :
          command_handlers' =
            IF Len(table) > MaxHandlers THEN command_handlers
            ELSE [k \in 1 .. MaxHandlers |->
                    IF k <= Len(table) THEN table[k] ELSE command_handlers[k]]
    BY <1>1 DEF Initialize
  <2>2. table \in Seq(Seq(Text))
    BY TableAssumption
  <2>3. \A k \in 1 .. MaxHandlers : k <= Len(table) => table[k] \in Seq(Text)
    BY <2>2
  <2>4. command_handlers' \in [1 .. MaxHandlers -> Seq(Text) \cup {NoHandler}]
    BY <2>1, <2>3 DEF TypeOK
  <2> QED
    BY <1>1, <2>4 DEF Initialize, TypeOK, locals
<1>2. CASE Prompt
  BY <1>2 DEF Prompt, TypeOK, Cells, Slots, Bytes, Null
<1>3. CASE SkipSpace
  <2>1. typed' \in Seq(Text \cup {Space})
    BY <1>3, TypedStep DEF SkipSpace
  <2> QED
    BY <1>3, <2>1 DEF SkipSpace, Type, TypeOK, locals
<1>4. CASE EndArgument
  <2>1. typed' \in Seq(Text \cup {Space})
    BY <1>4, TypedStep DEF EndArgument
  <2>2. /\ storage' \in [Cells -> Bytes]
        /\ character' \in 0 .. StorageSize
        /\ phase' \in {"boot", "idle", "reading", "matching"}
    BY <1>4, StoreStep DEF EndArgument, Bytes, Room, Type
  <2>3. argument' \in 1 .. MaxArguments + 1
    BY <1>4 DEF EndArgument, Filled, Slots
  <2> QED
    BY <1>4, <2>1, <2>2, <2>3 DEF EndArgument, Type, TypeOK
<1>5. CASE \E c \in Text : TooManyArguments(c)
  <2>1. PICK c \in Text : TooManyArguments(c)
    BY <1>5
  <2>2. typed' \in Seq(Text \cup {Space})
    BY <2>1, TypedStep DEF TooManyArguments
  <2> QED
    BY <2>1, <2>2 DEF TooManyArguments, Type, TypeOK, locals
<1>6. CASE \E c \in Text : StoreText(c)
  <2>1. PICK c \in Text : StoreText(c)
    BY <1>6
  <2>2. typed' \in Seq(Text \cup {Space})
    BY <2>1, TypedStep DEF StoreText
  <2>3. /\ storage' \in [Cells -> Bytes]
        /\ character' \in 0 .. StorageSize
        /\ phase' \in {"boot", "idle", "reading", "matching"}
    BY <2>1, StoreStep DEF StoreText, Bytes, Room, Type
  <2>4. character \in Cells
    BY <2>1 DEF StoreText, Type, Room, TypeOK, Cells
  <2>5. arguments' \in [Slots -> Cells \cup {Null}]
    BY <2>1, <2>4 DEF StoreText, TypeOK
  <2> QED
    BY <2>1, <2>2, <2>3, <2>5 DEF StoreText, Type, TypeOK
<1>7. CASE ReceiveReturn
  <2>1. storage' \in [Cells -> Bytes]
    BY <1>7 DEF ReceiveReturn, TypeOK, Bytes
  <2>2. typed' \in Seq(Text \cup {Space})
    BY <1>7, <1>e DEF ReceiveReturn, TypeOK
  <2> QED
    BY <1>7, <2>1, <2>2 DEF ReceiveReturn, TypeOK
<1>8. CASE TryHandler
  <2>1. CASE \E outcome \in {"accepted", "unknown"} : Conclude(outcome)
    BY <1>8, <2>1, <1>e DEF TryHandler, Conclude, TypeOK, locals
  <2>2. CASE cursor <= MaxHandlers /\ cursor' = cursor + 1
              /\ UNCHANGED <<phase, handled, typed, start>>
    BY <1>8, <2>2 DEF TryHandler, TypeOK, locals
  <2> QED
    BY <1>8, <2>1, <2>2 DEF TryHandler, TypeOK
<1>9. CASE UNCHANGED vars
  BY <1>9 DEF vars, TypeOK
<1> QED
  BY <1>1, <1>2, <1>3, <1>4, <1>5, <1>6, <1>7, <1>8, <1>9 DEF Next

-----------------------------------------------------------------------------
(* The buffers.                                                            *)

LEMMA BufferInit == Init => BufferInv
<1> SUFFICES ASSUME Init PROVE BufferInv
  OBVIOUS
<1>1. TypeOK
  BY TypeInit
<1>2. AtBoundary
  BY DEF Init, AtBoundary, Cells
<1> QED
  BY <1>1, <1>2, SizeAssumption
  DEF BufferInv, Room, Written, Terminated, Pointed, Filled, NonEmpty, Init,
      Cells, Slots, Null

\* Only Prompt and the two storing actions move the boundary.
LEMMA BoundaryAfterStore ==
  ASSUME TypeOK, character < StorageSize, NEW c \in Bytes,
         storage' = [storage EXCEPT ![character] = c], Advance
  PROVE  AtBoundary' <=> c = Nul
BY SizeAssumption DEF TypeOK, Advance, AtBoundary, Cells

\* Storing a character behind the last one leaves what stands before it.
LEMMA WrittenAfterStore ==
  ASSUME TypeOK, Written, character < StorageSize, NEW c \in Text \cup {Nul},
         storage' = [storage EXCEPT ![character] = c], Advance
  PROVE  Written' /\ Room'
BY SizeAssumption DEF TypeOK, Written, Room, Advance, Cells

LEMMA BufferStep == BufferInv /\ [Next]_vars => BufferInv'
<1> SUFFICES ASSUME BufferInv, [Next]_vars PROVE BufferInv'
  OBVIOUS
<1>t. TypeOK'
  BY TypeStep
<1> USE SizeAssumption, CharacterAssumption DEF BufferInv
<1>1. CASE Initialize
  BY <1>1, <1>t DEF Initialize, locals, Room, Written, Terminated, Pointed, Filled,
                    AtBoundary, NonEmpty
<1>2. CASE Prompt
  <2>1. AtBoundary'
    BY <1>2 DEF Prompt, AtBoundary, Cells
  <2> QED
    BY <1>2, <1>t, <2>1 DEF Prompt, Room, Written, Terminated, Pointed, Filled,
                            NonEmpty, Cells, Slots, Null
<1>3. CASE SkipSpace
  BY <1>3, <1>t DEF SkipSpace, locals, Room, Written, Terminated, Pointed, Filled,
                    AtBoundary, NonEmpty
<1>4. CASE EndArgument
  <2>1. character < StorageSize /\ character \in Cells /\ phase = "reading"
    BY <1>4 DEF EndArgument, Type, Room, TypeOK, Cells
  <2>2. AtBoundary'
    BY <1>4, <2>1, BoundaryAfterStore DEF EndArgument, Bytes
  <2>3. Written' /\ Room'
    BY <1>4, <2>1, WrittenAfterStore DEF EndArgument
  <2>4. phase' # "matching"
    BY <1>4, <2>1 DEF EndArgument, Advance
  <2>5. Pointed'
    BY <1>4, <2>1 DEF EndArgument, Advance, Pointed, TypeOK, Cells, Null
  <2>6. Filled'
    BY <1>4, <2>2 DEF EndArgument, Filled, TypeOK, Slots
  <2> QED
    BY <1>t, <2>3, <2>4, <2>5, <2>6 DEF Terminated, NonEmpty
<1>5. CASE \E c \in Text : TooManyArguments(c)
  BY <1>5, <1>t DEF TooManyArguments, locals, Room, Written, Terminated, Pointed,
                    Filled, AtBoundary, NonEmpty
<1>6. CASE \E c \in Text : StoreText(c)
  <2>1. PICK c \in Text : StoreText(c)
    BY <1>6
  <2>2. character < StorageSize /\ character \in Cells /\ phase = "reading"
    BY <2>1 DEF StoreText, Type, Room, TypeOK, Cells
  <2>3. ~AtBoundary'
    BY <2>1, <2>2, BoundaryAfterStore DEF StoreText, Bytes
  <2>4. Written' /\ Room'
    BY <2>1, <2>2, WrittenAfterStore DEF StoreText
  <2>5. phase' # "matching"
    BY <2>1, <2>2 DEF StoreText, Advance
  <2>6. argument \in Slots
    BY <2>1 DEF StoreText, Filled, TypeOK, Slots
  <2>7. Pointed'
    BY <2>1, <2>2, <2>6 DEF StoreText, Advance, Pointed, TypeOK, Cells, Null
  <2>8. Filled'
    BY <2>1, <2>2, <2>3, <2>6 DEF StoreText, Filled, TypeOK, Slots, Cells, Null
  <2> QED
    BY <1>t, <2>4, <2>5, <2>7, <2>8 DEF Terminated, NonEmpty
<1>7. CASE ReceiveReturn
  <2>1. character < StorageSize /\ character \in Cells /\ phase = "reading"
    BY <1>7 DEF ReceiveReturn, Room, TypeOK, Cells
  <2>2. AtBoundary' <=> AtBoundary
    BY <1>7, <2>1 DEF ReceiveReturn, AtBoundary, TypeOK, Cells
  <2>3. Written' /\ Room' /\ Terminated'
    BY <1>7, <2>1 DEF ReceiveReturn, Written, Room, Terminated, TypeOK, Cells
  <2>4. Pointed'
    BY <1>7, <2>1 DEF ReceiveReturn, Pointed, TypeOK, Cells, Null
  <2>5. Filled'
    BY <1>7, <2>2 DEF ReceiveReturn, Filled
  <2>6. NonEmpty'
    BY <1>7 DEF ReceiveReturn, NonEmpty, Filled, TypeOK, Slots
  <2> QED
    BY <1>t, <2>3, <2>4, <2>5, <2>6
<1>8. CASE TryHandler
  BY <1>8, <1>t DEF TryHandler, Conclude, locals, Room, Written, Terminated, Pointed,
                    Filled, AtBoundary, NonEmpty
<1>9. CASE UNCHANGED vars
  BY <1>9, <1>t DEF vars, Room, Written, Terminated, Pointed, Filled, AtBoundary,
                    NonEmpty
<1> QED
  BY <1>1, <1>2, <1>3, <1>4, <1>5, <1>6, <1>7, <1>8, <1>9 DEF Next

LEMMA BufferInvariant == Spec => []BufferInv
BY BufferInit, BufferStep, PTL DEF Spec

\* The type invariant, for every size of storage, arguments and handler list.
THEOREM TypeCorrect == Spec => []TypeOK
<1>1. BufferInv => TypeOK
  BY DEF BufferInv
<1> QED
  BY <1>1, BufferInvariant, PTL

\* read_arguments never leaves storage, never looks at an indeterminate byte and
\* gives process_command only terminated strings.
THEOREM ReaderStaysInBounds == Spec => []ArgumentsWellFormed
<1>1. BufferInv => ArgumentsWellFormed
  <2> SUFFICES ASSUME BufferInv PROVE ArgumentsWellFormed
    OBVIOUS
  <2> USE SizeAssumption, CharacterAssumption DEF BufferInv
  <2>1. phase = "reading" => character < StorageSize
    BY DEF Room
  <2>2. \A p \in Cells : p < character => storage[p] # Garbage
    BY DEF Written
  <2>3. ASSUME phase = "matching", NEW k \in Slots, arguments[k] # Null
        PROVE  /\ storage[arguments[k]] \in Text
               /\ \E q \in Cells : q > arguments[k] /\ storage[q] = Nul
               /\ \A r \in Cells : arguments[k] <= r /\ r <= character =>
                    storage[r] # Garbage
    <3>1. character \in Cells /\ storage[character] = Nul
      BY <2>3 DEF Room, Terminated, TypeOK, Cells
    <3>2. arguments[k] < character /\ storage[arguments[k]] \in Text
      BY <2>3 DEF Pointed
    <3>3. \A r \in Cells : r <= character => storage[r] # Garbage
      BY <2>2, <3>1 DEF Cells
    <3> QED
      BY <3>1, <3>2, <3>3
  <2> QED
    BY <2>1, <2>2, <2>3 DEF ArgumentsWellFormed
<1> QED
  BY <1>1, BufferInvariant, PTL

\* The arguments have no hole, and a handler is never called without one, so the
\* handlers' arguments.at(0) is always in range.
THEOREM ArgumentsHaveNoHole == Spec => []ArgumentsContiguous
<1>1. BufferInv => ArgumentsContiguous
  BY SizeAssumption DEF BufferInv, TypeOK, Filled, NonEmpty, ArgumentsContiguous, Slots
<1> QED
  BY <1>1, BufferInvariant, PTL

-----------------------------------------------------------------------------
(* What fits.                                                              *)

IsLine(s) == s \in Seq(Text \cup {Space})

\* A character needs room unless it is a space behind nothing or behind a space.
NeedsRoom(s, c) == c # Space \/ (s # <<>> /\ s[Len(s)] # Space)
BeginsWord(s, c) == c # Space /\ (s = <<>> \/ s[Len(s)] = Space)

LEMMA KeptAppend ==
  ASSUME NEW s, IsLine(s), NEW c \in Text \cup {Space}
  PROVE  Kept(Append(s, c)) = IF NeedsRoom(s, c) THEN Kept(s) \cup {Len(s) + 1}
                              ELSE Kept(s)
BY DEF IsLine, Kept, NeedsRoom

LEMMA StartsAppend ==
  ASSUME NEW s, IsLine(s), NEW c \in Text \cup {Space}
  PROVE  Starts(Append(s, c)) = IF BeginsWord(s, c) THEN Starts(s) \cup {Len(s) + 1}
                                ELSE Starts(s)
BY DEF IsLine, Starts, BeginsWord

LEMMA MarksFinite ==
  ASSUME NEW s, IsLine(s)
  PROVE  /\ Kept(s) \subseteq 1 .. Len(s) /\ Starts(s) \subseteq 1 .. Len(s)
         /\ IsFiniteSet(Kept(s)) /\ IsFiniteSet(Starts(s))
         /\ Cardinality(Kept(s)) \in Nat /\ Cardinality(Starts(s)) \in Nat
<1>1. Kept(s) \subseteq 1 .. Len(s) /\ Starts(s) \subseteq 1 .. Len(s)
  BY DEF IsLine, Kept, Starts
<1>2. IsFiniteSet(1 .. Len(s))
  BY FS_Interval DEF IsLine
<1>3. IsFiniteSet(Kept(s)) /\ IsFiniteSet(Starts(s))
  BY <1>1, <1>2, FS_Subset
<1> QED
  BY <1>1, <1>3, FS_CardinalityType

LEMMA CountAppend ==
  ASSUME NEW s, IsLine(s), NEW c \in Text \cup {Space}
  PROVE  /\ Cardinality(Kept(Append(s, c))) =
              Cardinality(Kept(s)) + (IF NeedsRoom(s, c) THEN 1 ELSE 0)
         /\ Cardinality(Starts(Append(s, c))) =
              Cardinality(Starts(s)) + (IF BeginsWord(s, c) THEN 1 ELSE 0)
<1>1. Len(s) + 1 \notin Kept(s) /\ Len(s) + 1 \notin Starts(s)
  BY MarksFinite DEF IsLine
<1>2. /\ Cardinality(Kept(s) \cup {Len(s) + 1}) = Cardinality(Kept(s)) + 1
      /\ Cardinality(Starts(s) \cup {Len(s) + 1}) = Cardinality(Starts(s)) + 1
  BY <1>1, MarksFinite, FS_AddElement
<1>3. Cardinality(Kept(s)) \in Nat /\ Cardinality(Starts(s)) \in Nat
  BY MarksFinite
<1>4. Kept(Append(s, c)) = IF NeedsRoom(s, c) THEN Kept(s) \cup {Len(s) + 1}
                           ELSE Kept(s)
  BY KeptAppend
<1>5. Starts(Append(s, c)) = IF BeginsWord(s, c) THEN Starts(s) \cup {Len(s) + 1}
                             ELSE Starts(s)
  BY StartsAppend
<1> QED
  BY <1>2, <1>3, <1>4, <1>5

\* What does not fit does not fit with more behind it.
LEMMA PrefixFits ==
  ASSUME NEW s, IsLine(s), NEW n \in 0 .. Len(s), Fits(s)
  PROVE  Fits(SubSeq(s, 1, n))
<1> DEFINE t == SubSeq(s, 1, n)
<1>1. IsLine(t) /\ Len(t) = n /\ \A i \in 1 .. n : t[i] = s[i]
  BY DEF IsLine
<1> HIDE DEF t
<1>2. Kept(t) \subseteq Kept(s) /\ Starts(t) \subseteq Starts(s)
  BY <1>1 DEF IsLine, Kept, Starts
<1>3. /\ Cardinality(Kept(t)) <= Cardinality(Kept(s))
      /\ Cardinality(Starts(t)) <= Cardinality(Starts(s))
  BY <1>2, MarksFinite, FS_Subset
<1>4. /\ Cardinality(Kept(t)) \in Nat /\ Cardinality(Kept(s)) \in Nat
      /\ Cardinality(Starts(t)) \in Nat /\ Cardinality(Starts(s)) \in Nat
  BY <1>1, MarksFinite
<1>5. Fits(t)
  BY <1>3, <1>4, SizeAssumption DEF Fits
<1> QED
  BY <1>5 DEF t

\* The reader's counters are the counts of the line.
Started == start <= Len(typed)
Counted ==
  phase \in {"reading", "matching"} =>
    /\ Cardinality(Kept(Line)) = character
    /\ Cardinality(Starts(Line)) = IF AtBoundary THEN argument - 1 ELSE argument
Edge ==
  phase = "reading" => (AtBoundary <=> (Line = <<>> \/ Line[Len(Line)] = Space))
Swallowed ==
  /\ phase \in {"boot", "idle"} /\ typed # <<>> => ~Fits(typed)
  /\ start > 0 => ~Fits(SubSeq(typed, 1, start))

FitInv == Started /\ Counted /\ Edge /\ Swallowed

LEMMA FitInit == Init => FitInv
<1> SUFFICES ASSUME Init PROVE FitInv
  OBVIOUS
<1> QED
  BY DEF Init, FitInv, Started, Counted, Edge, Swallowed

\* The line grows with what is typed.
LEMMA LineGrows ==
  ASSUME TypeOK, Started, NEW c \in Text \cup {Space}, Type(c)
  PROVE  /\ IsLine(typed) /\ IsLine(Line) /\ IsLine(typed')
         /\ Line' = Append(Line, c)
         /\ start = 0 => Line = typed
         /\ Started'
<1>1. IsLine(typed) /\ start \in 0 .. Len(typed)
  BY DEF TypeOK, Started, IsLine
<1>2. IsLine(typed') /\ Len(typed') = Len(typed) + 1 /\ start' = start
  BY <1>1 DEF Type, IsLine
<1>3. IsLine(Line) /\ Len(Line) = Len(typed) - start
  BY <1>1 DEF Line, IsLine
<1>4. Line' = SubSeq(Append(typed, c), start + 1, Len(typed) + 1)
  BY <1>2 DEF Type, Line
<1>5. Len(Line') = Len(Line) + 1
  BY <1>1, <1>2, <1>3, <1>4 DEF IsLine, Type
<1>6. \A i \in 1 .. Len(Line) + 1 : Line'[i] = Append(Line, c)[i]
  BY <1>1, <1>2, <1>3, <1>4 DEF IsLine, Line, Type
<1>7. Line' = Append(Line, c)
  <2>1. Line' \in Seq(Text \cup {Space})
    BY <1>1, <1>2, <1>4, SubSeqProperties DEF IsLine, Type
  <2>2. Append(Line, c) \in Seq(Text \cup {Space}) /\ Len(Append(Line, c)) = Len(Line) + 1
    BY <1>3 DEF IsLine
  <2> QED
    BY <1>5, <1>6, <2>1, <2>2, SeqEqual
<1>8. start = 0 => Line = typed
  BY <1>1 DEF Line, IsLine
<1> QED
  BY <1>1, <1>2, <1>3, <1>7, <1>8 DEF Started, IsLine

\* What the reader's test of the character before means for the line.
LEMMA Classified ==
  ASSUME TypeOK, FitInv, NEW c \in Text \cup {Space}, Type(c)
  PROVE  /\ NeedsRoom(Line, c) <=> (c # Space \/ ~AtBoundary)
         /\ BeginsWord(Line, c) <=> (c # Space /\ AtBoundary)
BY DEF FitInv, Edge, Type, NeedsRoom, BeginsWord

\* A command is given up only where the line does not fit.
LEMMA SwallowedStep ==
  ASSUME TypeOK, FitInv, NEW c \in Text \cup {Space}, Type(c),
         phase' \in {"reading", "idle"},
         phase' = "idle" => ~Fits(Append(Line, c))
  PROVE  Swallowed'
<1> USE DEF FitInv
<1>1. start' = start /\ start \in 0 .. Len(typed) /\ Len(typed') = Len(typed) + 1
  BY DEF Type, TypeOK, Started
<1>2. IsLine(typed) /\ IsLine(typed')
  BY LineGrows
<1>3. SubSeq(typed', 1, start) = SubSeq(typed, 1, start)
  <2>1. \A i \in 1 .. start : typed'[i] = typed[i]
    BY <1>1, <1>2 DEF Type, IsLine
  <2>2. /\ SubSeq(typed', 1, start) \in Seq(Text \cup {Space})
        /\ SubSeq(typed, 1, start) \in Seq(Text \cup {Space})
        /\ Len(SubSeq(typed', 1, start)) = start
        /\ Len(SubSeq(typed, 1, start)) = start
    BY <1>1, <1>2 DEF IsLine
  <2>3. \A i \in 1 .. start : SubSeq(typed', 1, start)[i] = SubSeq(typed, 1, start)[i]
    BY <1>1, <1>2, <2>1 DEF IsLine
  <2> QED
    BY <2>2, <2>3, SeqEqual
<1>4. start > 0 => ~Fits(SubSeq(typed', 1, start))
  BY <1>3 DEF Swallowed
<1>5. CASE phase' = "idle" /\ start = 0
  <2>1. typed' = Append(Line, c)
    BY <1>5, LineGrows DEF Type
  <2> QED
    BY <1>1, <1>4, <1>5, <2>1 DEF Swallowed
<1>6. CASE phase' = "idle" /\ start > 0
  <2>1. ~Fits(typed')
    BY <1>1, <1>2, <1>4, <1>6, PrefixFits
  <2> QED
    BY <1>1, <1>4, <2>1 DEF Swallowed
<1>7. CASE phase' = "reading"
  BY <1>1, <1>4, <1>7 DEF Swallowed
<1> QED
  BY <1>1, <1>5, <1>6, <1>7

LEMMA FitStep == BufferInv /\ FitInv /\ [Next]_vars => FitInv'
<1> SUFFICES ASSUME BufferInv, FitInv, [Next]_vars PROVE FitInv'
  OBVIOUS
<1> USE SizeAssumption, CharacterAssumption DEF BufferInv, FitInv
<1>1. CASE Initialize
  BY <1>1 DEF Initialize, Started, Counted, Edge, Swallowed, locals
<1>2. CASE Prompt
  <2>1. Line' = <<>> /\ AtBoundary' /\ Started'
    BY <1>2 DEF Prompt, Line, AtBoundary, Cells, TypeOK, Started
  <2>2. Kept(<<>>) = {} /\ Starts(<<>>) = {}
    BY DEF Kept, Starts
  <2>3. Cardinality(Kept(Line')) = 0 /\ Cardinality(Starts(Line')) = 0
    BY <2>1, <2>2, FS_EmptySet
  <2>4. character' = 0 /\ argument' = 1
    BY <1>2 DEF Prompt
  <2>5. Counted' /\ Edge'
    BY <2>1, <2>3, <2>4 DEF Counted, Edge
  <2>6. SubSeq(typed, 1, Len(typed)) = typed
    BY DEF TypeOK
  <2>7. start' > 0 => ~Fits(SubSeq(typed', 1, start'))
    <3>1. start' > 0 => typed # <<>>
      BY <1>2 DEF Prompt, TypeOK
    <3> QED
      BY <1>2, <2>6, <3>1 DEF Prompt, Swallowed
  <2> QED
    BY <1>2, <2>1, <2>5, <2>7 DEF Prompt, Swallowed
<1>3. CASE SkipSpace
  <2>1. Type(Space) /\ AtBoundary
    BY <1>3 DEF SkipSpace
  <2>2. ~NeedsRoom(Line, Space) /\ ~BeginsWord(Line, Space)
    BY <2>1, Classified
  <2>3. IsLine(Line) /\ Line' = Append(Line, Space) /\ Started'
    BY <2>1, LineGrows
  <2>4. /\ Cardinality(Kept(Line')) = Cardinality(Kept(Line))
        /\ Cardinality(Starts(Line')) = Cardinality(Starts(Line))
    BY <2>2, <2>3, KeptAppend, StartsAppend
  <2>5. phase' = "reading" /\ phase = "reading" /\ AtBoundary'
    BY <1>3, <2>1 DEF SkipSpace, Type, locals, AtBoundary
  <2>6. Counted'
    BY <1>3, <2>1, <2>4, <2>5 DEF SkipSpace, Counted, locals
  <2>7. Edge'
    BY <2>3, <2>5 DEF Edge, IsLine
  <2>8. Swallowed'
    BY <2>1, <2>5, SwallowedStep
  <2> QED
    BY <2>3, <2>6, <2>7, <2>8
<1>4. CASE EndArgument
  <2>1. Type(Space) /\ ~AtBoundary /\ phase = "reading" /\ character < StorageSize
    BY <1>4 DEF EndArgument, Type, Room
  <2>2. NeedsRoom(Line, Space) /\ ~BeginsWord(Line, Space)
    BY <2>1, Classified
  <2>3. IsLine(Line) /\ Line' = Append(Line, Space) /\ Started'
    BY <2>1, LineGrows
  <2>4. /\ Cardinality(Kept(Line')) = character + 1
        /\ Cardinality(Starts(Line')) = argument
    BY <2>1, <2>2, <2>3, CountAppend, MarksFinite DEF Counted
  <2>5. AtBoundary'
    BY <1>4, <2>1, BoundaryAfterStore DEF EndArgument, Bytes
  <2>6. character' = character + 1 /\ argument' = argument + 1
        /\ phase' = IF character + 1 = StorageSize THEN "idle" ELSE "reading"
    BY <1>4, <2>1 DEF EndArgument, Advance
  <2>7. Counted'
    BY <2>4, <2>5, <2>6 DEF Counted, TypeOK
  <2>8. Edge'
    BY <2>3, <2>5 DEF Edge, IsLine
  <2>9. phase' = "idle" => ~Fits(Line')
    BY <2>4, <2>6 DEF Fits
  <2>10. Swallowed'
    BY <2>1, <2>3, <2>6, <2>9, SwallowedStep
  <2> QED
    BY <2>3, <2>7, <2>8, <2>10
<1>5. CASE \E c \in Text : TooManyArguments(c)
  <2>1. PICK c \in Text : TooManyArguments(c)
    BY <1>5
  <2>2. Type(c) /\ AtBoundary /\ argument = MaxArguments + 1 /\ phase' = "idle"
        /\ phase = "reading" /\ c # Space
    BY <2>1 DEF TooManyArguments, Type
  <2>3. BeginsWord(Line, c)
    BY <2>2, Classified
  <2>4. IsLine(Line) /\ Line' = Append(Line, c) /\ Started'
    BY <2>2, LineGrows
  <2>5. Cardinality(Starts(Line')) = MaxArguments + 1
    BY <2>2, <2>3, <2>4, CountAppend DEF Counted
  <2>6. ~Fits(Line')
    BY <2>5 DEF Fits
  <2>7. Swallowed'
    BY <2>2, <2>4, <2>6, SwallowedStep
  <2> QED
    BY <2>2, <2>4, <2>7 DEF Counted, Edge
<1>6. CASE \E c \in Text : StoreText(c)
  <2>1. PICK c \in Text : StoreText(c)
    BY <1>6
  <2>2. Type(c) /\ c # Space /\ c # Nul /\ phase = "reading" /\ character < StorageSize
    BY <2>1 DEF StoreText, Type, Room
  <2>3. NeedsRoom(Line, c) /\ (BeginsWord(Line, c) <=> AtBoundary)
    BY <2>2, Classified
  <2>4. IsLine(Line) /\ Line' = Append(Line, c) /\ Started'
    BY <2>2, LineGrows
  <2>5. /\ Cardinality(Kept(Line')) = character + 1
        /\ Cardinality(Starts(Line')) = argument
    BY <2>2, <2>3, <2>4, CountAppend, MarksFinite DEF Counted, TypeOK
  <2>6. ~AtBoundary'
    BY <2>1, <2>2, BoundaryAfterStore DEF StoreText, Bytes
  <2>7. character' = character + 1 /\ argument' = argument
        /\ phase' = IF character + 1 = StorageSize THEN "idle" ELSE "reading"
    BY <2>1, <2>2 DEF StoreText, Advance
  <2>8. Counted'
    BY <2>5, <2>6, <2>7 DEF Counted, TypeOK
  <2>9. Edge'
    BY <2>2, <2>4, <2>6 DEF Edge, IsLine
  <2>10. phase' = "idle" => ~Fits(Line')
    BY <2>5, <2>7 DEF Fits
  <2>11. Swallowed'
    BY <2>2, <2>4, <2>7, <2>10, SwallowedStep
  <2> QED
    BY <2>4, <2>8, <2>9, <2>11
<1>7. CASE ReceiveReturn
  <2>1. CASE phase' = "idle"
    BY <1>7, <2>1 DEF ReceiveReturn, Started, Counted, Edge, Swallowed
  <2>2. CASE phase' = "matching"
    <3>1. UNCHANGED <<typed, start, character, argument>> /\ phase = "reading"
      BY <1>7, <2>2 DEF ReceiveReturn
    <3>2. AtBoundary' <=> AtBoundary
      BY <1>7 DEF ReceiveReturn, AtBoundary, TypeOK, Cells
    <3>3. Line' = Line
      BY <3>1 DEF Line
    <3> QED
      BY <2>2, <3>1, <3>2, <3>3 DEF Started, Counted, Edge, Swallowed
  <2> QED
    BY <1>7, <2>1, <2>2 DEF ReceiveReturn
<1>8. CASE TryHandler
  <2>1. CASE \E outcome \in {"accepted", "unknown"} : Conclude(outcome)
    BY <2>1 DEF Conclude, Started, Counted, Edge, Swallowed
  <2>2. CASE UNCHANGED <<phase, typed, start, locals>>
    BY <2>2 DEF locals, Started, Counted, Edge, Swallowed, Line, AtBoundary
  <2> QED
    BY <1>8, <2>1, <2>2 DEF TryHandler, locals
<1>9. CASE UNCHANGED vars
  BY <1>9 DEF vars, Started, Counted, Edge, Swallowed, Line, AtBoundary
<1> QED
  BY <1>1, <1>2, <1>3, <1>4, <1>5, <1>6, <1>7, <1>8, <1>9 DEF Next

\* A line that fits is matched as a whole and no other is, for every size of the
\* buffers and every line: 63 characters and five words are the limit, not 64.
THEOREM WholeLinesThatFit == Spec => []MatchesWholeLinesThatFit
<1>1. BufferInv /\ FitInv => MatchesWholeLinesThatFit
  <2> SUFFICES ASSUME BufferInv, FitInv PROVE MatchesWholeLinesThatFit
    OBVIOUS
  <2> USE SizeAssumption DEF BufferInv, FitInv
  <2>1. ASSUME phase = "matching", start = 0 PROVE Fits(typed)
    <3>1. Line = typed
      BY <2>1 DEF Line, TypeOK
    <3>2. Cardinality(Kept(typed)) < StorageSize
      BY <2>1, <3>1 DEF Counted, Room
    <3>3. Cardinality(Starts(typed)) <= MaxArguments
      BY <2>1, <3>1 DEF Counted, Filled, TypeOK, Slots
    <3> QED
      BY <3>2, <3>3 DEF Fits
  <2> QED
    BY <2>1 DEF MatchesWholeLinesThatFit, Swallowed
<1> QED
  BY <1>1, BufferInvariant, FitInit, FitStep, PTL DEF Spec

-----------------------------------------------------------------------------
(* What the handlers are given.                                            *)

\* The word that begins at i ends at j.
IsWord(s, i, j) ==
  /\ j \in i .. Len(s)
  /\ \A m \in i .. j : s[m] # Space
  /\ j = Len(s) \/ s[j + 1] = Space

\* The word from i to j stands in storage where its argument points, and is closed
\* by a '\0' unless it is still being typed.
Stands(i, j) ==
  LET p == arguments[Rank(Line, i)]
  IN  /\ IsWord(Line, i, j)
      /\ p \in Cells
      /\ \A m \in i .. j : storage[p + (m - i)] = Line[m]
      /\ IF j = Len(Line) THEN p + (j - i) + 1 = character
         ELSE p + (j - i) + 1 < character /\ storage[p + (j - i) + 1] = Nul

WordsStand ==
  phase \in {"reading", "matching"} =>
    /\ \A i \in Starts(Line) : \E j \in i .. Len(Line) : Stands(i, j)
    /\ \A k \in 1 .. Cardinality(Starts(Line)) : \E i \in Starts(Line) : Rank(Line, i) = k

\* Each word has its number.
LEMMA RankBounds ==
  ASSUME NEW s, IsLine(s), NEW i \in Starts(s)
  PROVE  Rank(s, i) \in 1 .. Cardinality(Starts(s))
<1> DEFINE T == {j \in Starts(s) : j <= i}
<1>1. T \subseteq Starts(s) /\ i \in T
  BY MarksFinite DEF IsLine
<1>2. IsFiniteSet(T) /\ Cardinality(T) \in Nat /\ Cardinality(T) <= Cardinality(Starts(s))
  BY <1>1, MarksFinite, FS_Subset, FS_CardinalityType
<1>3. Cardinality(T) # 0
  BY <1>1, <1>2, FS_EmptySet
<1> QED
  BY <1>2, <1>3, MarksFinite DEF Rank

LEMMA RankUnique ==
  ASSUME NEW s, IsLine(s), NEW i \in Starts(s), NEW j \in Starts(s), Rank(s, i) = Rank(s, j)
  PROVE  i = j
<1> DEFINE T(n) == {m \in Starts(s) : m <= n}
<1>1. i \in 1 .. Len(s) /\ j \in 1 .. Len(s) /\ Starts(s) \subseteq 1 .. Len(s)
  BY MarksFinite
<1>2. ASSUME NEW a \in Starts(s), NEW b \in Starts(s), a < b PROVE Rank(s, a) # Rank(s, b)
  <2>1. T(a) \subseteq T(b) /\ b \in T(b) /\ b \notin T(a)
    BY <1>1, <1>2 DEF IsLine
  <2>2. IsFiniteSet(T(b))
    BY MarksFinite, FS_Subset
  <2>3. Cardinality(T(a)) # Cardinality(T(b))
    BY <2>1, <2>2, FS_Subset
  <2> QED
    BY <2>3 DEF Rank
<1> QED
  BY <1>1, <1>2 DEF IsLine

LEMMA RankAppend ==
  ASSUME NEW s, IsLine(s), NEW c \in Text \cup {Space}
  PROVE  /\ \A i \in Starts(s) : i \in Starts(Append(s, c)) /\ Rank(Append(s, c), i) = Rank(s, i)
         /\ BeginsWord(s, c) =>
              /\ Len(s) + 1 \in Starts(Append(s, c))
              /\ Rank(Append(s, c), Len(s) + 1) = Cardinality(Starts(s)) + 1
<1>1. Starts(s) \subseteq 1 .. Len(s) /\ Len(s) \in Nat
  BY MarksFinite DEF IsLine
<1>2. Starts(Append(s, c)) = IF BeginsWord(s, c) THEN Starts(s) \cup {Len(s) + 1}
                             ELSE Starts(s)
  BY StartsAppend
<1>3. ASSUME NEW i \in Starts(s)
      PROVE  i \in Starts(Append(s, c)) /\ Rank(Append(s, c), i) = Rank(s, i)
  <2>1. {j \in Starts(Append(s, c)) : j <= i} = {j \in Starts(s) : j <= i}
    BY <1>1, <1>2
  <2> QED
    BY <1>2, <2>1 DEF Rank
<1>4. ASSUME BeginsWord(s, c)
      PROVE  /\ Len(s) + 1 \in Starts(Append(s, c))
             /\ Rank(Append(s, c), Len(s) + 1) = Cardinality(Starts(s)) + 1
  <2>1. {j \in Starts(Append(s, c)) : j <= Len(s) + 1} = Starts(Append(s, c))
    BY <1>1, <1>2
  <2>2. Cardinality(Starts(Append(s, c))) = Cardinality(Starts(s)) + 1
    BY <1>4, CountAppend, MarksFinite
  <2> QED
    BY <1>2, <1>4, <2>1, <2>2 DEF Rank
<1> QED
  BY <1>3, <1>4

\* The numbers have no gap.
LEMMA RanksFill ==
  ASSUME NEW s, IsLine(s), NEW c \in Text \cup {Space},
         \A k \in 1 .. Cardinality(Starts(s)) : \E i \in Starts(s) : Rank(s, i) = k
  PROVE  \A k \in 1 .. Cardinality(Starts(Append(s, c))) :
           \E i \in Starts(Append(s, c)) : Rank(Append(s, c), i) = k
<1> SUFFICES ASSUME NEW k \in 1 .. Cardinality(Starts(Append(s, c)))
             PROVE  \E i \in Starts(Append(s, c)) : Rank(Append(s, c), i) = k
  OBVIOUS
<1>1. Cardinality(Starts(s)) \in Nat
  BY MarksFinite
<1>2. CASE k \in 1 .. Cardinality(Starts(s))
  BY <1>2, RankAppend
<1>3. CASE k \notin 1 .. Cardinality(Starts(s))
  <2>1. BeginsWord(s, c) /\ k = Cardinality(Starts(s)) + 1
    BY <1>1, <1>3, CountAppend
  <2> QED
    BY <2>1, RankAppend
<1> QED
  BY <1>2, <1>3

\* A word that is closed stays as it is.
LEMMA ClosedWordStays ==
  ASSUME TypeOK, IsLine(Line), NEW c \in Text \cup {Space}, Line' = Append(Line, c),
         NEW i \in Starts(Line), NEW j \in i .. Len(Line), Stands(i, j), j < Len(Line),
         character' \in Nat, character <= character',
         \A p \in Cells : p < character => storage'[p] = storage[p],
         arguments'[Rank(Line, i)] = arguments[Rank(Line, i)]
  PROVE  Stands(i, j)'
<1> USE SizeAssumption
<1>1. PICK n \in Nat : n = Len(Line)
  BY DEF IsLine
<1>2. i \in 1 .. n /\ j \in i .. n /\ j < n
  BY <1>1, MarksFinite
<1>3. Len(Line') = n + 1 /\ \A m \in 1 .. n : Line'[m] = Line[m]
  BY <1>1 DEF IsLine
<1>4. PICK p \in Cells : p = arguments[Rank(Line, i)]
  BY DEF Stands
<1>5. /\ \A m \in i .. j : Line[m] # Space /\ storage[p + (m - i)] = Line[m]
      /\ Line[j + 1] = Space
      /\ p + (j - i) + 1 < character /\ storage[p + (j - i) + 1] = Nul
  BY <1>1, <1>2, <1>4 DEF Stands, IsWord
<1>0. p \in Nat /\ p < StorageSize /\ character \in Nat /\ character <= StorageSize
  BY DEF Cells, TypeOK
<1>6. /\ \A m \in i .. j : m \in 1 .. n /\ p + (m - i) \in Cells /\ p + (m - i) < character
      /\ j + 1 \in 1 .. n /\ p + (j - i) + 1 \in Cells
  BY <1>0, <1>2, <1>5 DEF Cells
<1>7. Rank(Line', i) = Rank(Line, i)
  BY RankAppend
<1>8. IsWord(Line', i, j)
  BY <1>2, <1>3, <1>5, <1>6 DEF IsWord
<1>9. ASSUME NEW m \in i .. j PROVE storage'[p + (m - i)] = Line'[m]
  <2>1. storage'[p + (m - i)] = storage[p + (m - i)]
    BY <1>6
  <2> QED
    BY <1>3, <1>5, <1>6, <2>1
<1>10. j # n + 1 /\ p + (j - i) + 1 < character' /\ storage'[p + (j - i) + 1] = Nul
  <2>1. storage'[p + (j - i) + 1] = storage[p + (j - i) + 1]
    BY <1>5, <1>6
  <2> QED
    BY <1>0, <1>2, <1>5, <2>1
<1> QED
  BY <1>3, <1>4, <1>7, <1>8, <1>9, <1>10 DEF Stands

\* At a boundary no word is open.
LEMMA WordsAreClosed ==
  ASSUME FitInv, IsLine(Line), phase = "reading", AtBoundary,
         NEW i \in Starts(Line), NEW j \in i .. Len(Line), Stands(i, j)
  PROVE  j < Len(Line)
<1>1. Line # <<>> /\ i \in 1 .. Len(Line)
  BY MarksFinite DEF Starts
<1>2. Line[Len(Line)] = Space
  BY <1>1 DEF FitInv, Edge
<1>3. Line[j] # Space
  BY <1>1 DEF Stands, IsWord, IsLine
<1> QED
  BY <1>1, <1>2, <1>3 DEF IsLine

\* What is stored in the place of the character extends or closes a word that is open.
LEMMA OpenWordGrows ==
  ASSUME TypeOK, CharacterAssumption, character \in Cells, IsLine(Line),
         NEW c \in Text \cup {Space}, Line' = Append(Line, c),
         NEW i \in Starts(Line), Stands(i, Len(Line)),
         character' = character + 1,
         storage' = [storage EXCEPT ![character] = IF c = Space THEN Nul ELSE c],
         arguments' = arguments
  PROVE  \E j \in i .. Len(Line') : Stands(i, j)'
<1> USE SizeAssumption
<1>1. PICK n \in Nat : n = Len(Line)
  BY DEF IsLine
<1>2. i \in 1 .. n
  BY <1>1, MarksFinite
<1>3. Len(Line') = n + 1 /\ Line'[n + 1] = c /\ \A m \in 1 .. n : Line'[m] = Line[m]
  BY <1>1 DEF IsLine
<1>4. PICK p \in Cells : p = arguments[Rank(Line, i)]
  BY DEF Stands
<1>5. /\ \A m \in i .. n : Line[m] # Space /\ storage[p + (m - i)] = Line[m]
      /\ p + (n - i) + 1 = character
  BY <1>1, <1>4 DEF Stands, IsWord
<1>0. p \in Nat /\ p < StorageSize /\ character \in Nat /\ character < StorageSize
  BY DEF Cells
<1>6. \A m \in i .. n : m \in 1 .. n /\ p + (m - i) \in Cells /\ p + (m - i) # character
  BY <1>0, <1>2, <1>5 DEF Cells
<1>7. Rank(Line', i) = Rank(Line, i)
  BY RankAppend
<1>8. /\ \A m \in i .. n : storage'[p + (m - i)] = Line'[m]
      /\ storage'[character] = IF c = Space THEN Nul ELSE c
  BY <1>3, <1>5, <1>6 DEF TypeOK
<1>9. CASE c = Space
  <2>1. IsWord(Line', i, n)
    BY <1>2, <1>3, <1>5, <1>6, <1>9 DEF IsWord
  <2>2. n # n + 1 /\ p + (n - i) + 1 < character' /\ storage'[p + (n - i) + 1] = Nul
    BY <1>5, <1>8, <1>9 DEF Cells
  <2>3. Stands(i, n)'
    BY <1>3, <1>4, <1>7, <1>8, <2>1, <2>2 DEF Stands
  <2> QED
    BY <1>2, <1>3, <2>3
<1>10. CASE c # Space
  <2>1. \A m \in i .. n + 1 : m \in i .. n \/ m = n + 1
    BY <1>2
  <2>2. IsWord(Line', i, n + 1)
    <3>1. n + 1 \in i .. Len(Line') /\ n + 1 = Len(Line')
      BY <1>2, <1>3
    <3>2. \A m \in i .. n + 1 : Line'[m] # Space
      BY <1>3, <1>5, <1>6, <1>10, <2>1
    <3> QED
      BY <3>1, <3>2 DEF IsWord
  <2>3. p + ((n + 1) - i) = character /\ p + ((n + 1) - i) + 1 = character'
    BY <1>2, <1>5 DEF Cells
  <2>4. \A m \in i .. n + 1 : storage'[p + (m - i)] = Line'[m]
    BY <1>3, <1>8, <1>10, <2>1, <2>3
  <2>5. Stands(i, n + 1)'
    BY <1>3, <1>4, <1>7, <2>2, <2>3, <2>4 DEF Stands
  <2> QED
    BY <1>2, <1>3, <2>5
<1> QED
  BY <1>9, <1>10

LEMMA WordsStep == BufferInv /\ FitInv /\ WordsStand /\ [Next]_vars => WordsStand'
<1> SUFFICES ASSUME BufferInv, FitInv, WordsStand, [Next]_vars PROVE WordsStand'
  OBVIOUS
<1>t. TypeOK /\ Started
  BY DEF BufferInv, FitInv
<1>1. CASE Initialize
  BY <1>1 DEF Initialize, WordsStand
<1>2. CASE Prompt
  <2>1. Line' = <<>>
    BY <1>2, <1>t DEF Prompt, Line, TypeOK
  <2>2. Starts(<<>>) = {}
    BY DEF Starts
  <2>3. Cardinality(Starts(Line')) = 0
    BY <2>1, <2>2, FS_EmptySet
  <2>4. \A k \in 1 .. 0 : FALSE
    OBVIOUS
  <2> QED
    BY <2>1, <2>2, <2>3, <2>4 DEF WordsStand
<1>3. ASSUME NEW c \in Text \cup {Space}, Type(c), phase' = "reading"
      PROVE  /\ phase = "reading" /\ IsLine(Line) /\ Line' = Append(Line, c)
             /\ \A i \in Starts(Line) : \E j \in i .. Len(Line) : Stands(i, j)
             /\ \A k \in 1 .. Cardinality(Starts(Line')) :
                  \E i \in Starts(Line') : Rank(Line', i) = k
  <2>1. phase = "reading" /\ IsLine(Line) /\ Line' = Append(Line, c)
    BY <1>3, <1>t, LineGrows DEF Type
  <2> QED
    BY <2>1, RanksFill DEF WordsStand
<1>4. CASE SkipSpace
  <2>1. Type(Space) /\ AtBoundary /\ phase' = phase
        /\ UNCHANGED <<storage, character, arguments>>
    BY <1>4 DEF SkipSpace, locals
  <2>2. phase' = "reading"
    BY <2>1 DEF Type
  <2>3. Starts(Line') = Starts(Line)
    BY <1>3, <2>1, <2>2, Classified, StartsAppend, <1>t
  <2>4. ASSUME NEW i \in Starts(Line) PROVE \E j \in i .. Len(Line') : Stands(i, j)'
    <3>1. PICK j \in i .. Len(Line) : Stands(i, j)
      BY <1>3, <2>1, <2>2
    <3>2. j < Len(Line)
      BY <1>3, <2>1, <2>2, <3>1, WordsAreClosed
    <3>3. Stands(i, j)'
      BY <1>3, <1>t, <2>1, <2>2, <3>1, <3>2, ClosedWordStays DEF TypeOK
    <3>4. Len(Line') = Len(Line) + 1 /\ i \in Nat
      BY <1>3, <2>1, <2>2, MarksFinite DEF IsLine
    <3> QED
      BY <1>3, <2>1, <2>2, <3>3, <3>4 DEF IsLine
  <2> QED
    BY <1>3, <2>1, <2>2, <2>3, <2>4 DEF WordsStand
<1>5. CASE EndArgument
  <2> SUFFICES ASSUME phase' = "reading" PROVE WordsStand'
    BY <1>5, <1>t DEF EndArgument, Type, Advance, WordsStand
  <2>1. /\ Type(Space) /\ ~AtBoundary /\ character' = character + 1 /\ arguments' = arguments
        /\ storage' = [storage EXCEPT ![character] = Nul]
    BY <1>5 DEF EndArgument, Advance
  <2>2. character \in Cells
    BY <1>t, <2>1, SizeAssumption DEF BufferInv, Room, Type, TypeOK, Cells
  <2>3. Starts(Line') = Starts(Line)
    BY <1>3, <2>1, StartsAppend DEF BeginsWord
  <2>4. ASSUME NEW i \in Starts(Line) PROVE \E j \in i .. Len(Line') : Stands(i, j)'
    <3>1. PICK j \in i .. Len(Line) : Stands(i, j)
      BY <1>3, <2>1
    <3>2. CASE j = Len(Line)
      BY <1>3, <1>t, <2>1, <2>2, <3>1, <3>2, OpenWordGrows, CharacterAssumption
    <3>3. CASE j # Len(Line)
      <4>1. /\ j < Len(Line) /\ Len(Line') = Len(Line) + 1 /\ j \in i .. Len(Line')
        BY <1>3, <2>1, <3>1, <3>3, MarksFinite DEF IsLine
      <4>2. character' \in Nat /\ character <= character'
        BY <2>1, <2>2 DEF Cells
      <4>3. \A p \in Cells : p < character => storage'[p] = storage[p]
        BY <1>t, <2>1, <2>2 DEF TypeOK, Cells
      <4>4. Stands(i, j)'
        BY <1>3, <1>t, <2>1, <3>1, <4>1, <4>2, <4>3, ClosedWordStays
      <4> QED
        BY <4>1, <4>4
    <3> QED
      BY <3>2, <3>3
  <2> QED
    BY <1>3, <2>1, <2>3, <2>4 DEF WordsStand
<1>6. CASE \E c \in Text : TooManyArguments(c)
  BY <1>6 DEF TooManyArguments, WordsStand
<1>7. CASE \E c \in Text : StoreText(c)
  <2>1. PICK c \in Text : StoreText(c)
    BY <1>7
  <2> SUFFICES ASSUME phase' = "reading" PROVE WordsStand'
    BY <1>t, <2>1 DEF StoreText, Type, Advance, WordsStand
  <2>2. /\ Type(c) /\ c # Space /\ character' = character + 1
        /\ storage' = [storage EXCEPT ![character] = c]
        /\ arguments' = IF AtBoundary THEN [arguments EXCEPT ![argument] = character]
                        ELSE arguments
        /\ AtBoundary => argument # MaxArguments + 1
    BY <2>1, CharacterAssumption DEF StoreText, Advance
  <2>3. /\ character \in Cells /\ character' \in Nat /\ character <= character'
        /\ \A p \in Cells : p < character => storage'[p] = storage[p]
        /\ storage'[character] = c
    BY <1>t, <2>2, SizeAssumption DEF BufferInv, Room, Type, TypeOK, Cells
  <2>4. BeginsWord(Line, c) <=> AtBoundary
    BY <1>t, <2>2, Classified
  <2>5. /\ phase = "reading" /\ IsLine(Line) /\ Line' = Append(Line, c)
        /\ \A i \in Starts(Line) : \E j \in i .. Len(Line) : Stands(i, j)
        /\ \A k \in 1 .. Cardinality(Starts(Line')) :
             \E i \in Starts(Line') : Rank(Line', i) = k
    BY <1>3, <2>2
  <2>6. Starts(Line') = IF AtBoundary THEN Starts(Line) \cup {Len(Line) + 1} ELSE Starts(Line)
    BY <2>4, <2>5, StartsAppend
  <2>7. PICK n \in Nat : n = Len(Line) /\ Len(Line') = n + 1 /\ Line'[n + 1] = c
    BY <2>5 DEF IsLine
  <2>8. ASSUME NEW i \in Starts(Line) PROVE \E j \in i .. Len(Line') : Stands(i, j)'
    <3>1. PICK j \in i .. Len(Line) : Stands(i, j)
      BY <2>5
    <3>2. CASE j = Len(Line) /\ ~AtBoundary
      BY <1>t, <2>2, <2>3, <2>5, <3>1, <3>2, OpenWordGrows, CharacterAssumption
    <3>3. CASE j # Len(Line) \/ AtBoundary
      <4>1. j < Len(Line) /\ j \in i .. Len(Line')
        <5>1. i \in 1 .. n
          BY <2>5, <2>7, MarksFinite
        <5>2. AtBoundary => j < n
          BY <2>5, <2>7, <3>1, WordsAreClosed
        <5> QED
          BY <2>7, <3>1, <3>3, <5>1, <5>2
      <4>2. arguments'[Rank(Line, i)] = arguments[Rank(Line, i)]
        <5>1. CASE AtBoundary
          <6>1. Cardinality(Starts(Line)) = argument - 1
            BY <2>5, <5>1 DEF FitInv, Counted
          <6>2. Rank(Line, i) # argument
            BY <1>t, <2>5, <6>1, RankBounds DEF TypeOK
          <6> QED
            BY <1>t, <2>2, <5>1, <6>2 DEF TypeOK
        <5>2. CASE ~AtBoundary
          BY <2>2, <5>2
        <5> QED
          BY <5>1, <5>2
      <4>3. Stands(i, j)'
        BY <1>t, <2>3, <2>5, <3>1, <4>1, <4>2, ClosedWordStays
      <4> QED
        BY <4>1, <4>3
    <3> QED
      BY <3>2, <3>3
  <2>9. ASSUME AtBoundary PROVE \E j \in n + 1 .. Len(Line') : Stands(n + 1, j)'
    <3>1. Cardinality(Starts(Line)) = argument - 1
      BY <2>5, <2>9 DEF FitInv, Counted
    <3>2. Rank(Line', n + 1) = argument
      BY <1>t, <2>4, <2>5, <2>7, <2>9, <3>1, RankAppend DEF TypeOK
    <3>3. arguments'[argument] = character
      BY <1>t, <2>2, <2>9, SizeAssumption DEF TypeOK, Slots
    <3>4. IsWord(Line', n + 1, n + 1)
      BY <2>2, <2>7 DEF IsWord
    <3>5. \A m \in n + 1 .. n + 1 : storage'[character + (m - (n + 1))] = Line'[m]
      <4>1. character + ((n + 1) - (n + 1)) = character
        BY <2>3 DEF Cells
      <4> QED
        BY <2>3, <2>7, <4>1
    <3>6. character + ((n + 1) - (n + 1)) + 1 = character'
      BY <2>2, <2>3 DEF Cells
    <3>7. Stands(n + 1, n + 1)'
      BY <2>3, <2>7, <3>2, <3>3, <3>4, <3>5, <3>6 DEF Stands
    <3> QED
      BY <2>7, <3>7
  <2>10. ASSUME NEW i \in Starts(Line') PROVE \E j \in i .. Len(Line') : Stands(i, j)'
    <3>1. CASE i \in Starts(Line)
      BY <2>8, <3>1
    <3>2. CASE i \notin Starts(Line)
      <4>1. AtBoundary /\ i = n + 1
        BY <2>6, <2>7, <3>2
      <4> QED
        BY <2>9, <4>1
    <3> QED
      BY <3>1, <3>2
  <2> QED
    BY <2>5, <2>10 DEF WordsStand
<1>8. CASE ReceiveReturn
  <2> SUFFICES ASSUME phase' = "matching" PROVE WordsStand'
    BY <1>8 DEF ReceiveReturn, WordsStand
  <2>1. /\ phase = "reading" /\ UNCHANGED <<typed, start, character, arguments>>
        /\ storage' = [storage EXCEPT ![character] = Nul]
    BY <1>8 DEF ReceiveReturn
  <2>2. Line' = Line /\ character \in Cells
    BY <1>t, <2>1, SizeAssumption DEF Line, BufferInv, Room, TypeOK, Cells
  <2>3. IsLine(Line)
    BY <1>t DEF TypeOK, Started, Line, IsLine
  <2>4. ASSUME NEW i \in Starts(Line), NEW j \in i .. Len(Line), Stands(i, j)
        PROVE  Stands(i, j)'
    <3>1. PICK p \in Cells : p = arguments[Rank(Line, i)]
      BY <2>4 DEF Stands
    <3>2. PICK n \in Nat : n = Len(Line) /\ i \in 1 .. n /\ j \in i .. n
      BY <2>3, MarksFinite DEF IsLine
    <3>3. /\ \A m \in i .. j : storage[p + (m - i)] = Line[m]
          /\ IF j = n THEN p + (j - i) + 1 = character
             ELSE p + (j - i) + 1 < character /\ storage[p + (j - i) + 1] = Nul
      BY <2>4, <3>1, <3>2 DEF Stands
    <3>0. p \in Nat /\ p < StorageSize /\ character \in Nat /\ character < StorageSize
      BY <2>2, SizeAssumption DEF Cells
    <3>4. \A m \in i .. j : p + (m - i) \in Cells /\ p + (m - i) # character
      BY <3>0, <3>2, <3>3, SizeAssumption DEF Cells
    <3>5. ASSUME NEW m \in i .. j PROVE storage'[p + (m - i)] = Line[m]
      <4>1. storage'[p + (m - i)] = storage[p + (m - i)]
        BY <1>t, <2>1, <3>4 DEF TypeOK
      <4> QED
        BY <3>3, <4>1
    <3>6. j # n => storage'[p + (j - i) + 1] = Nul
      <4>1. j # n => p + (j - i) + 1 \in Cells /\ p + (j - i) + 1 # character
        BY <3>0, <3>2, <3>3, SizeAssumption DEF Cells
      <4> QED
        BY <1>t, <2>1, <3>3, <4>1 DEF TypeOK
    <3> QED
      BY <2>1, <2>2, <2>4, <3>1, <3>2, <3>3, <3>5, <3>6 DEF Stands
  <2> QED
    BY <2>1, <2>2, <2>4 DEF WordsStand
<1>11. ASSUME UNCHANGED <<phase, typed, start, storage, character, arguments>>
       PROVE  WordsStand'
  <2>1. Line' = Line
    BY <1>11 DEF Line
  <2>2. ASSUME NEW i, NEW j, Stands(i, j) PROVE Stands(i, j)'
    BY <1>11, <2>1, <2>2 DEF Stands
  <2> QED
    BY <1>11, <2>1, <2>2 DEF WordsStand
<1>9. CASE TryHandler
  <2>1. CASE phase' = "idle"
    BY <2>1 DEF WordsStand
  <2>2. CASE UNCHANGED <<phase, typed, start, locals>>
    BY <1>11, <2>2 DEF locals
  <2> QED
    BY <1>9, <2>1, <2>2 DEF TryHandler, Conclude, locals
<1>10. CASE UNCHANGED vars
  BY <1>10, <1>11 DEF vars, locals
<1> QED
  BY <1>1, <1>2, <1>4, <1>5, <1>6, <1>7, <1>8, <1>9, <1>10 DEF Next

LEMMA WordsInvariant == Spec => [](BufferInv /\ FitInv /\ WordsStand)
<1>1. Init => WordsStand
  BY DEF Init, WordsStand
<1> QED
  BY <1>1, BufferInit, BufferStep, FitInit, FitStep, WordsStep, PTL DEF Spec

\* A word has one end.
LEMMA WordEnds ==
  ASSUME NEW s, IsLine(s), NEW i \in 1 .. Len(s), NEW j, NEW k, IsWord(s, i, j), IsWord(s, i, k)
  PROVE  j = k
<1>1. PICK n \in Nat : n = Len(s)
  BY DEF IsLine
<1>2. ASSUME NEW a, NEW b, IsWord(s, i, a), IsWord(s, i, b), a < b PROVE FALSE
  <2>1. a \in i .. n /\ b \in i .. n /\ i \in 1 .. n
    BY <1>1, <1>2 DEF IsWord
  <2>2. a # n /\ a + 1 \in i .. b
    BY <1>2, <2>1
  <2>3. s[a + 1] = Space /\ s[a + 1] # Space
    BY <1>1, <1>2, <2>2 DEF IsWord
  <2> QED
    BY <2>3
<1>3. j \in i .. n /\ k \in i .. n /\ i \in 1 .. n
  BY <1>1 DEF IsWord
<1>4. ~(j < k) /\ ~(k < j)
  BY <1>2
<1> QED
  BY <1>3, <1>4

\* What a handler reads at an argument is the word of its number.
LEMMA StringIsTheWord ==
  ASSUME BufferInv, FitInv, phase = "matching", NEW i \in Starts(Line), NEW j, Stands(i, j)
  PROVE  CString(arguments[Rank(Line, i)]) = WordAt(Line, i)
<1>1. IsLine(Line)
  BY DEF BufferInv, FitInv, TypeOK, Started, Line, IsLine
<1>2. PICK n \in Nat : n = Len(Line) /\ i \in 1 .. n
  BY <1>1, MarksFinite DEF IsLine
<1>3. PICK p \in Cells : p = arguments[Rank(Line, i)]
  BY DEF Stands
<1>4. /\ j \in i .. n /\ IsWord(Line, i, j)
      /\ \A m \in i .. j : storage[p + (m - i)] = Line[m] /\ Line[m] # Space
      /\ IF j = n THEN p + (j - i) + 1 = character
         ELSE p + (j - i) + 1 < character /\ storage[p + (j - i) + 1] = Nul
  BY <1>2, <1>3 DEF Stands, IsWord
<1>5. /\ p \in Nat /\ character \in Nat /\ character < StorageSize /\ storage[character] = Nul
  BY <1>3, SizeAssumption DEF BufferInv, TypeOK, Room, Terminated, Cells
<1>6. PICK q \in Cells : q = p + (j - i) + 1 /\ storage[q] = Nul
  <2>1. p + (j - i) + 1 \in Cells
    BY <1>2, <1>4, <1>5, SizeAssumption DEF Cells
  <2>2. storage[p + (j - i) + 1] = Nul
    BY <1>4, <1>5
  <2> QED
    BY <2>1, <2>2
<1>7. \A m \in i .. j : Line[m] \in Text
  <2>1. \A m \in i .. j : m \in 1 .. Len(Line)
    BY <1>2, <1>4
  <2> QED
    BY <1>1, <1>4, <2>1 DEF IsLine
<1>8. ASSUME NEW r \in p .. q - 1 PROVE storage[r] # Nul
  <2>1. PICK m \in i .. j : r = p + (m - i)
    <3>1. i + (r - p) \in i .. j /\ r = p + ((i + (r - p)) - i)
      BY <1>2, <1>4, <1>5, <1>6
    <3> QED
      BY <3>1
  <2> QED
    BY <1>4, <1>7, <2>1, CharacterAssumption
<1> DEFINE IsEnd(x) == x >= p /\ storage[x] = Nul /\ \A r \in p .. x - 1 : storage[r] # Nul
<1>9. IsEnd(q)
  BY <1>2, <1>4, <1>5, <1>6, <1>8
<1>10. \A x \in Cells : IsEnd(x) => x = q
  <2> SUFFICES ASSUME NEW x \in Cells, IsEnd(x) PROVE x = q
    OBVIOUS
  <2>1. x \in Nat /\ q \in Nat /\ x >= p /\ q >= p
    BY <1>5, <1>9, SizeAssumption DEF Cells
  <2>2. ~(x < q)
    <3>1. x < q => x \in p .. q - 1
      BY <1>5, <2>1
    <3> QED
      BY <1>8, <3>1
  <2>3. ~(q < x)
    <3>1. q < x => q \in p .. x - 1
      BY <1>5, <2>1
    <3> QED
      BY <1>6, <3>1
  <2> QED
    BY <2>1, <2>2, <2>3
<1>11. (CHOOSE x \in Cells : IsEnd(x)) = q
  <2> HIDE DEF IsEnd
  <2> QED
    BY <1>9, <1>10
<1>12. CString(p) = [t \in 1 .. q - p |-> storage[p + t - 1]]
  BY <1>11 DEF CString
<1>13. (CHOOSE x \in i .. Len(Line) :
          /\ \A m \in i .. x : Line[m] # Space
          /\ x = Len(Line) \/ Line[x + 1] = Space) = j
  <2>1. \A x \in i .. Len(Line) :
          (/\ \A m \in i .. x : Line[m] # Space
           /\ x = Len(Line) \/ Line[x + 1] = Space) <=> IsWord(Line, i, x)
    BY DEF IsWord
  <2>2. \A x \in i .. Len(Line) : IsWord(Line, i, x) <=> x = j
    BY <1>1, <1>2, <1>4, WordEnds
  <2> QED
    BY <1>2, <1>4, <2>1, <2>2
<1>14. WordAt(Line, i) = SubSeq(Line, i, j)
  BY <1>13 DEF WordAt
<1>15. q - p = (j - i) + 1
  BY <1>2, <1>4, <1>5, <1>6
<1>16. SubSeq(Line, i, j) = [t \in 1 .. (j - i) + 1 |-> Line[i + t - 1]]
  <2>1. i .. j \subseteq DOMAIN Line
    BY <1>1, <1>2, <1>4 DEF IsLine
  <2>2. SubSeq(Line, i, j) = [t \in 1 .. (1 + j - i) |-> Line[i + t - 1]]
    BY <1>1, <1>2, <1>4 DEF IsLine
  <2>3. 1 + j - i = (j - i) + 1
    BY <1>2, <1>4
  <2> QED
    BY <2>2, <2>3
<1>17. \A t \in 1 .. (j - i) + 1 : storage[p + t - 1] = Line[i + t - 1]
  <2> SUFFICES ASSUME NEW t \in 1 .. (j - i) + 1 PROVE storage[p + t - 1] = Line[i + t - 1]
    OBVIOUS
  <2>1. i + t - 1 \in i .. j /\ p + ((i + t - 1) - i) = p + t - 1
    BY <1>2, <1>4, <1>5
  <2>2. storage[p + ((i + t - 1) - i)] = Line[i + t - 1]
    BY <1>4, <2>1
  <2> QED
    BY <2>1, <2>2
<1> QED
  BY <1>3, <1>12, <1>14, <1>15, <1>16, <1>17

\* The handlers see exactly the words typed since the prompt, in their order, however
\* many spaces stand before, between and behind them: for every size of the buffers
\* and every line, and whatever storage had in it.
THEOREM HandlersSeeTheWords == Spec => []ArgumentsAreTheWords
<1>1. BufferInv /\ FitInv /\ WordsStand => ArgumentsAreTheWords
  <2> SUFFICES ASSUME BufferInv, FitInv, WordsStand, phase = "matching"
               PROVE  Passed = Words(Line)
    BY DEF ArgumentsAreTheWords
  <2> DEFINE n == Cardinality(Starts(Line))
             begin(k) == CHOOSE i \in Starts(Line) : Rank(Line, i) = k
  <2>0. IsLine(Line)
    BY DEF BufferInv, FitInv, TypeOK, Started, Line, IsLine
  <2>1. n = IF AtBoundary THEN argument - 1 ELSE argument
    BY DEF FitInv, Counted
  <2>2. n \in 0 .. MaxArguments
    BY <2>1, SizeAssumption DEF BufferInv, TypeOK, Filled, Slots
  <2>3. \A k \in Slots : arguments[k] # Null <=> k <= n
    BY <2>1 DEF BufferInv, TypeOK, Filled, Slots
  <2> HIDE DEF n
  <2>4. Valid = 1 .. n
    <3>1. \A k \in Slots : \A j \in 1 .. k : j \in Slots /\ j <= k
      BY SizeAssumption DEF Slots
    <3>2. \A k \in Slots : (\A j \in 1 .. k : arguments[j] # Null) <=> k <= n
      BY <2>2, <2>3, <3>1, SizeAssumption DEF Slots
    <3>3. \A k \in 1 .. n : k \in Slots /\ k <= n
      BY <2>2, SizeAssumption DEF Slots
    <3>4. \A k \in Slots : k <= n => k \in 1 .. n
      BY <2>2 DEF Slots
    <3> QED
      BY <3>2, <3>3, <3>4 DEF Valid
  <2>5. ASSUME NEW k \in 1 .. n PROVE CString(arguments[k]) = WordAt(Line, begin(k))
    <3>1. \E i \in Starts(Line) : Rank(Line, i) = k
      BY DEF WordsStand, n
    <3>2. begin(k) \in Starts(Line) /\ Rank(Line, begin(k)) = k
      BY <3>1
    <3> HIDE DEF begin
    <3>3. PICK j \in begin(k) .. Len(Line) : Stands(begin(k), j)
      BY <3>2 DEF WordsStand
    <3> QED
      BY <3>2, <3>3, StringIsTheWord
  <2>6. Words(Line) = [k \in 1 .. n |-> WordAt(Line, begin(k))]
    BY DEF Words, n
  <2>7. Passed = [k \in 1 .. n |-> CString(arguments[k])]
    BY <2>4 DEF Passed
  <2> QED
    BY <2>5, <2>6, <2>7
<1> QED
  BY <1>1, WordsInvariant, PTL

-----------------------------------------------------------------------------
(* Which handler runs.                                                     *)

\* The table has no entry behind a nullptr.
TableFilled ==
  \A j, k \in 1 .. MaxHandlers :
    j < k /\ command_handlers[j] = NoHandler => command_handlers[k] = NoHandler

\* The handlers behind the cursor have all been asked and have refused.
Refused ==
  phase = "matching" =>
    /\ handled = "nothing"
    /\ \A k \in 1 .. cursor - 1 :
         command_handlers[k] # NoHandler /\ command_handlers[k] # Passed[1]

DispatchInv ==
  /\ TableFilled
  /\ Refused
  /\ phase \in {"boot", "reading"} => cursor = 1 /\ handled = "nothing"
  /\ UnknownMeansNoHandler

LEMMA DispatchInit == Init => DispatchInv
BY DEF Init, DispatchInv, TableFilled, Refused, UnknownMeansNoHandler

LEMMA DispatchStep == BufferInv /\ DispatchInv /\ [Next]_vars => DispatchInv'
<1> SUFFICES ASSUME BufferInv, DispatchInv, [Next]_vars PROVE DispatchInv'
  OBVIOUS
<1> USE SizeAssumption DEF DispatchInv
<1>1. CASE Initialize
  <2>1. PICK table \in Tables :
          command_handlers' =
            IF Len(table) > MaxHandlers THEN command_handlers
            ELSE [k \in 1 .. MaxHandlers |->
                    IF k <= Len(table) THEN table[k] ELSE command_handlers[k]]
    BY <1>1 DEF Initialize
  <2>2. table \in Seq(Seq(Text))
    BY TableAssumption
  <2>3. \A k \in 1 .. Len(table) : table[k] # NoHandler
    BY <2>2, CharacterAssumption
  <2>4. TableFilled'
    <3>1. Len(table) \in Nat
      BY <2>2
    <3>2. CASE Len(table) > MaxHandlers
      BY <2>1, <3>2 DEF TableFilled
    <3>3. CASE Len(table) <= MaxHandlers
      <4>1. \A k \in 1 .. MaxHandlers :
              command_handlers'[k] = IF k <= Len(table) THEN table[k]
                                     ELSE command_handlers[k]
        BY <2>1, <3>3
      <4>2. SUFFICES ASSUME NEW j \in 1 .. MaxHandlers, NEW k \in 1 .. MaxHandlers,
                            j < k, command_handlers'[j] = NoHandler
                     PROVE  command_handlers'[k] = NoHandler
        BY DEF TableFilled
      <4>3. j > Len(table)
        BY <2>3, <3>1, <4>1, <4>2
      <4>4. command_handlers[j] = NoHandler /\ command_handlers'[k] = command_handlers[k]
        BY <3>1, <4>1, <4>2, <4>3
      <4> QED
        BY <4>2, <4>4 DEF TableFilled
    <3> QED
      BY <3>1, <3>2, <3>3
  <2> QED
    BY <1>1, <2>4 DEF Initialize, Refused, UnknownMeansNoHandler, DispatchInv
<1>2. CASE Prompt
  BY <1>2 DEF Prompt, TableFilled, Refused, UnknownMeansNoHandler
<1>3. CASE SkipSpace \/ \E c \in Text : TooManyArguments(c)
  BY <1>3 DEF SkipSpace, TooManyArguments, Type, TableFilled, Refused,
              UnknownMeansNoHandler
<1>4. CASE EndArgument \/ \E c \in Text : StoreText(c)
  BY <1>4 DEF EndArgument, StoreText, Type, Advance, TableFilled, Refused,
              UnknownMeansNoHandler
<1>5. CASE ReceiveReturn
  BY <1>5 DEF ReceiveReturn, TableFilled, Refused, UnknownMeansNoHandler
<1>6. CASE TryHandler
  <2>1. UNCHANGED <<command_handlers, storage, arguments>> /\ phase = "matching"
        /\ handled = "nothing"
    BY <1>6 DEF TryHandler, locals, Refused
  <2>2. Passed' = Passed
    BY <2>1 DEF Passed, Valid, CString
  <2>3. cursor \in 1 .. MaxHandlers + 1
    BY DEF BufferInv, TypeOK
  <2>4. CASE /\ Conclude("unknown")
             /\ cursor <= MaxHandlers => command_handlers[cursor] = NoHandler
    <3>1. \A k \in 1 .. MaxHandlers :
            command_handlers[k] # NoHandler => command_handlers[k] # Passed[1]
      BY <2>1, <2>3, <2>4 DEF Refused, TableFilled
    <3> QED
      BY <2>1, <2>2, <2>4, <3>1 DEF Conclude, TableFilled, Refused, UnknownMeansNoHandler
  <2>5. CASE /\ Conclude("accepted")
             /\ cursor <= MaxHandlers /\ command_handlers[cursor] # NoHandler
             /\ command_handlers[cursor] = Passed[1]
    BY <2>1, <2>2, <2>3, <2>5 DEF Conclude, TableFilled, Refused, UnknownMeansNoHandler
  <2>6. CASE /\ cursor <= MaxHandlers /\ command_handlers[cursor] # NoHandler
             /\ command_handlers[cursor] # Passed[1]
             /\ cursor' = cursor + 1 /\ UNCHANGED <<phase, handled>>
    BY <2>1, <2>2, <2>3, <2>6 DEF TableFilled, Refused, UnknownMeansNoHandler
  <2> QED
    BY <1>6, <2>3, <2>4, <2>5, <2>6 DEF TryHandler
<1>7. CASE UNCHANGED vars
  <2>1. Passed' = Passed
    BY <1>7 DEF vars, Passed, Valid, CString
  <2> QED
    BY <1>7, <2>1 DEF vars, TableFilled, Refused, UnknownMeansNoHandler
<1> QED
  BY <1>1, <1>2, <1>3, <1>4, <1>5, <1>6, <1>7 DEF Next

\* For every table of handlers: the loop over it, which stops at the first
\* nullptr, overlooks nobody who answers to the command.
THEOREM EveryHandlerIsAsked == Spec => []UnknownMeansNoHandler
<1>1. DispatchInv => UnknownMeansNoHandler
  BY DEF DispatchInv
<1> QED
  BY <1>1, BufferInvariant, DispatchInit, DispatchStep, PTL DEF Spec
=============================================================================
