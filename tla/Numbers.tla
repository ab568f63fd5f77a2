------------------------------ MODULE Numbers ------------------------------
(***************************************************************************)
(* How numbers get in and out of the command line: from_string of          *)
(* src/nodes/common/utilities.hpp, the formatted write of cli.hpp, hexdump *)
(* of cli.cpp, and the commands hex and dec of the example, which a user   *)
(* types, or puts together from what is shown on the screen.               *)
(*                                                                         *)
(* A text is a sequence of characters: digits, which are the numbers they  *)
(* stand for, and Other, any other character, as the x of 0x.  Upper and   *)
(* lower case are not told apart.                                          *)
(***************************************************************************)
EXTENDS Integers, Sequences

CONSTANTS
  Decimal, Hexadecimal,  \* the bases, 10 and 16
  Limit,                 \* 2^32
  RowLength,             \* bytes in a row of a dump, 4
  RowDigits,             \* of a row's number, 3
  Other,
  MaxLength,             \* bound on the length of a text
  Blocks                 \* the data that is dumped

ByteSize == Hexadecimal * Hexadecimal

ASSUME BaseAssumption ==
  /\ Decimal \in Nat \ {0, 1} /\ Hexadecimal \in Nat /\ Decimal < Hexadecimal
  /\ Limit \in Nat \ {0}
  /\ RowLength \in Nat \ {0} /\ RowDigits \in Nat \ {0}
  /\ MaxLength \in Nat /\ Blocks \subseteq Seq(0 .. ByteSize - 1)
  /\ Other \notin 0 .. Hexadecimal - 1

VARIABLES
  command,  \* the last command, and the arguments it was given
  texts,
  copied,   \* how its argument was made from the screen: not, the digits, or all
  from,     \* history: the command that had shown them
  origin,   \* history: and their value
  screen,   \* what was shown last
  block,    \* the data dumped last
  rows

numberVars == <<command, texts, copied, from, origin, screen, block, rows>>

Texts == UNION {[1 .. n -> (0 .. Hexadecimal - 1) \cup {Other}] : n \in 1 .. MaxLength}

Result(prefix, text) == [kind |-> "result", prefix |-> prefix, text |-> text]
Error(reason)        == [kind |-> reason,   prefix |-> <<>>,   text |-> <<>>]

-----------------------------------------------------------------------------
\* What digits of a base stand for, place by place.
Powers(base) ==
  LET power[n \in Nat] == IF n = 0 THEN 1 ELSE base * power[n - 1]
  IN  power

Places(digits, base) ==
  LET sum[n \in 0 .. Len(digits)] ==
        IF n = 0 THEN 0
        ELSE sum[n - 1] + digits[Len(digits) - n + 1] * Powers(base)[n - 1]
  IN  sum

Value(digits, base) == Places(digits, base)[Len(digits)]

\* The digits from_chars reads: all up to the first character that is none.
Leading(text, base) ==
  LET IsDigit(i) == text[i] \in 0 .. base - 1
  IN  SubSeq(text, 1, CHOOSE n \in 0 .. Len(text) :
                        /\ \A i \in 1 .. n : IsDigit(i)
                        /\ n = Len(text) \/ ~IsDigit(n + 1))

\* Mutant: the limit is checked before the digit.
AddDigitEarly(value, digit, base) ==
  IF value = -1 \/ value >= Limit \div base THEN -1 ELSE value * base + digit

\* One turn of its loop; -1 if the value does not fit the type.
AddDigit(value, digit, base) ==
  IF value = -1 \/ value * base + digit >= Limit THEN -1 ELSE value * base + digit

Accumulated(digits, base) ==
  LET value[n \in 0 .. Len(digits)] ==
        IF n = 0 THEN 0 ELSE AddDigit(value[n - 1], digits[n], base)
  IN  value

Evaluate(digits, base) == Accumulated(digits, base)[Len(digits)]

\* Mutant: a tail makes the text invalid.
FromStringWhole(text, base) ==
  IF Leading(text, base) # text THEN -1 ELSE Evaluate(text, base)

\* from_string<uint32_t>: -1 stands for nullopt.
FromString(text, base) ==
  LET digits == Leading(text, base)
  IN  IF digits = <<>> THEN -1 ELSE Evaluate(digits, base)

\* to_chars: no leading zeros, and a single one for 0.
Size(value, base) ==
  CHOOSE n \in 1 .. value + 1 :
    value < Powers(base)[n] /\ (n = 1 \/ Powers(base)[n - 1] <= value)

ToChars(value, base) ==
  LET size == Size(value, base)
  IN  [i \in 1 .. size |-> (value \div Powers(base)[size - i]) % base]

\* write of an integer and its format: filled up to the width, never cut.
Write(value, base, leading_zeros) ==
  LET text == ToChars(value, base)
  IN  [i \in 1 .. leading_zeros - Len(text) |-> 0] \o text

-----------------------------------------------------------------------------
NumberInit ==
  /\ command = "none" /\ texts = <<>>
  /\ copied  = "no"   /\ from  = "none" /\ origin = 0
  /\ screen  = Error("none")
  /\ block   = <<>>   /\ rows = <<>>

\* The command's arguments are counted, read and answered.
Handle(base, prefix, to) ==
  IF Len(texts') # 1 THEN screen' = Error("count")
  ELSE LET value == FromString(texts'[1], base)
       IN  screen' = IF value = -1 THEN Error("value")
                     ELSE Result(prefix, Write(value, to, 0))

HandleHexCommand == command' = "hex" /\ Handle(Decimal, <<0, Other>>, Hexadecimal)
HandleDecCommand == command' = "dec" /\ Handle(Hexadecimal, <<>>, Decimal)

Enter ==
  /\ HandleHexCommand \/ HandleDecCommand
  /\ block' = <<>> /\ rows' = <<>>

\* Arguments are typed.
TypeArguments ==
  /\ \/ \E text \in Texts : texts' = <<text>>
     \/ texts' = <<>>
     \/ \E digit \in 0 .. 1 : texts' = <<<<digit>>, <<digit>>>>
  /\ copied' = "no" /\ from' = "none" /\ origin' = 0
  /\ Enter

\* The base of the digits on the screen.
Shown == IF command = "hex" THEN Hexadecimal ELSE Decimal

\* Or they are copied from the screen.
Copy ==
  /\ screen.kind = "result"
  /\ \/ texts' = <<screen.text>> /\ copied' = "digits"
     \/ texts' = <<screen.prefix \o screen.text>> /\ copied' = "all"
  /\ from' = command /\ origin' = Value(screen.text, Shown)
  /\ Enter

\* A dump takes the place of what was shown.
Cleared ==
  /\ command' = "none" /\ texts' = <<>>
  /\ copied'  = "no"   /\ from'  = "none" /\ origin' = 0
  /\ screen'  = Error("none")

\* Mutant: a short row is left out.
HexdumpShort(data) ==
  /\ block' = data
  /\ rows'  = [r \in 1 .. Len(data) \div RowLength |->
                 [number |-> Write(r - 1, Decimal, RowDigits),
                  cells  |-> [i \in 1 .. RowLength |->
                                Write(data[(r - 1) * RowLength + i], Hexadecimal, 2)],
                  blanks |-> 0]]
  /\ Cleared

\* The loop runs while row * row_length is less than the size; the last row has the
\* rest and is filled up with blanks, one cell wide each.
Hexdump(data) ==
  LET last    == (Len(data) + RowLength - 1) \div RowLength
      bytes(r) == IF Len(data) - (r - 1) * RowLength < RowLength
                  THEN Len(data) - (r - 1) * RowLength ELSE RowLength
  IN  /\ block' = data
      /\ rows'  = [r \in 1 .. last |->
                     [number |-> Write(r - 1, Decimal, RowDigits),
                      cells  |-> [i \in 1 .. bytes(r) |->
                                    Write(data[(r - 1) * RowLength + i], Hexadecimal, 2)],
                      blanks |-> RowLength - bytes(r)]]
      /\ Cleared

NumberNext == TypeArguments \/ Copy \/ \E data \in Blocks : Hexdump(data)

NumberSpec == NumberInit /\ [][NumberNext]_numberVars

-----------------------------------------------------------------------------
\* A command is refused exactly if it has not one argument, or that does not begin
\* with a digit, or the digits it begins with make a number of more than 32 bits: a
\* tail of other characters is never refused and a number never wraps around.
RefusedOnlyIfUnreadable ==
  command # "none" =>
    LET base   == IF command = "hex" THEN Decimal ELSE Hexadecimal
        digits == Leading(texts[1], base)
    IN  (screen.kind # "result") <=>
          (Len(texts) # 1 \/ digits = <<>> \/ Value(digits, base) >= Limit)

\* The commands undo each other: the digits one has shown, given to the other, are
\* accepted and shown as the same number, up to the widest one.
DigitsComeBack ==
  copied = "digits" /\ from # command =>
    screen.kind = "result" /\ Value(screen.text, Shown) = origin

\* A dump can be read back: the cells of its rows are the bytes in their order, two
\* digits each; rows are numbered, equally wide, and as many as the bytes need.
DumpReadsBack ==
  /\ Len(block) <= Len(rows) * RowLength
  /\ \A r \in DOMAIN rows :
       LET first == (r - 1) * RowLength
           row   == rows[r]
       IN  /\ first < Len(block)
           /\ Value(row.number, Decimal) = r - 1
           /\ r - 1 < Powers(Decimal)[RowDigits] => Len(row.number) = RowDigits
           /\ Len(row.cells) + row.blanks = RowLength
           /\ \A i \in 1 .. RowLength :
                IF first + i <= Len(block)
                THEN /\ i \in DOMAIN row.cells /\ Len(row.cells[i]) = 2
                     /\ Value(row.cells[i], Hexadecimal) = block[first + i]
                ELSE i \notin DOMAIN row.cells
=============================================================================
