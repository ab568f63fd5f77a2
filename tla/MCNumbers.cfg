CONSTANTS
  Decimal = 3
  Hexadecimal = 4
  Limit = 16
  RowLength = 2
  RowDigits = 3
  Other = Other
  MaxLength = 3
  Blocks <- SomeBlocks
SPECIFICATION NumberSpec
INVARIANTS RefusedOnlyIfUnreadable DigitsComeBack DumpReadsBack
