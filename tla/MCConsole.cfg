CONSTANTS
  BufferSize = 2
  TopLevel = 2
  Lengths = {0, 2, 3}
  MaxArguments = 2
SPECIFICATION FairSpec
INVARIANT LinesAreWholeOrLost
PROPERTY HandlersReturn
