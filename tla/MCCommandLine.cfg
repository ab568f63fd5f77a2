CONSTANTS
  StorageSize = 5
  MaxArguments = 2
  MaxHandlers = 3
  MaxTyped = 7
  a = a
  b = b
  Text = {a, b}
  Tables <- SomeTables
  Space = Space
  Nul = Nul
  Garbage = Garbage
  NoHandler = NoHandler
SPECIFICATION Spec
INVARIANTS ArgumentsWellFormed ArgumentsAreTheWords MatchesWholeLinesThatFit UnknownMeansNoHandler
