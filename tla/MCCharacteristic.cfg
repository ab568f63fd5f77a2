CONSTANTS
  MaxSize = 3
  MaxSpan = 5
  MaxSets = 4
SPECIFICATION Spec
INVARIANTS PeerReadsTheLastValue NothingOlderIsRead
