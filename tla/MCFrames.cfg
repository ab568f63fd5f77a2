CONSTANTS
  SpiBufferSize = 6
  MaxFrame = 5
  Fcs = 2
  Header = 1
  Memory = 9
  Word = 32
  Lengths = {0, 1, 2, 4, 5, 8}
  MaxFrames = 3
SPECIFICATION Spec
INVARIANTS OnlyOddFramesOverrun FramesLeaveWhole NewestFirst
\* A frame that is too short ends everything.
CHECK_DEADLOCK FALSE
