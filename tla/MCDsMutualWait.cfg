SPECIFICATION Spec
CONSTANTS
  NumSegments = 5
  SegBlocks = 2
  SendBlocks = 2
  MaxSends = 3
  FlagsPerInt = 1
  Scans <- OneScan
  Sources = {"file"}
  Files <- TwoFiles
  Frames <- TwoFiles
PROPERTY
  Answers
CHECK_DEADLOCK FALSE
