SPECIFICATION Spec
CONSTANTS
  NumSegments = 6
  SegBlocks = 4
  SendBlocks = 2
  MaxSends = 6
  FlagsPerInt = 1
  Scans <- LongScans
  Sources = {"file", "network", "fake"}
  Files <- LongFiles
  Frames <- LongFrames
INVARIANTS
  TypeOK
  SentDataIntact
  SegmentExclusion
  NothingSkipped
PROPERTIES
  Terminates
  Answers
