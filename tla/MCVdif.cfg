SPECIFICATION Spec
CONSTANTS
  Slots = 5
  SlotSize = 5
  ReadSize = 2
  MinLeftOver = 1
  JobEnd = 68
  BadFiles = {2}
  Jumps = {0, 4}
  Extras <- SomeExtras
  FileLists <- SomeFiles
  Scans <- SomeScans
INVARIANTS InOrder
PROPERTIES Terminates
