SPECIFICATION Spec
CONSTANTS
  Slots = 5
  SlotSize = 5
  ReadSize = 2
  MinLeftOver = 1
  JobEnd = 60
  Fails = {"dma", "other"}
  Sends = {4, 13, 20}
  Extras <- Ex
  Modules <- Mods
  Scans <- Sched
INVARIANTS InOrder
PROPERTIES Ends
