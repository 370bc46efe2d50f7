SPECIFICATION Spec
CONSTANTS
  NumThreads = 3
  RING = 4
  Configs = {0,1}
  FirstConfig = 0
  MaxSubints = 6
  Spurious = TRUE
INVARIANTS
  TypeOK
  SlotExclusion
  WorkersSeeTheirSubint
  SentCompleteInOrder
