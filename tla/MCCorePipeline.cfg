SPECIFICATION Spec
CONSTANTS
  NumThreads = 2
  RING = 4
  Configs = {0,1}
  FirstConfig = 0
  MaxSubints = 6
  Spurious = FALSE
PROPERTIES
  ImplementsPipeline
  Terminates
