SPECIFICATION Spec
CONSTANTS
  NumCores = 2
  RING = 2
  VisLength = 4
  Scans <- SlowScans
  StartupRace = FALSE
INVARIANTS
  TypeOK
  RingMatchesLocks
  VisExclusion
  OwnTime
  WrittenOnceInOrder
  NothingLost
  OwnIntegration
  WrittenWhenComplete
PROPERTY
  Terminates
