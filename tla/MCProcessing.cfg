\* Every block is correlated once, with the right samples, weight and time.
SPECIFICATION Spec
CONSTANTS
  SampleNum = 5
  SampleDen = 4
  Fft = 8
  Blocks = 7
  FlagsPerInt = 2
  ReadBytes = 112
  GuardNS = 10
  MinFreqResolution = 1
  Threads = 2
  Buffered = 2
  Datastreams = 2
  Baselines <- TwoDatastreams
  Jobs <- MCJobs
INVARIANTS
  WindowsTile
  WeightsAreData
  SamplesRight
