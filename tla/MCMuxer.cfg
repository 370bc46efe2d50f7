CONSTANTS
    W = 2
    ReadTimes = 3
    FramesPerSecond = 3
    Formats <- McFormats
    Faulty <- McFaulty
    Times = 17
    MaxJunk = 2
    MaxGap = 4
    Inputs <- McInputs
SPECIFICATION Spec
INVARIANTS InOrder SamplesTurned NothingLost
