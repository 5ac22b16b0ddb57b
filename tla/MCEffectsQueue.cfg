CONSTANTS
    w1 = w1
    w2 = w2
    c1 = c1
    c2 = c2
    extent = extent
    all = all
    NoWrite = NoWrite
    Writes = {w1, w2}
    Chunks = {c1, c2}
    Lanes = {extent}
    Touches <- Touching
    Lane <- LaneOf
    Depth = 1
    BatchMax = 2
    MaxAttempts = 2
    MaxCommits = 2
    MaxRuns = 2
    MaxEpoch = 3
    MaxFaults = 1
SPECIFICATION FairSpec
INVARIANTS EffectsTypeOK LaneOrder
PROPERTIES  CallsEnd
CHECK_DEADLOCK FALSE
