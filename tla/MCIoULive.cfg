CONSTANTS
    IoUs = {u1, u2, u3}
    IodepthBatch = 1
    CompleteMin = 1
    CompleteMax = 2
    IodepthLow = 1
    LatencyQd = 2
    HasCommit = TRUE
    Thinktime = TRUE
    ContinueOn = {"READ", "WRITE"}
    Outcomes = {"ok", "error"}
    MaxGets = 4
    MaxLoops = 1
    MaxFaults = 1
    UINT = 16
SPECIFICATION Spec
INVARIANT NeverStarved
PROPERTY JobEnds
