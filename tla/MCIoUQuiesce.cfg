CONSTANTS
    IoUs = {u1, u2, u3}
    IodepthBatch = 2
    CompleteMin = 1
    CompleteMax = 3
    IodepthLow = 3
    LatencyQd = 0
    HasCommit = TRUE
    Thinktime = TRUE
    ContinueOn = {}
    Outcomes = {"ok"}
    MaxGets = 3
    MaxLoops = 0
    MaxFaults = 0
    UINT = 16
SPECIFICATION Spec
PROPERTY QuiesceReturns
