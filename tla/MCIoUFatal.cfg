CONSTANTS
    IoUs = {u1, u2}
    IodepthBatch = 1
    CompleteMin = 1
    CompleteMax = 2
    IodepthLow = 1
    LatencyQd = 0
    HasCommit = TRUE
    Thinktime = FALSE
    ContinueOn = {"READ"}
    Outcomes = {"ok", "error"}
    MaxGets = 3
    MaxLoops = 0
    MaxFaults = 0
    UINT = 16
SPECIFICATION Spec
INVARIANT FatalReported
