CONSTANTS
    IoUs = {u1, u2, u3}
    IodepthBatch = 2
    CompleteMin = 1
    CompleteMax = 2
    IodepthLow = 1
    LatencyQd = 0
    HasCommit = TRUE
    Thinktime = TRUE
    ContinueOn = {"READ"}
    Outcomes = {"ok", "short", "error"}
    MaxGets = 5
    MaxLoops = 1
    MaxFaults = 1
    UINT = 16
SPECIFICATION Spec
SYMMETRY Symmetry
INVARIANTS TypeOK DepthExact SumExact IssuesExact FlagsAgree RequeuesExact WaitsForWhatCanCome NeverStarved DrainsAll LateBounded
PROPERTY QuiesceDrains
