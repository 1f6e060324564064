CONSTANTS
    N = 3
    JobFiles <- AllFiles
    UINT = 8
SPECIFICATION FairSpec
INVARIANTS TypeOK CountsExact WaitForRespected ReturnsReaped AllStarted
PROPERTIES  OnlyCpuioCut  InterruptReturns
