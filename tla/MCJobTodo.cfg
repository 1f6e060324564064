CONSTANTS
    N = 3
    JobFiles <- FencedInterrupted
    UINT = 8
SPECIFICATION FairSpec
INVARIANT TodoCounts
