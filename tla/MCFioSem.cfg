CONSTANTS
    Threads = {t1, t2, t3, t4}
    Waiter = t1
    MaxValue = 3
SPECIFICATION Spec
INVARIANTS TypeOK MutualExclusion WaitersExact NoLostWakeup
PROPERTY UpIsNoticed
