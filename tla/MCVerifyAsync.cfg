SPECIFICATION FairSpec
CONSTANTS
  IoUs = {u1, u2, u3}
  Threads = {t1, t2}
  Jobs <- MCJobs
INVARIANTS TypeOK HandedOnce GoneBeforeCleanup
PROPERTIES ExitReturns JobEnds
