SPECIFICATION FairSpec
CONSTANTS
  b1 = b1
  b2 = b2
  IoUs = {u1, u2}
  MaxWorkers = 2
  Blocks = {b1, b2}
  Jobs <- MCFailing
INVARIANTS DrainsInFlight
