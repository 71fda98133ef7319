CONSTANTS
  w1 = w1
  w2 = w2
  w3 = w3
  Worker = {w1, w2, w3}
  LockTTL = 5
  MaxMisses = 3
  MaxFailedCalls = 2
  MaxShutdowns = 1
  MaxWorkerCrashes = 1
SPECIFICATION FairLeaseSpec
INVARIANTS MutualExclusion LeaseIsCovered
PROPERTY NoLockout
