CONSTANTS
  NWorkers = 2
  Solution = {s1}
  NoSpace = NoSpace
  MaxQueue = 2
SPECIFICATION FairSpec
INVARIANT TypeOK
INVARIANT NBusyAccurate
INVARIANT NoLostWakeup
INVARIANT ResetBarrier
INVARIANT DeletionSafe
PROPERTY CallsReturn
CHECK_DEADLOCK FALSE
