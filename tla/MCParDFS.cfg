CONSTANTS
  NWorkers = 2
  NoSpace = NoSpace
  MaxQueue = 1
  Solution <- CombNodes
  Alternatives <- CombAlternatives
  SolvedNodes <- CombSolved
  WeakFail <- CombWeakFail
  CD = 4
  AD = 2
  NogoodsLimit = 1
  StealLimit = 0
SPECIFICATION DFSSpec
INVARIANT PathOK
INVARIANT NoSolutionLost
INVARIANT NoDoubleWork
PROPERTY NullOnlyBeforeBusy
CHECK_DEADLOCK FALSE
