CONSTANTS
  NWorkers = 2
  NoSpace = NoSpace
  MaxQueue = 2
  Solution <- LongNodes
  Alternatives <- LongAlternatives
  SolvedNodes <- LongSolved
  WeakFail = {}
  CD = 8
  AD = 2
  NogoodsLimit = 128
  StealLimit = 3
SPECIFICATION DFSSpec
INVARIANT NogoodsSound
CHECK_DEADLOCK FALSE
