CONSTANTS
  NWorkers = 2
  NoSpace = NoSpace
  MaxQueue = 1
  Solution <- Spaces
  Node <- TreeNodes
  Alternatives <- TreeAlternatives
  Value <- TreeValue
  SolvedNodes <- TreeSolved
  CD = 4
  AD = 2
  NogoodsLimit = 1
  StealLimit = 0
SPECIFICATION BABSpec
INVARIANT BoundsOK
INVARIANT NoImprovementLost
PROPERTY EverBetter
CHECK_DEADLOCK FALSE
PROPERTY NullOnlyBeforeBusy
