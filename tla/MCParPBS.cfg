CONSTANTS
  Slave = {s1, s2, s3}
  Solution = {1, 2}
  NoSpace = NoSpace
  NoSlave = NoSlave
SPECIFICATION FairSpec
INVARIANT EngineOK
PROPERTY NotReusedInside
PROPERTY NullMeansDone
PROPERTY StreamSpec
PROPERTY CallsReturn
CHECK_DEADLOCK FALSE
