CONSTANTS
  NoSpace = NoSpace
  FailedSpace = FailedSpace
  Failure = Failure
  None = None
  DFSNode <- MCDFSNode
  DFSInstances <- MCDFSInstances
  BABNode <- MCBABNode
  BABValue <- MCBABValue
  BABTrees <- MCBABTrees
  BABOptions <- MCBABOptions
  LDSNode <- MCLDSNode
  LDSTrees <- MCLDSTrees
  LDSLimits <- MCLDSLimits
  Discrepancies <- Sum
  RBSSolution <- MCRBSSolution
  RBSExternal <- MCRBSExternal
  RBSOptions <- MCRBSOptions
  Slave = {s1, s2, s3}
  PBSSolution <- MCPBSSolution
  Portfolios <- MCPortfolios
  Slices = {1, 2}
  MaxLimit = 20
  MaxRestarts <- MCMaxRestarts
  Part = {"cutoffs"}
  Generators <- Others
SPECIFICATION FairSpec
INVARIANT CutoffsDocumented
