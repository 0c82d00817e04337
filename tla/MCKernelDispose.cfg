SPECIFICATION MCSpec
CONSTANTS
  Propagator <- MCPropagator
  Store <- MCStore
  Stronger <- MCStronger
  Propagate <- MCPropagate
  AtFixpoint <- MCAtFixpoint
  ModEvent <- MCModEvent
  Forced <- MCForced
  Wakeup <- MCWakeup
  Cost <- MCCost
  AC_MAX = 3
  Start <- MCStart
  Group = {"eq", "ne"}
  Kind <- MCKind
  Function <- MCFunction
  Arity <- MCArity
  MaxUse <- MCMaxUse
  Posts <- MCPosts
  Kills <- MCKills
  Root <- MCRoot
  Again <- MCAgain
  MaxDepth = 5
  MaxRounds = 1
  CPropagator = {"p", "q"}
  CBrancher = {"b", "c"}
  Advisor = {"a1", "a2", "a3"}
  Local = {"l", "m"}
  CVar = {"x", "y", "z"}
  Noticed = {"q", "b"}
  Council <- MCCouncil
  Subscribed <- MCSubscribed
  Members <- MCMembers
  SpaceMembers <- MCSpaceMembers
  NVar = {"x", "y", "z"}
  NVal = {1, 2, 3}
  NSolution <- MCSolution
  NPath <- MCPath
  None = None
  Part = {"nogoods"}
INVARIANT LiteralsDisposed
