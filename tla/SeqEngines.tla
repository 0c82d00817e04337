------------------------------ MODULE SeqEngines ------------------------------
(***************************************************************************)
(* The sequential engines and the cutoff generators, each by itself: part  *)
(* says which of them a behaviour is of, and the variables of the others   *)
(* are None.                                                               *)
(***************************************************************************)
EXTENDS Integers, Spaces

CONSTANTS
  None,                                      \* the value of a variable that is not used
  Part,                                      \* the parts to be looked at
  DFSNode, DFSInstances,                     \* the constants of the parts, see there
  BABNode, BABValue, BABTrees, BABOptions,
  LDSNode, LDSTrees, LDSLimits, Discrepancies(_),
  FailedSpace, RBSSolution, RBSExternal, RBSOptions,
  Failure, Slave, PBSSolution, Portfolios, Slices, MaxLimit,
  Generators, MaxRestarts(_)

VARIABLES
  part,
  tree, opt, cur, path, d, stopped, pc, ret,              \* SeqDFS, and others
  curBound, mark, best,                                   \* SeqBAB
  dl, root, dLDS, ds, exhausted, found,                   \* LDS
  problem, master, last, complete, restart,               \* RBS
  eTodo, eSeen, solutions, eStopped, e_stopped, delivered,
  slice, searchesBest, slaves, l, done, slave_stop,       \* SeqPBS
  n_exhausted, leaves, fail, bound, slaveStopped,
  made, gen, cutoff, k                                    \* Cutoffs

treeVars    == <<tree, d, stopped>>
boundVars   == <<curBound, mark>>
ldsVars     == <<dl, root, dLDS, ds, exhausted, found>>
problemVars == <<problem, delivered>>
rbsVars     == <<master, last, complete, restart, eTodo, eSeen, solutions, eStopped, e_stopped>>
pbsVars     == <<slice, searchesBest, slaves, l, done, slave_stop, n_exhausted, leaves, fail,
                 bound, slaveStopped>>
cutoffVars  == <<made, gen, cutoff, k>>
vars == <<part, opt, cur, path, pc, ret, best, treeVars, boundVars, ldsVars, problemVars,
          rbsVars, pbsVars, cutoffVars>>

(* the variables of the parts as they are when they are not used *)
NoTree    == tree = None /\ d = None /\ stopped = None
NoBound   == curBound = None /\ mark = None
NoLDS     == /\ dl = None /\ root = None /\ dLDS = None /\ ds = None /\ exhausted = None
             /\ found = None
NoProblem == problem = None /\ delivered = None
NoRBS     == /\ master = None /\ last = None /\ complete = None /\ restart = None /\ eTodo = None
             /\ eSeen = None /\ solutions = None /\ eStopped = None /\ e_stopped = None
NoPBS     == /\ slice = None /\ searchesBest = None /\ slaves = None /\ l = None /\ done = None
             /\ slave_stop = None /\ n_exhausted = None /\ leaves = None /\ fail = None
             /\ bound = None /\ slaveStopped = None
NoCutoffs == made = None /\ gen = None /\ cutoff = None /\ k = None

-----------------------------------------------------------------------------
DFS == INSTANCE SeqDFS WITH Node <- DFSNode, Instances <- DFSInstances
BAB == INSTANCE SeqBAB WITH Node <- BABNode, Value <- BABValue, Trees <- BABTrees, Options <- BABOptions
LD  == INSTANCE LDS WITH Node <- LDSNode, Trees <- LDSTrees, Limits <- LDSLimits
RB  == INSTANCE RBS WITH Solution <- RBSSolution, External <- RBSExternal, Options <- RBSOptions
PB  == INSTANCE SeqPBS WITH Solution <- PBSSolution
CU  == INSTANCE Cutoffs WITH Generator <- Generators

(* the assumptions on the constants of the engines *)
ASSUME DFSAssumption == DFS!TreesAssumption /\ DFS!OptionsAssumption /\ DFS!NoSpaceAssumption
ASSUME BABAssumption ==
  BAB!TreesAssumption /\ BAB!OptionsAssumption /\ BAB!NoSpaceAssumption /\ BAB!ValueAssumption
ASSUME LDSAssumption ==
  LD!TreesAssumption /\ LD!DiscrepanciesAssumption /\ LD!LimitsAssumption /\ LD!NoSpaceAssumption
ASSUME RBSAssumption ==
  RB!SolutionAssumption /\ RB!OptionsAssumption /\ RB!EngineAssumption /\ RB!SpaceAssumption
ASSUME PBSAssumption ==
  PB!SolutionAssumption /\ PB!PortfoliosAssumption /\ PB!NumbersAssumption /\ PB!SlaveAssumption

-----------------------------------------------------------------------------
InitDFS == /\ part = "dfs" /\ DFS!Init
           /\ best = None /\ NoBound /\ NoLDS /\ NoProblem /\ NoRBS /\ NoPBS /\ NoCutoffs
InitBAB == /\ part = "bab" /\ BAB!Init
           /\ NoLDS /\ NoProblem /\ NoRBS /\ NoPBS /\ NoCutoffs
InitLDS == /\ part = "lds" /\ LD!Init
           /\ opt = None /\ path = None /\ best = None
           /\ NoBound /\ NoProblem /\ NoRBS /\ NoPBS /\ NoCutoffs
InitRBS == /\ part = "rbs" /\ RB!Init
           /\ cur = None /\ path = None /\ best = None
           /\ NoTree /\ NoBound /\ NoLDS /\ NoPBS /\ NoCutoffs
InitPBS == /\ part = "pbs" /\ PB!Init
           /\ opt = None /\ path = None
           /\ NoTree /\ NoBound /\ NoLDS /\ NoRBS /\ NoCutoffs
InitCutoffs == /\ part = "cutoffs" /\ CU!Init
               /\ opt = None /\ cur = None /\ path = None /\ pc = None /\ ret = None /\ best = None
               /\ NoTree /\ NoBound /\ NoLDS /\ NoProblem /\ NoRBS /\ NoPBS

Init == part \in Part /\ (InitDFS \/ InitBAB \/ InitLDS \/ InitRBS \/ InitPBS \/ InitCutoffs)

Only(p) == part = p /\ UNCHANGED part
OthersOfDFS == UNCHANGED <<best, boundVars, ldsVars, problemVars, rbsVars, pbsVars, cutoffVars>>
OthersOfBAB == UNCHANGED <<ldsVars, problemVars, rbsVars, pbsVars, cutoffVars>>
OthersOfLDS == UNCHANGED <<opt, path, best, boundVars, problemVars, rbsVars, pbsVars, cutoffVars>>
OthersOfPBS == UNCHANGED <<opt, path, treeVars, boundVars, ldsVars, rbsVars, cutoffVars>>

StepDFS == Only("dfs") /\ DFS!Next /\ OthersOfDFS
StepBAB == Only("bab") /\ BAB!Next /\ OthersOfBAB
StepLDS == Only("lds") /\ LD!Next /\ OthersOfLDS
StepPBS == Only("pbs") /\ PB!Next /\ OthersOfPBS
StepRBS == /\ Only("rbs") /\ RB!Next
           /\ UNCHANGED <<cur, path, best, treeVars, boundVars, ldsVars, pbsVars, cutoffVars>>
StepCutoffs == /\ Only("cutoffs") /\ CU!Restart
               /\ UNCHANGED <<opt, cur, path, pc, ret, best, treeVars, boundVars, ldsVars,
                              problemVars, rbsVars, pbsVars>>

(* RBS has failed, or a generator is at its bound *)
Stops == part \in {"rbs", "cutoffs"} /\ UNCHANGED vars

Next == StepDFS \/ StepBAB \/ StepLDS \/ StepRBS \/ StepPBS \/ StepCutoffs \/ Stops

Spec == Init /\ [][Next]_vars

(* next() is a loop of the calling thread *)
Loop ==
  \/ Only("dfs") /\ DFS!Loop /\ OthersOfDFS
  \/ Only("pbs") /\ PB!Loop /\ OthersOfPBS

FairSpec == Spec /\ WF_vars(Loop)

-----------------------------------------------------------------------------
(* What holds of each engine at any time: the path points to the current space and
   the commit distance is bounded; nodes above mark only have no bound; a probe keeps
   account of its discrepancies; the master of a restart admits all that remains; the
   current slave is one that is left (the invariants that next() of seq/dfs.hpp,
   seq/bab.hpp, lds.hpp, rbs.cpp and seq/pbs.hpp rely on). *)
EnginesOK ==
  /\ part = "dfs" => DFS!PathOK /\ DFS!RecomputationBounded
  /\ part = "bab" => BAB!BoundsOK
  /\ part = "lds" => LD!ProbeOK
  /\ part = "rbs" => RB!MasterOK
  /\ part = "pbs" => PB!TypeOK

(* No-goods from the path of DFS exclude nothing that is still to be explored. *)
NogoodsSound == part = "dfs" => DFS!NogoodsSound

(* Each engine is a stream of solutions (SolutionStream), in the order of its search
   or ever better, and also one that searches for all solutions returns null, not
   stopped, only when none is left (next(), constrain(), reset() and stopped()). *)
StreamSpec ==
  /\ CASE part = "dfs" -> DFS!Stream!Init
       [] part = "bab" -> BAB!Stream!Init
       [] part = "lds" -> LD!Stream!Init
       [] part = "rbs" -> RB!Stream!Init
       [] part = "pbs" -> PB!Stream!Init
       [] OTHER -> TRUE
  /\ [][/\ part = "dfs" => [DFS!Stream!Next]_(DFS!Stream!vars)
        /\ part = "bab" => [BAB!Stream!Next]_(BAB!Stream!vars)
        /\ part = "lds" => [LD!Stream!Next]_(LD!Stream!vars)
        /\ part = "rbs" => [RB!Stream!Next]_(RB!Stream!vars) /\ RB!NullMeansDone
        /\ part = "pbs" => [PB!Stream!Next]_(PB!Stream!vars) /\ PB!NullMeansDone]_vars

(* next() of DFS and of a portfolio returns, however often it recomputes and whatever
   slices it takes. *)
NextReturns == part \in {"dfs", "pbs"} /\ pc # "user" ~> pc = "user"

(* The cutoffs are those that search.hh documents for the generators. *)
CutoffsDocumented == part = "cutoffs" => CU!CutoffsDocumented
=============================================================================
