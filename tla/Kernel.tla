-------------------------------- MODULE Kernel --------------------------------
(***************************************************************************)
(* The kernel: propagation, branchers and choices, cloning, and the        *)
(* propagator for no-goods, each by itself: part says which of them a      *)
(* behaviour is of.  Meanwhile no propagator is posted in Propagation, and *)
(* the variables of the others are None.                                   *)
(***************************************************************************)
EXTENDS Propagation, FiniteSets, Sequences

CONSTANTS
  None,       \* the value of a variable that is not used
  Part,       \* the parts to be checked
  Kind, Function, Arity(_), MaxUse(_), Posts(_, _), Kills(_, _), Root, Again,
  MaxDepth, MaxRounds,                                              \* Branching
  CPropagator, CBrancher, Advisor, Local, CVar, Noticed, Council(_), Subscribed(_),
  Members(_), SpaceMembers,                                         \* Cloning
  NVar, NVal, NSolution, NPath                                      \* NoGoodProp

VARIABLES
  part,
  cur, path, bpc, at, fresh, round,                             \* Branching
  src, cl, cpc, actor, member, before, made, gone,              \* Cloning
  ngPath, dom, given, ngFailed, chain, lits, pos, subs, nsubs,    \* NoGoodProp
  scheduled, disposed, npc

branchingVars == <<cur, path, bpc, at, fresh, round>>
cloningVars   == <<src, cl, cpc, actor, member, before, made, gone>>
nogoodVars    == <<ngPath, dom, given, ngFailed, chain, lits, pos, subs, nsubs, scheduled,
                   disposed, npc>>
allVars == <<part, vars, branchingVars, cloningVars, nogoodVars>>

NoBranching == cur = None /\ path = None /\ bpc = None /\ at = None /\ fresh = None /\ round = None
NoCloning   == /\ src = None /\ cl = None /\ cpc = None /\ actor = None /\ member = None
               /\ before = None /\ made = None /\ gone = None
NoNogoods   == /\ ngPath = None /\ dom = None /\ given = None /\ ngFailed = None /\ chain = None
               /\ lits = None /\ pos = None /\ subs = None /\ nsubs = None /\ scheduled = None
               /\ disposed = None /\ npc = None

-----------------------------------------------------------------------------
B == INSTANCE Branching WITH Alternatives <- Arity, pc <- bpc, i <- at
C == INSTANCE Cloning WITH
  Propagator <- CPropagator, Brancher <- CBrancher, Var <- CVar, pc <- cpc
N == INSTANCE NoGoodProp WITH
  Var <- NVar, Val <- NVal, Solution <- NSolution, Path <- NPath, path <- ngPath, pc <- npc,
  l <- lits, k <- pos, n <- nsubs, failed <- ngFailed

ASSUME BranchersAssumption == B!BranchersAssumption
ASSUME ActorsAssumption == C!ActorsAssumption
ASSUME PathAssumption == N!PathAssumption

-----------------------------------------------------------------------------
MCInit ==
  /\ part \in Part /\ Init
  /\ \/ part = "propagation" /\ NoBranching /\ NoCloning /\ NoNogoods
     \/ part = "branching" /\ B!Init /\ NoCloning /\ NoNogoods
     \/ part = "cloning" /\ C!Init /\ NoBranching /\ NoNogoods
     \/ part = "nogoods" /\ N!Init /\ NoBranching /\ NoCloning

Only(p) == part = p /\ UNCHANGED part
OthersOfPropagation == UNCHANGED <<branchingVars, cloningVars, nogoodVars>>

StepPropagation == Only("propagation") /\ Next /\ OthersOfPropagation
StepBranching == Only("branching") /\ B!Next /\ UNCHANGED <<vars, cloningVars, nogoodVars>>
StepCloning == Only("cloning") /\ C!Next /\ UNCHANGED <<vars, branchingVars, nogoodVars>>
StepNogoods == Only("nogoods") /\ N!Next /\ UNCHANGED <<vars, branchingVars, cloningVars>>

(* at a bound, or when the propagator and the space are gone *)
Stops == part \in {"branching", "nogoods"} /\ UNCHANGED allVars

MCNext == StepPropagation \/ StepBranching \/ StepCloning \/ StepNogoods \/ Stops

MCSpec == /\ MCInit /\ [][MCNext]_allVars
          /\ WF_allVars(Only("propagation") /\ StatusStep /\ OthersOfPropagation)

-----------------------------------------------------------------------------
(* The properties of Propagation are checked as they are stated there. *)

(* Every choice on the path finds the brancher that made it (Space::commit()), *)
ChoicesFindBrancher == part = "branching" => B!ChoicesFindBrancher
(* and no brancher that still has to branch is skipped (Space::status()). *)
NothingSkipped == part = "branching" => B!NothingSkipped

(* clone() leaves the original as it was, also when it throws (Space::_clone()), *)
Transactional == part = "cloning" => C!Transactional
(* and makes a faithful copy when it returns. *)
CloneFaithful == part = "cloning" => C!CloneFaithful

(* No-goods prune only what has been explored (NoGoodsProp::propagate(), post()), *)
NoGoodsKeepRest == part = "nogoods" => N!NoGoodsKeepRest
(* all that their literals imply, *)
NoGoodsPropagated == part = "nogoods" => N!NoGoodsPropagated
(* and are subscribed to the literals they watch. *)
SubscriptionsExact == part = "nogoods" => N!SubscriptionsExact

(* "Whether dispose must always be called" (NGL::notice()) *)
LiteralsDisposed == part = "nogoods" => N!LiteralsDisposed
=============================================================================
