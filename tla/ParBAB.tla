------------------------------- MODULE ParBAB -------------------------------
(***************************************************************************)
(* Parallel branch-and-bound search, gecode/search/par/bab.hpp: the        *)
(* workers of ParEngine explore one tree; a solution is passed to every    *)
(* worker's better(), one after the other, while m_search is held.         *)
(*                                                                         *)
(* As in SeqBAB a space is a node together with the solution that it has   *)
(* last been constrained with, and propagation may fail a space as soon as *)
(* it holds no better solution.  The paths are those of ParDFS; n_work is  *)
(* the number of open edges here, which ParDFS checks.                     *)
(***************************************************************************)
EXTENDS ParEngine, SearchPath

CONSTANTS
  Node,           \* the nodes of the search tree
  Alternatives,   \* [Node -> Nat]: what choice() offers, 0 at a leaf
  Value,          \* [SolvedNodes -> Int]: the objective value, to be minimised
  SolvedNodes,    \* the leaves that are solutions
  CD,             \* opt().c_d, the commit distance
  AD,             \* opt().a_d, the adaptive distance
  NogoodsLimit,   \* opt().nogoods_limit
  StealLimit      \* Config::steal_limit

ASSUME TreeAssumption ==
  /\ Alternatives \in [Node -> Nat]
  /\ <<>> \in Node /\ Node \subseteq Seq(Nat) /\ NoSpace \notin Node
  /\ \A n \in Node : \A a \in 0 .. Alternatives[n]-1 : Child(n, a) \in Node
  /\ \A n \in Node : \A k \in 1 .. Len(n) :
       SubSeq(n, 1, k-1) \in Node /\ n[k] \in 0 .. Alternatives[SubSeq(n, 1, k-1)] - 1
  /\ SolvedNodes \subseteq {n \in Node : Alternatives[n] = 0}
  /\ Value \in [SolvedNodes -> Int]
ASSUME SpaceAssumption ==
  Solution = [node : Node, bound : SolvedNodes \cup {NoSpace}]
ASSUME OptionsAssumption ==
  CD \in Nat /\ AD \in Nat /\ NogoodsLimit \in Nat /\ StealLimit \in Nat

Caller == NWorkers   \* the engine's thread, inside constrain()
Nobody == NWorkers + 1

VARIABLES
  cur,        \* current space of every worker
  path,       \* path of every worker
  d,          \* distance to the last clone
  ngdl,       \* depth limit for no-good generation of every path
  mark,       \* depth from which on betterness is guaranteed
  bestOf,     \* best of every worker
  best,       \* best of the engine
  holder,     \* who holds m_search across the calls of better()
  told,       \* how many workers better() has been called for
  stale,      \* history: queued solutions older than the last reset or constrain
  standard    \* history: the last of the solutions returned or constrained with

treeVars == <<cur, path, d, ngdl, mark>>
boundVars == <<bestOf, best, holder, told>>
history == <<stale, standard>>
babVars == <<vars, treeVars, boundVars, history>>

Space(n, b) == [node |-> n, bound |-> b]

Better(s, b) == b # NoSpace => Value[s] < Value[b]
Tighter(s, b) == IF s # NoSpace /\ Better(s, b) THEN s ELSE b
Constrained(c, s) == IF c = NoSpace THEN NoSpace ELSE [c EXCEPT !.bound = Tighter(s, @)]

Failed(n) == Alternatives[n] = 0 /\ n \notin SolvedNodes
MayFail(c) == \A s \in SolvedNodes : Below(c.node, s) => ~Better(s, c.bound)

Root == IF Failed(<<>>) THEN NoSpace ELSE Space(<<>>, NoSpace)

BABInit ==
  /\ Init
  /\ cur = [w \in Worker |-> IF w = 0 THEN Root ELSE NoSpace]
  /\ path = [w \in Worker |-> <<>>]
  /\ d = [w \in Worker |-> 0]
  /\ ngdl = [w \in Worker |-> IF w = 0 THEN NogoodsLimit ELSE 0]
  /\ mark = [w \in Worker |-> 0]
  /\ bestOf = [w \in Worker |-> NoSpace] /\ best = NoSpace
  /\ holder = Nobody /\ told = 0
  /\ stale = 0 /\ standard = NoSpace

-----------------------------------------------------------------------------
(***************************************************************************)
(* A worker explores its part of the tree, under its own m.                *)
(***************************************************************************)

(* SS_FAILED: a node without solutions, or one that has been constrained *)
FailedNode(w) ==
  /\ MayFail(cur[w]) /\ (Failed(cur[w].node) \/ cur[w].bound # NoSpace)
  /\ cur' = [cur EXCEPT ![w] = NoSpace]
  /\ path' = [path EXCEPT ![w] = NextAlt(@)]
  /\ UNCHANGED <<d, mark>>

BoundedEdge(c, copied) ==
  [node |-> c.node, space |-> IF copied THEN c.node ELSE NoSpace, bound |-> c.bound,
   alt |-> 0, altMax |-> Alternatives[c.node] - 1, alternatives |-> Alternatives[c.node]]

(* SS_BRANCH *)
BranchNode(w) ==
  LET c == cur[w]
      clones == d[w] = 0 \/ d[w] >= CD
  IN  /\ Alternatives[c.node] > 0
      /\ path' = [path EXCEPT ![w] = Push(@, BoundedEdge(c, clones))]
      /\ d' = [d EXCEPT ![w] = IF clones THEN 1 ELSE @ + 1]
      /\ cur' = [cur EXCEPT ![w] = Space(Child(c.node, 0), c.bound)]
      /\ UNCHANGED mark

(* recompute(): the clone that is used, on the topmost edge or below it, is
   constrained if it is below the mark *)
Stale(w, i) == bestOf[w] # NoSpace /\ mark[w] > i - 1
Renewed(w) ==
  LET l == LastCopy(path[w])
  IN  IF Stale(w, l) THEN [path[w] EXCEPT ![l].bound = Tighter(bestOf[w], @)] ELSE path[w]

Recompute(w) ==
  LET p == Renewed(w)
      l == LastCopy(p)
      i == AdaptiveEdge(p)
      midway == Space(Commits(p, l, i - 1), p[l].bound)
  IN  /\ mark' = [mark EXCEPT ![w] = IF Stale(w, l) THEN l - 1 ELSE @]
      /\ \/ /\ CanReuse(p)
            /\ cur' = [cur EXCEPT ![w] = Space(Child(p[l].space, p[l].alt), p[l].bound)]
            /\ path' = [path EXCEPT ![w] = Reuse(p, ngdl[w])]
            /\ d' = [d EXCEPT ![w] = 0]
         \/ /\ ~CanReuse(p) /\ ~PlacesCopy(p, AD)
            /\ cur' = [cur EXCEPT ![w] = Space(Commits(p, l, Len(p)), p[l].bound)]
            /\ path' = [path EXCEPT ![w] = p]
            /\ d' = [d EXCEPT ![w] = Distance(p)]
         \/ /\ ~CanReuse(p) /\ PlacesCopy(p, AD)
            /\ cur' = [cur EXCEPT ![w] = Space(Commits(p, l, Len(p)), p[l].bound)]
            /\ path' = [path EXCEPT ![w] =
                          [p EXCEPT ![i].space = midway.node, ![i].bound = midway.bound]]
            /\ d' = [d EXCEPT ![w] = Len(p) - i + 1]
         \/ /\ ~CanReuse(p) /\ UNCHANGED cur
            /\ \/ /\ Stale(w, l) /\ MayFail(Space(p[l].space, p[l].bound))
                  /\ path' = [path EXCEPT ![w] = NextAlt(SubSeq(p, 1, l - 1))]
               \/ /\ PlacesCopy(p, AD) /\ MayFail(midway)
                  /\ path' = [path EXCEPT ![w] = NextAlt(SubSeq(p, 1, i - 1))]
            /\ d' = [d EXCEPT ![w] = Distance(p)]

ExploreTree(w) ==
  \/ cur[w] # NoSpace /\ (FailedNode(w) \/ BranchNode(w)) /\ UNCHANGED ngdl
  \/ cur[w] = NoSpace /\ path[w] # <<>> /\ Recompute(w) /\ UNCHANGED ngdl

(* SS_SOLVED; what the clone that is passed on has been constrained with does
   not matter any more *)
SolvedTree(w) ==
  /\ cur[w].node \in SolvedNodes /\ Better(cur[w].node, cur[w].bound)
  /\ cur' = [cur EXCEPT ![w] = NoSpace]
  /\ path' = [path EXCEPT ![w] = NextAlt(@)]
  /\ UNCHANGED <<d, ngdl, mark>>

(* mutant: the path is not looked at *)
RunDryTreeEarly(w) ==
  /\ cur[w] = NoSpace
  /\ ngdl' = [ngdl EXCEPT ![w] = 0]
  /\ UNCHANGED <<cur, path, d, mark>>

RunDryTree(w) ==
  /\ cur[w] = NoSpace /\ path[w] = <<>>
  /\ ngdl' = [ngdl EXCEPT ![w] = 0]
  /\ UNCHANGED <<cur, path, d, mark>>

CanSteal(v) == Cardinality(OpenEdges(path[v])) > StealLimit

StolenBound(p, n) == p[LastCopy(SubSeq(p, 1, n))].bound

(* path.steal() on the victim's path *)
StealTree(w, c) ==
  LET v == victim[w]
      n == StealEdge(path[v], StealLimit)
  IN  /\ CanSteal(v)
      /\ c = Space(Stolen(path[v], n), StolenBound(path[v], n))
      /\ path' = [path EXCEPT ![v] = GiveAway(@, n)]
      /\ ngdl' = [ngdl EXCEPT ![v] = IF n - 1 < @ THEN n - 1 ELSE @]
      /\ UNCHANGED <<cur, d, mark>>

(* the rest of find(): the thief constrains what it has stolen *)
TakeTree(w) ==
  /\ cur' = [cur EXCEPT ![w] = Constrained(hand[w], bestOf[w])]
  /\ d' = [d EXCEPT ![w] = 0]
  /\ ngdl' = [ngdl EXCEPT ![w] = 0]
  /\ mark' = [mark EXCEPT ![w] = 0]
  /\ UNCHANGED path

SearchStep(w) ==
  /\ \/ Explore(w) /\ ExploreTree(w)
     \/ Stopped(w) /\ cur[w] # NoSpace /\ UNCHANGED treeVars
     \/ /\ cur[w] # NoSpace
        /\ Solved(w, Space(cur[w].node, NoSpace)) /\ SolvedTree(w)
     \/ RunDry(w) /\ RunDryTree(w)
     \/ StealNothing(w) /\ ~CanSteal(victim[w]) /\ UNCHANGED treeVars
     \/ \E c \in Solution : StealSpace(w, c) /\ StealTree(w, c)
     \/ Take(w) /\ TakeTree(w)
  /\ UNCHANGED <<boundVars, history>>

-----------------------------------------------------------------------------
(***************************************************************************)
(* solution() and constrain().                                             *)
(***************************************************************************)

(* mutant: every solution but the first is discarded *)
DiscardAlways(w) ==
  /\ holder = Nobody
  /\ DiscardSolution(w) /\ best # NoSpace
  /\ UNCHANGED <<treeVars, boundVars, history>>

(* a solution that is not better than best is discarded without a signal *)
DiscardLate(w) ==
  /\ holder = Nobody
  /\ DiscardSolution(w) /\ ~Better(hand[w].node, best)
  /\ UNCHANGED <<treeVars, boundVars, history>>

(* mutant: solution() trusts the worker that found it *)
AcceptUnchecked(w) ==
  /\ wpc[w] = "solution" /\ holder = Nobody
  /\ best' = hand[w].node
  /\ holder' = w /\ told' = 0
  /\ UNCHANGED <<vars, treeVars, bestOf, history>>

Accept(w) ==
  /\ wpc[w] = "solution" /\ holder = Nobody
  /\ Better(hand[w].node, best)
  /\ best' = hand[w].node
  /\ holder' = w /\ told' = 0
  /\ UNCHANGED <<vars, treeVars, bestOf, history>>

(* mutant: the depth of the path is not marked *)
TellUnmarked ==
  /\ holder # Nobody /\ told < NWorkers
  /\ bestOf' = [bestOf EXCEPT ![told] = best]
  /\ cur' = [cur EXCEPT ![told] = Constrained(@, best)]
  /\ told' = told + 1
  /\ UNCHANGED <<vars, path, d, ngdl, mark, best, holder, history>>

(* better(), for the next worker *)
Tell ==
  /\ holder # Nobody /\ told < NWorkers
  /\ bestOf' = [bestOf EXCEPT ![told] = best]
  /\ mark' = [mark EXCEPT ![told] = Len(path[told])]
  /\ cur' = [cur EXCEPT ![told] = Constrained(@, best)]
  /\ told' = told + 1
  /\ UNCHANGED <<vars, path, d, ngdl, best, holder, history>>

(* constrain(b); nothing is announced if best is better than b *)
Constrain(b) ==
  /\ epc = "user" /\ holder = Nobody
  /\ IF best # NoSpace /\ Better(best, b) THEN UNCHANGED <<best, holder, told>>
                                          ELSE best' = b /\ holder' = Caller /\ told' = 0
  /\ stale' = Len(solutions) /\ standard' = Tighter(b, standard)
  /\ UNCHANGED <<vars, treeVars, bestOf>>

ConstrainReturns ==
  /\ holder = Caller /\ told = NWorkers
  /\ holder' = Nobody /\ told' = 0
  /\ UNCHANGED <<vars, treeVars, bestOf, best, history>>

(* idle(), stop() and busy() need m_search; solution() has had it since the
   solution was accepted and releases it *)
Report(w) ==
  /\ WorkerControl(w)
  /\ wpc[w] \in {"idle", "stop", "busy"} => holder = Nobody
  /\ wpc[w] = "solution" => holder = w /\ told = NWorkers
  /\ IF wpc[w] = "solution" THEN holder' = Nobody /\ told' = 0 ELSE UNCHANGED <<holder, told>>
  /\ UNCHANGED <<treeVars, bestOf, best, history>>

WorkerStep(w) == Report(w) \/ SearchStep(w) \/ DiscardLate(w) \/ Accept(w)

(* reset(s): all bounds are forgotten, the queue of solutions is not *)
ResetTree ==
  /\ cur' = [w \in Worker |-> IF w = 0 THEN Root ELSE NoSpace]
  /\ path' = [w \in Worker |-> <<>>]
  /\ d' = [w \in Worker |-> 0]
  /\ ngdl' = [w \in Worker |-> IF w = 0 THEN NogoodsLimit ELSE 0]
  /\ mark' = [w \in Worker |-> 0]
  /\ bestOf' = [w \in Worker |-> NoSpace] /\ best' = NoSpace

Returned == epc \in {"user", "next_check"} /\ Len(solutions') < Len(solutions)

(* next(), which needs m_search *)
CallNext ==
  /\ EngineNext
  /\ epc \in {"user", "next_check"} => holder = Nobody
  /\ IF ~Returned THEN UNCHANGED history
     ELSE IF stale > 0 THEN stale' = stale - 1 /\ UNCHANGED standard
     ELSE standard' = ret'.node /\ UNCHANGED stale
  /\ UNCHANGED <<treeVars, boundVars>>

CallReset ==
  /\ EngineReset
  /\ IF epc = "reset_do" THEN ResetTree /\ stale' = Len(solutions) /\ standard' = NoSpace
                         ELSE UNCHANGED <<treeVars, bestOf, best, history>>
  /\ UNCHANGED <<holder, told>>

EngineStepBAB ==
  /\ holder # Caller
  /\ \/ CallNext
     \/ CallReset
     \/ EngineTerm /\ UNCHANGED <<treeVars, boundVars, history>>

BABNext ==
  \/ EngineStepBAB
  \/ \E w \in Worker : WorkerStep(w)
  \/ Tell \/ ConstrainReturns
  \/ \E b \in SolvedNodes : Constrain(b)

BABSpec == BABInit /\ [][BABNext]_babVars

-----------------------------------------------------------------------------
(***************************************************************************)
(* Properties.                                                             *)
(***************************************************************************)

EdgeType ==
  [node : Node, space : Node \cup {NoSpace}, bound : SolvedNodes \cup {NoSpace},
   alt : Nat, altMax : Nat, alternatives : Nat]

BABTypeOK ==
  /\ cur \in [Worker -> Solution \cup {NoSpace}]
  /\ path \in [Worker -> Seq(EdgeType)]
  /\ d \in [Worker -> Nat] /\ ngdl \in [Worker -> Nat] /\ mark \in [Worker -> Nat]
  /\ bestOf \in [Worker -> SolvedNodes \cup {NoSpace}]
  /\ {best, standard} \subseteq SolvedNodes \cup {NoSpace}
  /\ holder \in 0 .. Nobody /\ told \in 0 .. NWorkers /\ stale \in Nat

AsTight(s, b) == b # NoSpace => s # NoSpace /\ Value[s] <= Value[b]

(* "For all nodes stored at a depth less than mark, there is no guarantee of
   betterness.  For those above the mark, betterness is guaranteed", and so it
   is for the current space, also if it has just been stolen. *)
MarkOK ==
  \A w \in Worker :
    /\ \A i \in DOMAIN path[w] :
         path[w][i].space # NoSpace /\ i > mark[w] => AsTight(path[w][i].bound, bestOf[w])
    /\ cur[w] # NoSpace => AsTight(cur[w].bound, bestOf[w])

(* Nobody works with a bound that best does not justify, and whoever is not
   being told works with best. *)
BestKnown ==
  \A w \in Worker :
    /\ \A i \in DOMAIN path[w] : AsTight(best, path[w][i].bound)
    /\ cur[w] # NoSpace => AsTight(best, cur[w].bound)
    /\ IF holder = Nobody \/ w < told THEN bestOf[w] = best ELSE AsTight(best, bestOf[w])

(* What holds of the bounds at any time, also while a solution is announced. *)
BoundsOK == BABTypeOK /\ MarkOK /\ BestKnown

(* The subtrees a worker still has to explore, with what is in its hand. *)
Frontier(w) ==
  Pending(path[w])
    \cup (IF cur[w] # NoSpace THEN {cur[w].node}
          ELSE IF path[w] # <<>> THEN {Child(Last(path[w]).node, Last(path[w]).alt)} ELSE {})
    \cup (IF wpc[w] \in {"busy", "take", "solution"} THEN {hand[w].node} ELSE {})

(* No improvement is lost: each solution better than best is below a subtree
   that some worker still has to explore, or about to be reported. *)
NoImprovementLost ==
  epc # "destroyed" =>
    \A s \in SolvedNodes :
      Better(s, best) => \E w \in Worker : \E n \in Frontier(w) : Below(n, s)

(* Whatever next() returns is better than all it has returned before and all
   that the search has been constrained with, since the last reset.  Left over
   solutions from before the last reset() or constrain() are excepted. *)
EverBetter == [][Returned /\ stale = 0 => Better(ret'.node, standard)]_babVars

(* When next() returns null although nothing has been stopped, best is optimal
   unless what would improve on it is in the hand of a thief that has not
   called busy() yet. *)
NullReturned == epc = "next_check" /\ epc' = "next_block" /\ solutions = <<>> /\ ~hasStopped
NullOnlyBeforeBusy ==
  [][NullReturned =>
       \A s \in SolvedNodes :
         Better(s, best) => \E w \in Worker : wpc[w] = "busy" /\ Below(hand[w].node, s)]_babVars

=============================================================================
