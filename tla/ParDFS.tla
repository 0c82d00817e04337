------------------------------- MODULE ParDFS -------------------------------
(***************************************************************************)
(* Parallel depth-first search, gecode/search/par/dfs.hpp: the workers of  *)
(* ParEngine explore one search tree, each along a path of its own, with   *)
(* recomputation and with stealing from each other.                        *)
(*                                                                         *)
(* A space is the node of the search tree it stands for: the sequence of   *)
(* alternatives that leads to it from the root.  Every action is the       *)
(* action of ParEngine of the same name, which decides who may do what and *)
(* when, conjoined with what it does to the tree.                          *)
(***************************************************************************)
EXTENDS ParEngine, SearchPath

CONSTANTS
  Alternatives,   \* [Solution -> Nat]: the search tree
  SolvedNodes,         \* its leaves that are solutions; all others are failed
  WeakFail,       \* nodes whose recomputed space may propagate to failure
  CD,             \* opt().c_d, the commit distance
  AD,             \* opt().a_d, the adaptive distance
  NogoodsLimit,   \* opt().nogoods_limit
  StealLimit      \* Config::steal_limit

Node == Solution

ASSUME TreeAssumption ==
  /\ Alternatives \in [Node -> Nat]
  /\ <<>> \in Node /\ Node \subseteq Seq(Nat)
  /\ \A n \in Node : \A a \in 0 .. Alternatives[n]-1 : Child(n, a) \in Node
  /\ \A n \in Node : \A k \in 1 .. Len(n) :
       SubSeq(n, 1, k-1) \in Node /\ n[k] \in 0 .. Alternatives[SubSeq(n, 1, k-1)] - 1
  /\ SolvedNodes \subseteq {n \in Node : Alternatives[n] = 0}
(* propagation is sound: only a space without solutions may fail *)
ASSUME WeakFailAssumption ==
  \A n \in WeakFail : n \in Node /\ \A s \in SolvedNodes : ~Below(n, s)
ASSUME OptionsAssumption ==
  CD \in Nat /\ AD \in Nat /\ NogoodsLimit \in Nat /\ StealLimit \in Nat

VARIABLES
  cur,        \* current space of every worker
  path,       \* path of every worker
  d,          \* distance to the last clone
  ngdl,       \* depth limit for no-good generation of every path
  nWork,      \* n_work of every path
  reported    \* history: the solutions found since the last reset

treeVars == <<cur, path, d, ngdl, nWork, reported>>
dfsVars  == <<vars, treeVars>>

Failed(n) == Alternatives[n] = 0 /\ n \notin SolvedNodes

RootOrFailed == IF Failed(<<>>) THEN NoSpace ELSE <<>>

DFSInit ==
  /\ Init
  /\ cur = [w \in Worker |-> IF w = 0 THEN RootOrFailed ELSE NoSpace]
  /\ path = [w \in Worker |-> <<>>]
  /\ d = [w \in Worker |-> 0]
  /\ ngdl = [w \in Worker |-> IF w = 0 THEN NogoodsLimit ELSE 0]
  /\ nWork = [w \in Worker |-> 0]
  /\ reported = {}

-----------------------------------------------------------------------------
(* path.next() on a path p with k open edges *)
Advance(w, p, k) ==
  LET q == NextAlt(p)
  IN  /\ path' = [path EXCEPT ![w] = q]
      /\ nWork' = [nWork EXCEPT ![w] =
                     IF q # <<>> /\ ~HasWork(Last(q)) THEN k - 1 ELSE k]

(* SS_FAILED *)
FailedNode(w) ==
  /\ Failed(cur[w])
  /\ cur' = [cur EXCEPT ![w] = NoSpace]
  /\ Advance(w, path[w], nWork[w])
  /\ UNCHANGED <<d, ngdl, reported>>

(* SS_BRANCH: clone if needed, push, and commit to the first alternative *)
BranchNode(w) ==
  LET n == cur[w]
      clones == d[w] = 0 \/ d[w] >= CD
      e == Edge(n, IF clones THEN n ELSE NoSpace, Alternatives[n])
  IN  /\ Alternatives[n] > 0
      /\ path' = [path EXCEPT ![w] = Push(@, e)]
      /\ nWork' = [nWork EXCEPT ![w] = IF HasWork(e) THEN @ + 1 ELSE @]
      /\ d' = [d EXCEPT ![w] = IF clones THEN 1 ELSE @ + 1]
      /\ cur' = [cur EXCEPT ![w] = Child(n, 0)]
      /\ UNCHANGED <<ngdl, reported>>

(* mutant: a failed recomputation unwinds to the clone it started from *)
RecomputeUnwindTooFar(w) ==
  LET p == path[w]
      l == LastCopy(p)
      i == AdaptiveEdge(p)
  IN  /\ ~CanReuse(p) /\ PlacesCopy(p, AD) /\ Commits(p, l, i - 1) \in WeakFail
      /\ Advance(w, SubSeq(p, 1, l - 1),
                 nWork[w] - Cardinality({j \in OpenEdges(p) : j >= l}))
      /\ d' = [d EXCEPT ![w] = Distance(p)]
      /\ UNCHANGED cur

(* path.recompute(): use up the clone on the topmost edge, or clone the last
   clone and commit, possibly leaving another clone on the way.  The space at
   that place may fail: then the path is unwound to it and advanced. *)
Recompute(w) ==
  LET p == path[w]
      l == LastCopy(p)
      i == AdaptiveEdge(p)
      midway == Commits(p, l, i - 1)
  IN  \/ /\ CanReuse(p)
         /\ cur' = [cur EXCEPT ![w] = Child(Last(p).space, Last(p).alt)]
         /\ path' = [path EXCEPT ![w] = Reuse(p, ngdl[w])]
         /\ d' = [d EXCEPT ![w] = 0]
         /\ UNCHANGED nWork
      \/ /\ ~CanReuse(p) /\ ~PlacesCopy(p, AD)
         /\ cur' = [cur EXCEPT ![w] = Commits(p, l, Len(p))]
         /\ d' = [d EXCEPT ![w] = Distance(p)]
         /\ UNCHANGED <<path, nWork>>
      \/ /\ ~CanReuse(p) /\ PlacesCopy(p, AD)
         /\ cur' = [cur EXCEPT ![w] = Commits(p, l, Len(p))]
         /\ d' = [d EXCEPT ![w] = Len(p) - i + 1]
         /\ path' = [path EXCEPT ![w] = [p EXCEPT ![i].space = midway]]
         /\ UNCHANGED nWork
      \/ /\ ~CanReuse(p) /\ PlacesCopy(p, AD) /\ midway \in WeakFail
         /\ Advance(w, SubSeq(p, 1, i - 1),
                    nWork[w] - Cardinality({j \in OpenEdges(p) : j >= i}))
         /\ d' = [d EXCEPT ![w] = Distance(p)]
         /\ UNCHANGED cur

ExploreTree(w) ==
  \/ cur[w] # NoSpace /\ (FailedNode(w) \/ BranchNode(w))
  \/ cur[w] = NoSpace /\ path[w] # <<>> /\ Recompute(w) /\ UNCHANGED <<ngdl, reported>>

(* SS_SOLVED *)
SolvedTree(w) ==
  /\ cur[w] \in SolvedNodes
  /\ cur' = [cur EXCEPT ![w] = NoSpace]
  /\ Advance(w, path[w], nWork[w])
  /\ reported' = reported \cup {cur[w]}
  /\ UNCHANGED <<d, ngdl>>

(* mutant: the path is not looked at *)
RunDryTreeEarly(w) ==
  /\ cur[w] = NoSpace
  /\ ngdl' = [ngdl EXCEPT ![w] = 0]
  /\ UNCHANGED <<cur, path, d, nWork, reported>>

RunDryTree(w) ==
  /\ cur[w] = NoSpace /\ path[w] = <<>>
  /\ ngdl' = [ngdl EXCEPT ![w] = 0]
  /\ UNCHANGED <<cur, path, d, nWork, reported>>

CanSteal(v) == nWork[v] > StealLimit

(* mutant: the alternative given away stays on the victim's path *)
StealTreeKeep(w, s) ==
  LET v == victim[w]
      n == StealEdge(path[v], StealLimit)
  IN  /\ CanSteal(v)
      /\ s = Stolen(path[v], n)
      /\ UNCHANGED <<cur, path, d, ngdl, nWork, reported>>

(* path.steal() on the victim's path *)
StealTree(w, s) ==
  LET v == victim[w]
      n == StealEdge(path[v], StealLimit)
      q == GiveAway(path[v], n)
  IN  /\ CanSteal(v)
      /\ s = Stolen(path[v], n)
      /\ path' = [path EXCEPT ![v] = q]
      /\ nWork' = [nWork EXCEPT ![v] = IF HasWork(q[n]) THEN @ ELSE @ - 1]
      /\ ngdl' = [ngdl EXCEPT ![v] = IF n - 1 < @ THEN n - 1 ELSE @]
      /\ UNCHANGED <<cur, d, reported>>

TakeTree(w) ==
  /\ cur' = [cur EXCEPT ![w] = hand[w]]
  /\ d' = [d EXCEPT ![w] = 0]
  /\ ngdl' = [ngdl EXCEPT ![w] = 0]
  /\ UNCHANGED <<path, nWork, reported>>

SearchStep(w) ==
  \/ Explore(w) /\ ExploreTree(w)
  \/ Stopped(w) /\ cur[w] # NoSpace /\ UNCHANGED treeVars
  \/ Solved(w, cur[w]) /\ SolvedTree(w)
  \/ RunDry(w) /\ RunDryTree(w)
  \/ StealNothing(w) /\ ~CanSteal(victim[w]) /\ UNCHANGED treeVars
  \/ \E s \in Node : StealSpace(w, s) /\ StealTree(w, s)
  \/ Take(w) /\ TakeTree(w)

(* reset(s): worker 0 gets the root, all others start with nothing *)
ResetTree ==
  /\ cur' = [w \in Worker |-> IF w = 0 THEN RootOrFailed ELSE NoSpace]
  /\ path' = [w \in Worker |-> <<>>]
  /\ d' = [w \in Worker |-> 0]
  /\ ngdl' = [w \in Worker |-> IF w = 0 THEN NogoodsLimit ELSE 0]
  /\ nWork' = [w \in Worker |-> 0]
  /\ reported' = {}

EngineStepDFS ==
  \/ (EngineNext \/ EngineTerm) /\ UNCHANGED treeVars
  \/ EngineReset /\ IF epc = "reset_do" THEN ResetTree ELSE UNCHANGED treeVars

WorkerStepDFS(w) == (WorkerControl(w) /\ UNCHANGED treeVars) \/ SearchStep(w)

DFSNext == EngineStepDFS \/ \E w \in Worker : WorkerStepDFS(w)
DFSSpec == DFSInit /\ [][DFSNext]_dfsVars
-----------------------------------------------------------------------------
(***************************************************************************)
(* Properties.                                                             *)
(***************************************************************************)

EdgeType == [node : Node, space : Node \cup {NoSpace}, alt : Nat, altMax : Nat, alternatives : Nat]

TreeTypeOK ==
  /\ cur \in [Worker -> Node \cup {NoSpace}]
  /\ path \in [Worker -> Seq(EdgeType)]
  /\ d \in [Worker -> Nat] /\ ngdl \in [Worker -> Nat] /\ nWork \in [Worker -> Nat]
  /\ reported \subseteq SolvedNodes

(* The invariant stated at the head of run(): the path points to exactly the
   current space, or to the next one.  The commits from any clone on the path
   lead to the nodes whose choices the edges hold (where a reused edge has left
   a gap above an edge, that edge has a clone or is reusable itself), and a
   clone is a clone of its edge's node. *)
PathPointsToCur ==
  \A w \in Worker :
    LET p == path[w]
    IN  /\ \A i \in DOMAIN p : p[i].space \in {NoSpace, p[i].node}
        /\ \A i \in 1 .. Len(p) - 1 :
             IF p[i+1].space = NoSpace /\ ~LAO(p[i+1])
             THEN p[i+1].node = Child(p[i].node, p[i].alt)
             ELSE Below(Child(p[i].node, p[i].alt), p[i+1].node)
        /\ p # <<>> /\ cur[w] # NoSpace =>
             cur[w] = Child(Last(p).node, IF LAO(Last(p)) THEN Last(p).altMax ELSE Last(p).alt)

(* Whenever recompute() or steal() looks for a clone below an edge, there is
   one: lc() does not run off the stack. *)
CloneBelow ==
  \A w \in Worker :
    LET p == path[w]
        HasClone(i) == \E j \in 1 .. i : p[j].space # NoSpace
    IN  /\ \A i \in OpenEdges(p) : HasClone(i)
        /\ cur[w] = NoSpace /\ p # <<>> => HasClone(Len(p))

(* n_work counts the open edges of a path, whatever has been taken, given
   away, unwound or reused. *)
NWorkAccurate == \A w \in Worker : nWork[w] = Cardinality(OpenEdges(path[w]))

(* What holds of every path at any time, between any two steps of the workers. *)
PathOK == TreeTypeOK /\ PathPointsToCur /\ CloneBelow /\ NWorkAccurate

(* The subtrees a worker still has to explore, the one in a thief's hand
   included. *)
Frontier(w) ==
  Pending(path[w])
    \cup (IF cur[w] # NoSpace THEN {cur[w]}
          ELSE IF path[w] # <<>> THEN {Child(Last(path[w]).node, Last(path[w]).alt)} ELSE {})
    \cup (IF wpc[w] \in {"busy", "take"} THEN {hand[w]} ELSE {})

(* No solution is lost: each has been reported or is below a subtree that
   some worker still has to explore, through every steal and recomputation. *)
NoSolutionLost ==
  epc # "destroyed" =>
    \A s \in SolvedNodes \ reported : \E w \in Worker : \E n \in Frontier(w) : Below(n, s)

(* No part of the tree is explored twice: the subtrees still to be explored
   are disjoint, also between workers, and hold nothing already reported. *)
NoDoubleWork ==
  \A w, v \in Worker : \A n \in Frontier(w), m \in Frontier(v) :
    /\ Below(n, m) => w = v /\ n = m
    /\ \A s \in reported : ~Below(n, s)

(* When next() returns null although nothing has been stopped, a solution that
   has not been reported can only be below a subtree in the hand of a thief
   that has not called busy() yet. *)
NullReturned == epc = "next_check" /\ epc' = "next_block" /\ solutions = <<>> /\ ~hasStopped
NullOnlyBeforeBusy ==
  [][NullReturned =>
       \A s \in SolvedNodes \ reported :
         \E w \in Worker : wpc[w] = "busy" /\ Below(hand[w], s)]_dfsVars

(* When next() returns null although nothing has been stopped, no solution is
   left: "Return next solution (nullptr, if none exists or search has been
   stopped)", search.hh. *)
NullMeansDone ==
  epc = "next_block" /\ ret = NoSpace /\ ~hasStopped => SolvedNodes \subseteq reported

(* What the no-goods of a path exclude: along the edges up to the depth limit,
   every alternative to the left of the one taken. *)
Excluded(p, limit) ==
  UNION {{Child(p[i].node, a) : a \in 0 .. TrueAlt(p[i]) - 1} :
           i \in {j \in DOMAIN p : j <= limit}}

(* The no-goods of worker 0's path exclude no solution that has not been
   found: above an edge that has been stolen from none are extracted. *)
NogoodsSound ==
  epc = "nogoods_do" =>
    \A n \in Excluded(path[0], ngdl[0]) : \A s \in SolvedNodes : Below(n, s) => s \in reported
=============================================================================
