---------------------------- MODULE ParDFSProofs ----------------------------
(***************************************************************************)
(* Parallel depth-first search, for any tree and any number of workers:    *)
(* it keeps to the protocol of ParEngine, so that what ParEngineProofs     *)
(* proves of the engine and its workers holds of it; and it loses no part  *)
(* of the tree and visits none twice, which takes what PathProofs proves   *)
(* of the paths and what is still to be explored.                          *)
(***************************************************************************)
EXTENDS ParDFS, ParEngineProofs, PathProofs

LEMMA SearchStepAllowed ==
  ASSUME NEW w \in Worker, SearchStep(w)
  PROVE  WorkerSearch(w)
<1>1. CASE Solved(w, cur[w]) /\ SolvedTree(w)
  <2>1. cur[w] \in Solution
    BY <1>1, TreeAssumption DEF SolvedTree, Node
  <2> QED
    BY <1>1, <2>1 DEF WorkerSearch
<1>2. CASE \E s \in Node : StealSpace(w, s) /\ StealTree(w, s)
  BY <1>2 DEF WorkerSearch, Node
<1> QED
  BY <1>1, <1>2 DEF SearchStep, WorkerSearch

LEMMA EngineStepAllowed ==
  ASSUME EngineStepDFS
  PROVE  Engine
BY DEF EngineStepDFS, Engine

(* Every behaviour of parallel depth-first search is one of ParEngine: the
   tree decides which of its steps are taken, and adds none. *)
THEOREM DFSImplementsEngine == DFSSpec => Spec
<1>1. DFSInit => Init
  BY DEF DFSInit
<1>2. [DFSNext]_dfsVars => [Next]_vars
  <2>1. CASE EngineStepDFS
    BY <2>1, EngineStepAllowed DEF Next
  <2>2. ASSUME NEW w \in Worker, WorkerStepDFS(w)
        PROVE  Next
    BY <2>2, SearchStepAllowed DEF WorkerStepDFS, Next
  <2>3. CASE UNCHANGED dfsVars
    BY <2>3 DEF dfsVars
  <2> QED
    BY <2>1, <2>2, <2>3 DEF DFSNext
<1> QED
  BY <1>1, <1>2, PTL DEF DFSSpec, Spec

(* Parallel depth-first search does not sleep through a solution, resets its
   workers alone, and deletes none that another can reach. *)
THEOREM DFSEngineSafe ==
  DFSSpec => [](NoLostWakeup /\ ResetExclusive /\ NoUseAfterDelete /\ DestroyedAfterAll)
BY DFSImplementsEngine, WakeupIsNotLost, ResetIsExclusive, NobodyUsesDeleted, DestroyedLast, PTL

(***************************************************************************)
(* Nodes, edges and paths.                                                 *)
(***************************************************************************)
LEMMA PathAssumed == PathAssumption(Node, Alternatives, EdgeType)
<1>1. TreeFacts(Node, Alternatives)
  BY TreeAssumption, SolutionAssumption DEF TreeFacts, Node
<1>2. EdgeFacts(Node, EdgeType)
  BY DEF EdgeFacts, EdgeType, Changed
<1> QED BY <1>1, <1>2 DEF PathAssumption

USE PathAssumed

LEMMA EdgeIs ==
  ASSUME NEW n \in Node, Alternatives[n] > 0, NEW copy \in {n, NoSpace}
  PROVE  LET e == Edge(n, copy, Alternatives[n])
         IN  /\ e \in EdgeType /\ EdgeOK(Alternatives, EdgeType, e) /\ ~LAO(e)
             /\ e.node = n /\ e.space = copy /\ e.alt = 0 /\ e.altMax = Alternatives[n] - 1
             /\ e.alternatives = Alternatives[n]
             /\ HasWork(e) <=> Alternatives[n] > 1
<1>1. Alternatives[n] \in Nat
  BY TreeAssumption
<1> QED BY <1>1 DEF Edge, EdgeType, EdgeOK, LAO, HasWork

(***************************************************************************)
(* What is still to be explored: F[w] is the set of subtrees that worker w *)
(* still has to explore, R the set of the solutions reported.              *)
(***************************************************************************)
Covers(F, R) ==
  /\ F \in [Worker -> SUBSET Node] /\ R \subseteq SolvedNodes
  /\ \A s \in SolvedNodes \ R : \E w \in Worker : \E n \in F[w] : Below(n, s)
  /\ \A w, v \in Worker : \A n \in F[w], m \in F[v] : Below(n, m) => w = v /\ n = m
  /\ \A w \in Worker : \A n \in F[w] : \A s \in R : ~Below(n, s)

LEMMA SolvedIs ==
  \A s \in SolvedNodes : s \in Node /\ Alternatives[s] = 0 /\ \A n \in Node : Below(s, n) => s = n
<1> TAKE s \in SolvedNodes
<1>1. s \in Node /\ Alternatives[s] = 0
  BY TreeAssumption
<1>2. ASSUME NEW n \in Node, Below(s, n), s # n PROVE FALSE
  <2>1. \E a \in 0 .. Alternatives[s] - 1 : TRUE
    BY <1>1, <1>2, BelowChild
  <2> QED BY <1>1, <2>1
<1> QED BY <1>1, <1>2

(* subtrees without solutions are given up *)
LEMMA ShrinkOK ==
  ASSUME NEW F, NEW G, NEW R, Covers(F, R), G \in [Worker -> SUBSET Node],
         \A w \in Worker : G[w] \subseteq F[w],
         \A w \in Worker : \A n \in F[w] \ G[w] : \A s \in SolvedNodes : ~Below(n, s)
  PROVE  Covers(G, R)
<1>1. ASSUME NEW s \in SolvedNodes \ R
      PROVE  \E w \in Worker : \E n \in G[w] : Below(n, s)
  <2>1. PICK w \in Worker : \E n \in F[w] : Below(n, s)
    BY DEF Covers
  <2>2. PICK n \in F[w] : Below(n, s)
    BY <2>1
  <2>3. n \in G[w]
    BY <2>2
  <2> QED BY <2>2, <2>3
<1> QED BY <1>1 DEF Covers

(* a node is replaced by its children *)
LEMMA ExpandOK ==
  ASSUME NEW F, NEW G, NEW R, Covers(F, R), NEW w \in Worker, NEW n \in F[w],
         Alternatives[n] > 0,
         G = [F EXCEPT ![w] = (F[w] \ {n}) \cup {Child(n, a) : a \in 0 .. Alternatives[n] - 1}]
  PROVE  Covers(G, R)
<1> DEFINE K == {Child(n, a) : a \in 0 .. Alternatives[n] - 1}
<1>1. /\ F \in [Worker -> SUBSET Node] /\ R \subseteq SolvedNodes /\ n \in Node
      /\ Alternatives[n] \in Nat
  BY TreeAssumption DEF Covers
<1>2. \A a \in 0 .. Alternatives[n] - 1 : a \in Nat /\ Child(n, a) \in Node
  BY <1>1, TreeAssumption
<1>3. \A x \in K : /\ x \in Node /\ Below(n, x)
                   /\ \A m \in Node : Below(m, x) => m = x \/ Below(m, n)
                   /\ \A y \in K : Below(x, y) => x = y
  <2> SUFFICES ASSUME NEW x \in K
               PROVE  /\ x \in Node /\ Below(n, x)
                      /\ \A m \in Node : Below(m, x) => m = x \/ Below(m, n)
                      /\ \A y \in K : Below(x, y) => x = y
    OBVIOUS
  <2>1. PICK a \in 0 .. Alternatives[n] - 1 : x = Child(n, a)
    OBVIOUS
  <2>2. x \in Node /\ Below(n, x) /\ \A m \in Node : Below(m, x) => m = x \/ Below(m, n)
    BY <2>1, <1>1, <1>2, Children
  <2>3. ASSUME NEW y \in K, Below(x, y) PROVE x = y
    <3>1. PICK b \in 0 .. Alternatives[n] - 1 : y = Child(n, b)
      BY <2>3
    <3>2. y \in Node /\ Below(y, y)
      BY <3>1, <1>2, BelowOrder
    <3>3. a = b
      BY <2>1, <2>3, <3>1, <3>2, <1>1, <1>2, Children
    <3> QED BY <2>1, <3>1, <3>3
  <2> QED BY <2>2, <2>3
<1> HIDE DEF K
<1>4. /\ G \in [Worker -> SUBSET Node] /\ G[w] = (F[w] \ {n}) \cup K
      /\ \A v \in Worker : v # w => G[v] = F[v]
  <2>1. G = [F EXCEPT ![w] = (F[w] \ {n}) \cup K]
    BY DEF K
  <2>2. K \subseteq Node
    BY <1>3
  <2> QED BY <1>1, <2>1, <2>2
<1>5. ASSUME NEW s \in SolvedNodes \ R
      PROVE  \E v \in Worker : \E m \in G[v] : Below(m, s)
  <2>1. PICK v \in Worker : \E m \in F[v] : Below(m, s)
    BY DEF Covers
  <2>2. PICK m \in F[v] : Below(m, s)
    BY <2>1
  <2>3. CASE v = w /\ m = n
    <3>1. s \in Node /\ Alternatives[s] = 0
      BY SolvedIs
    <3>2. s # n
      BY <3>1
    <3>3. PICK a \in 0 .. Alternatives[n] - 1 : Below(Child(n, a), s)
      BY <1>1, <2>2, <2>3, <3>1, <3>2, BelowChild
    <3>4. Child(n, a) \in G[w]
      BY <1>4 DEF K
    <3> QED BY <3>3, <3>4
  <2>4. CASE ~(v = w /\ m = n)
    <3>1. m \in G[v]
      BY <1>4, <2>4
    <3> QED BY <2>2, <3>1
  <2> QED BY <2>3, <2>4
(* what is above a child or below it is above or below the node *)
<1>6. \A v \in Worker : \A m \in F[v] : \A x \in K :
        ~(v = w /\ m = n) => ~Below(x, m) /\ ~Below(m, x)
  <2> SUFFICES ASSUME NEW v \in Worker, NEW m \in F[v], NEW x \in K, ~(v = w /\ m = n)
               PROVE  ~Below(x, m) /\ ~Below(m, x)
    OBVIOUS
  <2>1. m \in Node /\ x \in Node /\ Below(n, x)
    BY <1>1, <1>3
  <2>2. ~Below(n, m) /\ ~Below(m, n)
    BY DEF Covers
  <2>3. ~Below(x, m)
    BY <1>1, <2>1, <2>2, BelowOrder
  <2>4. m # x
    BY <2>1, <2>2
  <2> QED BY <1>3, <2>1, <2>2, <2>3, <2>4
<1>7. ASSUME NEW u \in Worker, NEW v \in Worker, NEW x \in G[u], NEW y \in G[v], Below(x, y)
      PROVE  u = v /\ x = y
  <2>1. (x \in K /\ u = w) \/ (x \in F[u] /\ ~(u = w /\ x = n))
    BY <1>4
  <2>2. (y \in K /\ v = w) \/ (y \in F[v] /\ ~(v = w /\ y = n))
    BY <1>4
  <2>3. CASE x \in K /\ u = w /\ y \in K /\ v = w
    BY <2>3, <1>3, <1>7
  <2>4. CASE x \in F[u] /\ y \in F[v]
    BY <2>4, <1>7 DEF Covers
  <2> QED BY <2>1, <2>2, <2>3, <2>4, <1>6, <1>7
<1>8. ASSUME NEW v \in Worker, NEW x \in G[v], NEW s \in R
      PROVE  ~Below(x, s)
  <2>1. CASE x \in F[v]
    BY <2>1 DEF Covers
  <2>2. CASE x \in K
    <3>1. ~Below(n, s) /\ s \in Node
      BY <1>1, SolvedIs DEF Covers
    <3> QED BY <2>2, <3>1, <1>1, <1>3, BelowOrder
  <2> QED BY <2>1, <2>2, <1>4
<1> QED BY <1>1, <1>4, <1>5, <1>7, <1>8 DEF Covers

(* a solution is reported *)
LEMMA SolveOK ==
  ASSUME NEW F, NEW G, NEW R, Covers(F, R), NEW w \in Worker, NEW n \in F[w],
         n \in SolvedNodes, G = [F EXCEPT ![w] = F[w] \ {n}]
  PROVE  Covers(G, R \cup {n})
<1>1. /\ F \in [Worker -> SUBSET Node] /\ R \subseteq SolvedNodes
  BY DEF Covers
<1>2. /\ G \in [Worker -> SUBSET Node] /\ G[w] = F[w] \ {n}
      /\ \A v \in Worker : v # w => G[v] = F[v]
  BY <1>1
<1>3. \A v \in Worker : G[v] \subseteq F[v] /\ (v = w => n \notin G[v])
  BY <1>2
<1>4. ASSUME NEW s \in SolvedNodes \ (R \cup {n})
      PROVE  \E v \in Worker : \E m \in G[v] : Below(m, s)
  <2>1. PICK v \in Worker : \E m \in F[v] : Below(m, s)
    BY DEF Covers
  <2>2. PICK m \in F[v] : Below(m, s)
    BY <2>1
  <2>3. m # n
    BY <2>2, SolvedIs
  <2>4. m \in G[v]
    BY <1>2, <2>3
  <2> QED BY <2>2, <2>4
<1>5. \A u, v \in Worker : \A x \in G[u], m \in G[v] : Below(x, m) => u = v /\ x = m
  BY <1>3 DEF Covers
<1>6. ASSUME NEW v \in Worker, NEW x \in G[v], NEW s \in R \cup {n}
      PROVE  ~Below(x, s)
  <2>1. CASE s \in R
    BY <2>1, <1>3 DEF Covers
  <2>2. CASE s = n
    BY <2>2, <1>3 DEF Covers
  <2> QED BY <2>1, <2>2
<1> QED BY <1>1, <1>2, <1>4, <1>5, <1>6 DEF Covers

(* a subtree passes from one worker to another *)
LEMMA MoveOK ==
  ASSUME NEW F, NEW G, NEW R, Covers(F, R), NEW v \in Worker, NEW w \in Worker, v # w,
         NEW s \in F[v], G \in [Worker -> SUBSET Node],
         G[v] = F[v] \ {s}, G[w] = F[w] \cup {s},
         \A u \in Worker : u # v /\ u # w => G[u] = F[u]
  PROVE  Covers(G, R)
<1>1. \A u \in Worker : \A x \in G[u] :
        \/ u = w /\ x = s
        \/ x \in F[u] /\ ~(u = v /\ x = s)
  OBVIOUS
<1>2. ASSUME NEW t \in SolvedNodes \ R
      PROVE  \E u \in Worker : \E n \in G[u] : Below(n, t)
  <2>1. PICK u \in Worker : \E n \in F[u] : Below(n, t)
    BY DEF Covers
  <2>2. PICK n \in F[u] : Below(n, t)
    BY <2>1
  <2>3. n \in G[u] \/ n \in G[w]
    OBVIOUS
  <2> QED BY <2>2, <2>3
<1>3. ASSUME NEW u \in Worker, NEW z \in Worker, NEW x \in G[u], NEW y \in G[z], Below(x, y)
      PROVE  u = z /\ x = y
  <2>1. CASE u = w /\ x = s
    <3>1. CASE z = w /\ y = s
      BY <2>1, <3>1
    <3>2. CASE y \in F[z] /\ ~(z = v /\ y = s)
      BY <2>1, <3>2, <1>3 DEF Covers
    <3> QED BY <1>1, <3>1, <3>2
  <2>2. CASE x \in F[u] /\ ~(u = v /\ x = s)
    <3>1. CASE z = w /\ y = s
      BY <2>2, <3>1, <1>3 DEF Covers
    <3>2. CASE y \in F[z]
      BY <2>2, <3>2, <1>3 DEF Covers
    <3> QED BY <1>1, <3>1, <3>2
  <2> QED BY <1>1, <2>1, <2>2
<1>4. ASSUME NEW u \in Worker, NEW x \in G[u], NEW t \in R
      PROVE  ~Below(x, t)
  BY <1>1 DEF Covers
<1> QED BY <1>2, <1>3, <1>4 DEF Covers

(* the root is all there is to explore *)
LEMMA StartOK ==
  ASSUME NEW G, G = [w \in Worker |-> IF w = 0 /\ RootOrFailed # NoSpace THEN {RootOrFailed} ELSE {}]
  PROVE  Covers(G, {})
<1>1. /\ RootOrFailed # NoSpace => RootOrFailed = <<>>
      /\ RootOrFailed = NoSpace => Failed(<<>>)
      /\ <<>> \in Node /\ 0 \in Worker
  BY NodeSeq, NWorkersAssumption DEF RootOrFailed, Worker
<1>2. G \in [Worker -> SUBSET Node]
  BY <1>1
<1>3. ASSUME NEW s \in SolvedNodes
      PROVE  \E w \in Worker : \E n \in G[w] : Below(n, s)
  <2>1. s \in Node /\ Below(<<>>, s)
    BY SolvedIs, BelowOrder
  <2>2. RootOrFailed # NoSpace
    <3> SUFFICES ASSUME Failed(<<>>) PROVE FALSE
      BY <1>1
    <3>1. Alternatives[<<>>] = 0 /\ s # <<>>
      BY DEF Failed
    <3>2. \E a \in 0 .. Alternatives[<<>>] - 1 : TRUE
      BY <1>1, <2>1, <3>1, BelowChild
    <3> QED BY <3>1, <3>2
  <2>3. <<>> \in G[0]
    BY <1>1, <2>2
  <2> QED BY <1>1, <2>1, <2>3
<1>4. \A u, v \in Worker : \A x \in G[u], m \in G[v] : Below(x, m) => u = v /\ x = m
  OBVIOUS
<1> QED BY <1>2, <1>3, <1>4 DEF Covers

(***************************************************************************)
(* The inductive invariant.                                                *)
(***************************************************************************)
InHand(w) == IF wpc[w] \in {"busy", "take"} THEN {hand[w]} ELSE {}
Left == [w \in Worker |-> Frontier(w)]

(* Every worker's path is in order, an idle worker has nothing, and the workers have
   between them all that is left of the tree, each part once. *)
TreeInv ==
  /\ TreeTypeOK
  /\ \A w \in Worker : WorkerOK(Node, Alternatives, EdgeType, path[w], cur[w], d[w], ngdl[w], nWork[w])
  /\ \A w \in Worker : idle[w] => cur[w] = NoSpace /\ path[w] = <<>>
  /\ Covers(Left, reported)

LEMMA LeftIs ==
  \A w \in Worker : Left[w] = Frontier(w) /\ Frontier(w) = Own(path[w], cur[w]) \cup InHand(w)
BY DEF Left, Frontier, Own, Top, InHand

LEMMA LeftIsNext ==
  \A w \in Worker :
    Left'[w] = Frontier(w)' /\ Frontier(w)' = Own(path'[w], cur'[w]) \cup InHand(w)'
BY DEF Left, Frontier, Own, Top, InHand, Pending

LEMMA LeftSame ==
  ASSUME UNCHANGED treeVars, \A w \in Worker : InHand(w)' = InHand(w)
  PROVE  Left' = Left
<1>1. \A w \in Worker : Left'[w] = Left[w]
  BY LeftIs, LeftIsNext DEF treeVars
<1> QED BY <1>1 DEF Left

(* nothing changes but which worker has what in its hand *)
LEMMA KeepOK ==
  ASSUME TreeInv, UNCHANGED treeVars, \A w \in Worker : InHand(w)' = InHand(w),
         \A w \in Worker : idle'[w] => idle[w] \/ (cur[w] = NoSpace /\ path[w] = <<>>)
  PROVE  TreeInv'
<1>1. Left' = Left
  BY LeftSame
<1> QED BY <1>1 DEF TreeInv, TreeTypeOK, treeVars

(* one worker's path, current space and hand change *)
LEMMA OneWorker ==
  ASSUME TreeInv, NEW w \in Worker, NEW p, NEW c, NEW k, NEW ng, NEW open,
         WorkerOK(Node, Alternatives, EdgeType, p, c, k, ng, open),
         path' = [path EXCEPT ![w] = p], cur' = [cur EXCEPT ![w] = c],
         d' = [d EXCEPT ![w] = k], ngdl' = [ngdl EXCEPT ![w] = ng],
         nWork' = [nWork EXCEPT ![w] = open],
         wpc'[w] \notin {"busy", "take"}, idle'[w] => c = NoSpace /\ p = <<>>,
         \A v \in Worker : v # w => idle'[v] = idle[v] /\ wpc'[v] = wpc[v] /\ hand'[v] = hand[v]
  PROVE  /\ Left' = [Left EXCEPT ![w] = Own(p, c)]
         /\ Covers(Left', reported') => TreeInv'
<1>1. /\ cur \in [Worker -> Node \cup {NoSpace}] /\ path \in [Worker -> Seq(EdgeType)]
      /\ d \in [Worker -> Nat] /\ ngdl \in [Worker -> Nat] /\ nWork \in [Worker -> Nat]
  BY DEF TreeInv, TreeTypeOK
<1>2. /\ p \in Seq(EdgeType) /\ c \in Node \cup {NoSpace} /\ k \in Nat /\ ng \in Nat /\ open \in Nat
  BY OpenFinite DEF WorkerOK, ShapeOK
<1>3. /\ path'[w] = p /\ cur'[w] = c /\ d'[w] = k /\ ngdl'[w] = ng /\ nWork'[w] = open
      /\ \A v \in Worker : v # w =>
           /\ path'[v] = path[v] /\ cur'[v] = cur[v] /\ d'[v] = d[v]
           /\ ngdl'[v] = ngdl[v] /\ nWork'[v] = nWork[v]
  BY <1>1
<1>4. \A v \in Worker : InHand(v)' = IF v = w THEN {} ELSE InHand(v)
  BY DEF InHand
<1>5. Left' = [Left EXCEPT ![w] = Own(p, c)]
  <2>1. \A v \in Worker : Left'[v] = IF v = w THEN Own(p, c) ELSE Left[v]
    <3> TAKE v \in Worker
    <3>1. Left'[v] = Own(path'[v], cur'[v]) \cup InHand(v)'
      BY LeftIsNext
    <3>2. Left[v] = Own(path[v], cur[v]) \cup InHand(v)
      BY LeftIs
    <3>3. CASE v = w
      <4>1. InHand(v)' = {} /\ path'[v] = p /\ cur'[v] = c
        BY <1>3, <1>4, <3>3
      <4> QED BY <3>1, <3>3, <4>1
    <3>4. CASE v # w
      <4>1. InHand(v)' = InHand(v) /\ path'[v] = path[v] /\ cur'[v] = cur[v]
        BY <1>3, <1>4, <3>4
      <4> QED BY <3>1, <3>2, <3>4, <4>1
    <3> QED BY <3>3, <3>4
  <2>2. /\ Left' = [v \in Worker |-> Left'[v]]
        /\ [Left EXCEPT ![w] = Own(p, c)] = [v \in Worker |-> IF v = w THEN Own(p, c) ELSE Left[v]]
    BY DEF Left
  <2> QED BY <2>1, <2>2
<1>6. ASSUME Covers(Left', reported') PROVE TreeInv'
  <2>1. TreeTypeOK'
    <3>1. /\ cur' \in [Worker -> Node \cup {NoSpace}] /\ path' \in [Worker -> Seq(EdgeType)]
          /\ d' \in [Worker -> Nat] /\ ngdl' \in [Worker -> Nat] /\ nWork' \in [Worker -> Nat]
      BY <1>1, <1>2
    <3> QED BY <3>1, <1>6 DEF TreeTypeOK, Covers
  <2>2. \A v \in Worker : WorkerOK(Node, Alternatives, EdgeType, path'[v], cur'[v], d'[v], ngdl'[v], nWork'[v])
    BY <1>3 DEF TreeInv
  <2>3. \A v \in Worker : idle'[v] => cur'[v] = NoSpace /\ path'[v] = <<>>
    BY <1>3 DEF TreeInv
  <2>4. (\A v \in Worker : WorkerOK(Node, Alternatives, EdgeType, path[v], cur[v], d[v], ngdl[v], nWork[v]))'
    BY <2>2 DEF WorkerOK, OpenEdges, PointsOK, ShapeOK
  <2> QED BY <2>1, <2>3, <2>4, <1>6 DEF TreeInv
<1> QED BY <1>5, <1>6

(* A step that gives up only what holds no solution. *)
LEMMA GiveUpOK ==
  ASSUME TreeInv, NEW w \in Worker, NEW S, Left' = [Left EXCEPT ![w] = S],
         S \subseteq Left[w], \A n \in Left[w] \ S : \A s \in SolvedNodes : ~Below(n, s),
         UNCHANGED reported
  PROVE  Covers(Left', reported')
<1>1. Left \in [Worker -> SUBSET Node] /\ Covers(Left, reported)
  BY DEF TreeInv, Covers
<1>2. \A v \in Worker : Left'[v] = IF v = w THEN S ELSE Left[v]
  BY <1>1
<1>3. Left' \in [Worker -> SUBSET Node]
  BY <1>1
<1>4. \A v \in Worker : /\ Left'[v] \subseteq Left[v]
                        /\ \A n \in Left[v] \ Left'[v] : \A s \in SolvedNodes : ~Below(n, s)
  BY <1>2
<1> HIDE DEF Left
<1>5. Covers(Left', reported)
  BY <1>1, <1>3, <1>4, ShrinkOK
<1> QED BY <1>5

(***************************************************************************)
(* The steps of a worker.                                                  *)
(***************************************************************************)
LEMMA FailedIs ==
  ASSUME NEW n \in Node, Failed(n)
  PROVE  \A s \in SolvedNodes : ~Below(n, s)
<1> SUFFICES ASSUME NEW s \in SolvedNodes, Below(n, s) PROVE FALSE
  OBVIOUS
<1>1. s \in Node /\ s # n /\ Alternatives[n] = 0
  BY SolvedIs DEF Failed
<1>2. \E a \in 0 .. Alternatives[n] - 1 : TRUE
  BY <1>1, BelowChild
<1> QED BY <1>1, <1>2

(* what is known of a worker that works *)
LEMMA WorkerIs ==
  ASSUME TypeOK, TreeInv, NEW w \in Worker
  PROVE  /\ WorkerOK(Node, Alternatives, EdgeType, path[w], cur[w], d[w], ngdl[w], nWork[w])
         /\ d[w] \in Nat /\ ngdl[w] \in Nat /\ nWork[w] \in Nat /\ cur[w] \in Node \cup {NoSpace}
         /\ ShapeOK(Alternatives, EdgeType, path[w], ngdl[w]) /\ path[w] \in Seq(EdgeType)
         /\ nWork[w] = Cardinality(OpenEdges(path[w]))
         /\ d = [d EXCEPT ![w] = d[w]] /\ ngdl = [ngdl EXCEPT ![w] = ngdl[w]]
         /\ nWork = [nWork EXCEPT ![w] = nWork[w]] /\ path = [path EXCEPT ![w] = path[w]]
         /\ cur = [cur EXCEPT ![w] = cur[w]]
         /\ Left \in [Worker -> SUBSET Node] /\ Left[w] = Own(path[w], cur[w]) \cup InHand(w)
         /\ wpc \in [Worker -> WorkerPC] /\ idle \in [Worker -> BOOLEAN]
         /\ hand \in [Worker -> Solution \cup {NoSpace}]
<1>1. /\ cur \in [Worker -> Node \cup {NoSpace}] /\ path \in [Worker -> Seq(EdgeType)]
      /\ d \in [Worker -> Nat] /\ ngdl \in [Worker -> Nat] /\ nWork \in [Worker -> Nat]
  BY DEF TreeInv, TreeTypeOK
<1>2. WorkerOK(Node, Alternatives, EdgeType, path[w], cur[w], d[w], ngdl[w], nWork[w])
  BY DEF TreeInv
<1>3. Left \in [Worker -> SUBSET Node]
  BY DEF TreeInv, Covers
<1>4. /\ wpc \in [Worker -> WorkerPC] /\ idle \in [Worker -> BOOLEAN]
      /\ hand \in [Worker -> Solution \cup {NoSpace}]
  BY DEF TypeOK, ControlOK, FlagsOK, SpacesOK
<1>5. Left[w] = Own(path[w], cur[w]) \cup InHand(w)
  BY LeftIs
<1>6. ShapeOK(Alternatives, EdgeType, path[w], ngdl[w]) /\ nWork[w] = Cardinality(OpenEdges(path[w]))
  BY <1>2 DEF WorkerOK
<1> QED BY <1>1, <1>2, <1>3, <1>4, <1>5, <1>6

(* the control points around a step from work to pc *)
LEMMA WorkIs ==
  ASSUME TypeOK, TreeInv, NEW w \in Worker, NEW pc, pc \notin {"busy", "take"},
         WGoto(w, "work", pc)
  PROVE  /\ wpc'[w] \notin {"busy", "take"} /\ InHand(w) = {}
         /\ \A v \in Worker : v # w => wpc'[v] = wpc[v]
         /\ Left[w] = Own(path[w], cur[w])
<1>1. wpc \in [Worker -> WorkerPC] /\ Left[w] = Own(path[w], cur[w]) \cup InHand(w)
  BY WorkerIs
<1> QED BY <1>1 DEF WGoto, InHand

(* a failed node is done with *)
LEMMA FailedStep ==
  ASSUME TypeOK, TreeInv, NEW w \in Worker, Explore(w), cur[w] # NoSpace, FailedNode(w)
  PROVE  TreeInv'
<1> DEFINE p == path[w]
           q == NextAlt(p)
           o == IF q # <<>> /\ ~HasWork(Last(q)) THEN nWork[w] - 1 ELSE nWork[w]
<1>1. /\ WorkerOK(Node, Alternatives, EdgeType, p, cur[w], d[w], ngdl[w], nWork[w]) /\ d[w] \in Nat /\ ngdl[w] \in Nat
      /\ ShapeOK(Alternatives, EdgeType, p, ngdl[w]) /\ nWork[w] = Cardinality(OpenEdges(p)) /\ cur[w] \in Node
  BY WorkerIs
<1>2. WorkerOK(Node, Alternatives, EdgeType, q, NoSpace, d[w], ngdl[w], o) /\ Own(q, NoSpace) = Pending(p)
  BY <1>1, AdvanceOK
<1>3. /\ wpc'[w] \notin {"busy", "take"} /\ ~idle'[w] /\ Left[w] = Own(p, cur[w])
      /\ \A v \in Worker : v # w => idle'[v] = idle[v] /\ wpc'[v] = wpc[v] /\ hand'[v] = hand[v]
  BY WorkIs DEF Explore
<1>4. /\ path' = [path EXCEPT ![w] = q] /\ cur' = [cur EXCEPT ![w] = NoSpace]
      /\ d' = [d EXCEPT ![w] = d[w]] /\ ngdl' = [ngdl EXCEPT ![w] = ngdl[w]]
      /\ nWork' = [nWork EXCEPT ![w] = o] /\ reported' = reported
  BY WorkerIs DEF FailedNode, Advance
<1> HIDE DEF q, o
<1>5. /\ Left' = [Left EXCEPT ![w] = Own(q, NoSpace)]
      /\ Covers(Left', reported') => TreeInv'
  BY <1>2, <1>3, <1>4, OneWorker
<1>6. /\ Own(q, NoSpace) \subseteq Left[w]
      /\ \A n \in Left[w] \ Own(q, NoSpace) : \A s \in SolvedNodes : ~Below(n, s)
  <2>1. Left[w] \ Own(q, NoSpace) \subseteq {cur[w]} /\ Own(q, NoSpace) \subseteq Left[w]
    BY <1>2, <1>3 DEF Own
  <2> QED BY <2>1, <1>1, FailedIs DEF FailedNode
<1> QED BY <1>4, <1>5, <1>6, GiveUpOK

(* a choice: the node is replaced by its children *)
LEMMA BranchStep ==
  ASSUME TypeOK, TreeInv, NEW w \in Worker, Explore(w), cur[w] # NoSpace, BranchNode(w)
  PROVE  TreeInv'
<1> DEFINE p == path[w]
           n == cur[w]
           clones == d[w] = 0 \/ d[w] >= CD
           copy == IF clones THEN n ELSE NoSpace
           e == Edge(n, copy, Alternatives[n])
           o == IF HasWork(e) THEN nWork[w] + 1 ELSE nWork[w]
           k == IF clones THEN 1 ELSE d[w] + 1
           K == {Child(n, a) : a \in 0 .. Alternatives[n] - 1}
<1>1. /\ WorkerOK(Node, Alternatives, EdgeType, p, n, d[w], ngdl[w], nWork[w]) /\ d[w] \in Nat /\ n \in Node
      /\ Left \in [Worker -> SUBSET Node] /\ Alternatives[n] > 0
  BY WorkerIs DEF BranchNode
<1>2. /\ wpc'[w] \notin {"busy", "take"} /\ ~idle'[w] /\ Left[w] = Own(p, n)
      /\ \A v \in Worker : v # w => idle'[v] = idle[v] /\ wpc'[v] = wpc[v] /\ hand'[v] = hand[v]
  BY WorkIs DEF Explore
<1>3. /\ path' = [path EXCEPT ![w] = Push(p, e)] /\ cur' = [cur EXCEPT ![w] = Child(n, 0)]
      /\ d' = [d EXCEPT ![w] = k] /\ ngdl' = [ngdl EXCEPT ![w] = ngdl[w]]
      /\ nWork' = [nWork EXCEPT ![w] = o] /\ reported' = reported
  <2>1. ngdl' = [ngdl EXCEPT ![w] = ngdl[w]]
    BY WorkerIs DEF BranchNode
  <2>2. path \in [Worker -> Seq(EdgeType)] /\ nWork \in [Worker -> Nat] /\ d \in [Worker -> Nat]
    BY DEF TreeInv, TreeTypeOK
  <2> QED BY <2>1, <2>2 DEF BranchNode
<1>4. copy \in {n, NoSpace} /\ (copy = NoSpace => d[w] # 0) /\ k \in Nat \ {0}
  BY <1>1, NodeSeq
<1> HIDE DEF copy, k
<1>4a. /\ e \in EdgeType /\ e.node = n /\ e.space = copy /\ e.alt = 0
       /\ e.altMax = Alternatives[n] - 1 /\ e.alternatives = Alternatives[n]
  BY <1>1, <1>4, EdgeIs
<1> HIDE DEF e
<1>5. /\ WorkerOK(Node, Alternatives, EdgeType, Push(p, e), Child(n, 0), k, ngdl[w], o)
      /\ Own(Push(p, e), Child(n, 0)) = (Own(p, n) \ {n}) \cup K
  BY <1>1, <1>4, <1>4a, BranchOK
<1>6. n \in Left[w]
  BY <1>2 DEF Own
<1> HIDE DEF o
<1>7. /\ Left' = [Left EXCEPT ![w] = (Left[w] \ {n}) \cup K]
      /\ Covers(Left', reported') => TreeInv'
  <2>1. /\ Left' = [Left EXCEPT ![w] = Own(Push(p, e), Child(n, 0))]
        /\ Covers(Left', reported') => TreeInv'
    BY <1>2, <1>3, <1>5, OneWorker
  <2> QED BY <2>1, <1>2, <1>5
<1>8. Covers(Left', reported)
  <2>1. Covers(Left, reported)
    BY DEF TreeInv
  <2> HIDE DEF Left
  <2> QED BY <2>1, <1>1, <1>6, <1>7, ExpandOK
<1> QED BY <1>3, <1>7, <1>8

(* a solution: it is reported *)
LEMMA SolvedStep ==
  ASSUME TypeOK, TreeInv, NEW w \in Worker, Solved(w, cur[w]), SolvedTree(w)
  PROVE  TreeInv'
<1> DEFINE p == path[w]
           n == cur[w]
           q == NextAlt(p)
           o == IF q # <<>> /\ ~HasWork(Last(q)) THEN nWork[w] - 1 ELSE nWork[w]
<1>1. /\ WorkerOK(Node, Alternatives, EdgeType, p, n, d[w], ngdl[w], nWork[w]) /\ d[w] \in Nat /\ ngdl[w] \in Nat
      /\ ShapeOK(Alternatives, EdgeType, p, ngdl[w]) /\ nWork[w] = Cardinality(OpenEdges(p))
      /\ n \in SolvedNodes /\ n # NoSpace
  BY WorkerIs, SolvedIs, NodeSeq DEF SolvedTree
<1>2. WorkerOK(Node, Alternatives, EdgeType, q, NoSpace, d[w], ngdl[w], o) /\ Own(q, NoSpace) = Pending(p)
  BY <1>1, AdvanceOK
<1>3. /\ wpc'[w] \notin {"busy", "take"} /\ ~idle'[w] /\ Left[w] = Own(p, n)
      /\ \A v \in Worker : v # w => idle'[v] = idle[v] /\ wpc'[v] = wpc[v] /\ hand'[v] = hand[v]
  BY WorkIs, WorkerIs DEF Solved
<1>4. /\ path' = [path EXCEPT ![w] = q] /\ cur' = [cur EXCEPT ![w] = NoSpace]
      /\ d' = [d EXCEPT ![w] = d[w]] /\ ngdl' = [ngdl EXCEPT ![w] = ngdl[w]]
      /\ nWork' = [nWork EXCEPT ![w] = o] /\ reported' = reported \cup {n}
  BY WorkerIs DEF SolvedTree, Advance
<1> HIDE DEF q, o
<1>5. /\ Left' = [Left EXCEPT ![w] = Own(q, NoSpace)]
      /\ Covers(Left', reported') => TreeInv'
  BY <1>2, <1>3, <1>4, OneWorker
<1>6. Own(q, NoSpace) = Left[w] \ {n} /\ n \in Left[w]
  BY <1>1, <1>2, <1>3, OwnNodes DEF Own
<1>7. Covers(Left', reported \cup {n})
  <2>1. Covers(Left, reported)
    BY DEF TreeInv
  <2> HIDE DEF Left, n
  <2> QED BY <2>1, <1>1, <1>5, <1>6, SolveOK
<1> QED BY <1>4, <1>5, <1>7

(* nothing left: the worker becomes idle *)
LEMMA RunDryStep ==
  ASSUME TypeOK, TreeInv, NEW w \in Worker, RunDry(w), RunDryTree(w)
  PROVE  TreeInv'
<1>1. /\ cur[w] = NoSpace /\ path[w] = <<>> /\ d[w] \in Nat /\ nWork[w] = 0
      /\ reported' = reported
  BY WorkerIs, NothingLeft, FS_EmptySet DEF RunDryTree
<1>2. WorkerOK(Node, Alternatives, EdgeType, <<>>, NoSpace, d[w], 0, 0)
  <2>1. \A k \in Nat : WorkerOK(Node, Alternatives, EdgeType, <<>>, NoSpace, k, 0, 0) <=> (NoSpace # NoSpace => k = 0)
    BY NothingLeft, SMT
  <2> QED BY <1>1, <2>1
<1>3. /\ wpc'[w] \notin {"busy", "take"} /\ Left[w] = Own(<<>>, NoSpace)
      /\ \A v \in Worker : v # w => idle'[v] = idle[v] /\ wpc'[v] = wpc[v] /\ hand'[v] = hand[v]
  BY <1>1, WorkIs, WorkerIs DEF RunDry
<1>4. /\ path' = [path EXCEPT ![w] = <<>>] /\ cur' = [cur EXCEPT ![w] = NoSpace]
      /\ d' = [d EXCEPT ![w] = d[w]] /\ ngdl' = [ngdl EXCEPT ![w] = 0]
      /\ nWork' = [nWork EXCEPT ![w] = 0]
  BY <1>1, WorkerIs DEF RunDryTree
<1>5. /\ Left' = [Left EXCEPT ![w] = Own(<<>>, NoSpace)]
      /\ Covers(Left', reported') => TreeInv'
  BY <1>2, <1>3, <1>4, OneWorker
<1> QED BY <1>1, <1>3, <1>5, GiveUpOK

(* a thief goes on with what it has stolen *)
LEMMA TakeStep ==
  ASSUME TypeOK, BusyInv, TreeInv, NEW w \in Worker, Take(w), TakeTree(w)
  PROVE  TreeInv'
<1> DEFINE h == hand[w]
<1>1. /\ wpc[w] = "take" /\ idle[w] /\ h \in Node /\ h # NoSpace
  BY NodeSeq DEF Take, WGoto, BusyInv, TypeOK, SpacesOK, Node
<1>2. cur[w] = NoSpace /\ path[w] = <<>> /\ nWork[w] = 0
  BY <1>1, WorkerIs, NothingLeft, FS_EmptySet DEF TreeInv
<1>3. WorkerOK(Node, Alternatives, EdgeType, <<>>, h, 0, 0, 0)
  BY <1>1, NothingLeft
<1>4. Own(<<>>, h) = {h} /\ Left[w] = {h}
  BY <1>1, <1>2, WorkerIs, NothingLeft DEF Own, InHand
<1>5. /\ wpc'[w] \notin {"busy", "take"} /\ ~idle'[w]
      /\ \A v \in Worker : v # w => idle'[v] = idle[v] /\ wpc'[v] = wpc[v] /\ hand'[v] = hand[v]
  BY WorkerIs DEF Take, WGoto
<1>6. /\ path' = [path EXCEPT ![w] = <<>>] /\ cur' = [cur EXCEPT ![w] = h]
      /\ d' = [d EXCEPT ![w] = 0] /\ ngdl' = [ngdl EXCEPT ![w] = 0]
      /\ nWork' = [nWork EXCEPT ![w] = 0] /\ reported' = reported
  BY <1>2, WorkerIs DEF TakeTree
<1> HIDE DEF h
<1>7. /\ Left' = [Left EXCEPT ![w] = Own(<<>>, h)]
      /\ Covers(Left', reported') => TreeInv'
  BY <1>3, <1>5, <1>6, OneWorker
<1> QED BY <1>4, <1>6, <1>7, GiveUpOK

(* recomputation: the next node to explore becomes the current space, or turns out to
   hold no solution *)
LEMMA RecomputeStep ==
  ASSUME TypeOK, TreeInv, NEW w \in Worker, Explore(w), cur[w] = NoSpace, path[w] # <<>>,
         Recompute(w), UNCHANGED <<ngdl, reported>>
  PROVE  TreeInv'
<1> DEFINE p == path[w]
           ng == ngdl[w]
           n == Child(Last(p).node, Last(p).alt)
           l == LastCopy(p)
           i == AdaptiveEdge(p)
<1>1. /\ WorkerOK(Node, Alternatives, EdgeType, p, NoSpace, d[w], ng, nWork[w]) /\ d[w] \in Nat /\ ng \in Nat
      /\ ShapeOK(Alternatives, EdgeType, p, ng) /\ nWork[w] = Cardinality(OpenEdges(p)) /\ p \in Seq(EdgeType)
      /\ PointsOK(p, NoSpace, d[w]) /\ ng \in Nat
  BY WorkerIs DEF WorkerOK
<1>2. /\ wpc'[w] \notin {"busy", "take"} /\ ~idle'[w] /\ Left[w] = Own(p, NoSpace)
      /\ \A v \in Worker : v # w => idle'[v] = idle[v] /\ wpc'[v] = wpc[v] /\ hand'[v] = hand[v]
  BY WorkIs, WorkerIs DEF Explore
<1>3. /\ ngdl' = [ngdl EXCEPT ![w] = ng] /\ nWork = [nWork EXCEPT ![w] = nWork[w]]
      /\ cur = [cur EXCEPT ![w] = NoSpace] /\ path = [path EXCEPT ![w] = p] /\ reported' = reported
  BY WorkerIs
<1>4. /\ Commits(p, l, Len(p)) = n /\ n \in Node /\ n # NoSpace /\ Distance(p) \in Nat
      /\ PlacesCopy(p, AD) =>
           /\ i \in 1 .. Len(p) /\ ~LAO(p[i]) /\ Len(p) - i + 1 \in Nat
           /\ Commits(p, l, i - 1) = p[i].node
  <2>1. AD \in Nat /\ p # <<>>
    BY OptionsAssumption
  <2> HIDE DEF p
  <2> QED BY <1>1, <2>1, RecomputeOK, NodeSeq
<1>5. ~LAO(Last(p)) /\ Left[w] = Pending(p) \cup {n} /\ HasCopy(p, Len(p))
  BY <1>1, <1>2 DEF PointsOK, Own, Top
<1> HIDE DEF p, ng, n, l, i
<1>5a. ASSUME NEW q, NEW c, NEW k, NEW o, WorkerOK(Node, Alternatives, EdgeType, q, c, k, ng, o),
              path' = [path EXCEPT ![w] = q], cur' = [cur EXCEPT ![w] = c],
              d' = [d EXCEPT ![w] = k], nWork' = [nWork EXCEPT ![w] = o]
       PROVE  /\ Left' = [Left EXCEPT ![w] = Own(q, c)]
              /\ Covers(Left', reported') => TreeInv'
  <2>1. /\ path' = [path EXCEPT ![w] = q] /\ cur' = [cur EXCEPT ![w] = c]
        /\ d' = [d EXCEPT ![w] = k] /\ ngdl' = [ngdl EXCEPT ![w] = ng]
        /\ nWork' = [nWork EXCEPT ![w] = o]
        /\ WorkerOK(Node, Alternatives, EdgeType, q, c, k, ng, o)
    BY <1>3, <1>5a
  <2> QED BY <1>2, <2>1, OneWorker
(* any step to the node n that keeps what is left to take *)
<1>6. ASSUME NEW q, NEW k, WorkerOK(Node, Alternatives, EdgeType, q, n, k, ng, nWork[w]), Pending(q) = Pending(p),
             path' = [path EXCEPT ![w] = q], cur' = [cur EXCEPT ![w] = n],
             d' = [d EXCEPT ![w] = k], UNCHANGED nWork
      PROVE  TreeInv'
  <2>1. /\ path' = [path EXCEPT ![w] = q] /\ cur' = [cur EXCEPT ![w] = n]
        /\ d' = [d EXCEPT ![w] = k] /\ ngdl' = [ngdl EXCEPT ![w] = ng]
        /\ nWork' = [nWork EXCEPT ![w] = nWork[w]]
        /\ WorkerOK(Node, Alternatives, EdgeType, q, n, k, ng, nWork[w])
    BY <1>3, <1>6
  <2>2. /\ Left' = [Left EXCEPT ![w] = Own(q, n)]
        /\ Covers(Left', reported') => TreeInv'
    BY <1>2, <2>1, OneWorker
  <2>3. Own(q, n) = Left[w]
    BY <1>4, <1>5, <1>6 DEF Own
  <2> QED BY <1>3, <2>2, <2>3, GiveUpOK
<1>7. ASSUME CanReuse(p), cur' = [cur EXCEPT ![w] = Child(Last(p).space, Last(p).alt)],
             path' = [path EXCEPT ![w] = Reuse(p, ng)], d' = [d EXCEPT ![w] = 0],
             UNCHANGED nWork
      PROVE  TreeInv'
  <2> DEFINE q == Reuse(p, ng)
  <2>0. p # <<>>
    BY DEF p
  <2>1. /\ ShapeOK(Alternatives, EdgeType, q, ng) /\ Last(p).space = Last(p).node
        /\ PointsOK(q, Child(Last(p).node, Last(p).alt), 0)
        /\ Pending(q) = Pending(p) /\ Cardinality(OpenEdges(q)) = Cardinality(OpenEdges(p))
    <3> HIDE DEF q
    <3>1. \A x : x = Reuse(p, ng) =>
            /\ ShapeOK(Alternatives, EdgeType, x, ng) /\ Last(p).space = Last(p).node
            /\ PointsOK(x, Child(Last(p).node, Last(p).alt), 0)
            /\ Pending(x) = Pending(p) /\ Cardinality(OpenEdges(x)) = Cardinality(OpenEdges(p))
      BY <1>1, <1>5, <1>7, <2>0, ReuseOK
    <3> QED BY <3>1 DEF q
  <2> HIDE DEF q
  <2>2. WorkerOK(Node, Alternatives, EdgeType, q, n, 0, ng, nWork[w])
    BY <1>1, <1>4, <2>1 DEF WorkerOK, n
  <2>3. cur' = [cur EXCEPT ![w] = n] /\ path' = [path EXCEPT ![w] = q]
    BY <1>7, <2>1 DEF n, q
  <2> QED BY <1>6, <1>7, <2>1, <2>2, <2>3
<1>8. ASSUME cur' = [cur EXCEPT ![w] = Commits(p, l, Len(p))],
             d' = [d EXCEPT ![w] = Distance(p)], UNCHANGED <<path, nWork>>
      PROVE  TreeInv'
  <2>1. PointsOK(p, n, Distance(p))
    BY <1>1, <1>5 DEF PointsOK, n
  <2>2. WorkerOK(Node, Alternatives, EdgeType, p, n, Distance(p), ng, nWork[w])
    BY <1>1, <1>4, <2>1 DEF WorkerOK
  <2> QED BY <1>3, <1>4, <1>6, <1>8, <2>2
<1>9. ASSUME PlacesCopy(p, AD), cur' = [cur EXCEPT ![w] = Commits(p, l, Len(p))],
             d' = [d EXCEPT ![w] = Len(p) - i + 1],
             path' = [path EXCEPT ![w] = [p EXCEPT ![i].space = Commits(p, l, i - 1)]],
             UNCHANGED nWork
      PROVE  TreeInv'
  <2> DEFINE q == Placed(p, i)
             k == Len(p) - i + 1
  <2>1. /\ ShapeOK(Alternatives, EdgeType, q, ng) /\ Len(q) = Len(p) /\ q # <<>>
        /\ Pending(q) = Pending(p) /\ Cardinality(OpenEdges(q)) = Cardinality(OpenEdges(p))
        /\ Last(q).node = Last(p).node /\ Last(q).alt = Last(p).alt /\ (LAO(Last(q)) <=> LAO(Last(p)))
        /\ HasCopy(q, Len(q))
    <3>1. ng \in Nat /\ ShapeOK(Alternatives, EdgeType, p, ng) /\ i \in 1 .. Len(p) /\ ~LAO(p[i])
      BY <1>1, <1>4, <1>9
    <3> QED BY <3>1, PlaceOK
  <2>2. path' = [path EXCEPT ![w] = q] /\ cur' = [cur EXCEPT ![w] = n] /\ k \in Nat
    BY <1>4, <1>9 DEF Placed
  <2> HIDE DEF q
  <2>3. PointsOK(q, n, k)
    BY <1>5, <2>1 DEF PointsOK, n
  <2>4. WorkerOK(Node, Alternatives, EdgeType, q, n, k, ng, nWork[w])
    BY <1>1, <1>4, <2>1, <2>2, <2>3 DEF WorkerOK
  <2> QED BY <1>6, <1>9, <2>1, <2>2, <2>4
<1>10. ASSUME PlacesCopy(p, AD), Commits(p, l, i - 1) \in WeakFail,
              Advance(w, SubSeq(p, 1, i - 1), nWork[w] - Cardinality({j \in OpenEdges(p) : j >= i})),
              d' = [d EXCEPT ![w] = Distance(p)], UNCHANGED cur
       PROVE  TreeInv'
  <2> DEFINE q == NextAlt(SubSeq(p, 1, i - 1))
             left == nWork[w] - Cardinality({j \in OpenEdges(p) : j >= i})
             o == IF q # <<>> /\ ~HasWork(Last(q)) THEN left - 1 ELSE left
             k == Distance(p)
  <2>1. /\ path' = [path EXCEPT ![w] = q] /\ nWork' = [nWork EXCEPT ![w] = o]
        /\ d' = [d EXCEPT ![w] = k] /\ cur' = [cur EXCEPT ![w] = NoSpace]
    BY <1>3, <1>10 DEF Advance
  <2>2. i \in 1 .. Len(p) /\ p[i].node \in WeakFail /\ k \in Nat /\ p # <<>>
    BY <1>4, <1>10 DEF p
  <2>3. /\ WorkerOK(Node, Alternatives, EdgeType, q, NoSpace, k, ng, o)
        /\ Own(q, NoSpace) \subseteq Own(p, NoSpace)
        /\ \A x \in Own(p, NoSpace) \ Own(q, NoSpace) : Below(p[i].node, x) /\ x \in Node
    <3> HIDE DEF q, left, k
    <3>1. q = NextAlt(SubSeq(p, 1, i - 1)) /\ left = nWork[w] - Cardinality({j \in OpenEdges(p) : j >= i})
      BY DEF q, left
    <3>2. Own(p, NoSpace) \subseteq Node
      BY <1>1, OwnNodes
    <3> QED BY <1>1, <2>2, <3>1, <3>2, UnwoundOK
  <2> HIDE DEF q, o, k
  <2>4. ngdl' = [ngdl EXCEPT ![w] = ng] /\ UNCHANGED reported
    BY <1>3
  <2>5. /\ Left' = [Left EXCEPT ![w] = Own(q, NoSpace)]
        /\ Covers(Left', reported') => TreeInv'
    BY <1>5a, <2>1, <2>3
  <2>6. /\ Own(q, NoSpace) \subseteq Left[w]
        /\ \A x \in Left[w] \ Own(q, NoSpace) : \A s \in SolvedNodes : ~Below(x, s)
    <3>1. p[i].node \in Node /\ \A s \in SolvedNodes : s \in Node /\ ~Below(p[i].node, s)
      BY <2>2, WeakFailAssumption, SolvedIs
    <3>2. \A x \in Own(p, NoSpace) \ Own(q, NoSpace) : \A s \in SolvedNodes : ~Below(x, s)
      BY <2>3, <3>1, BelowOrder
    <3> QED BY <1>2, <2>3, <3>2
  <2> QED BY <2>4, <2>5, <2>6, GiveUpOK
<1> QED BY <1>7, <1>8, <1>9, <1>10 DEF Recompute, p, l, i, ng

(* a thief takes a subtree from its victim *)
LEMMA StealStep ==
  ASSUME TypeOK, BusyInv, TreeInv, NEW w \in Worker, NEW s, StealSpace(w, s), StealTree(w, s)
  PROVE  TreeInv'
<1>0. PICK v : v = victim[w]
  OBVIOUS
<1> DEFINE p == path[v]
           n == StealEdge(p, StealLimit)
           q == GiveAway(p, n)
           m == IF n - 1 < ngdl[v] THEN n - 1 ELSE ngdl[v]
           o == IF HasWork(q[n]) THEN nWork[v] ELSE nWork[v] - 1
<1>1. /\ v \in Worker /\ ~idle[v] /\ idle[w] /\ v # w /\ wpc[w] = "find"
  <2>1. v \in 0 .. NWorkers /\ v < NWorkers /\ wpc[w] = "find"
    BY <1>0 DEF StealSpace, WGoto, TypeOK, CountsOK
  <2>2. v \in Worker
    BY <2>1, NWorkersAssumption DEF Worker
  <2> QED BY <1>0, <2>1, <2>2 DEF StealSpace, BusyInv
<1>2. /\ WorkerOK(Node, Alternatives, EdgeType, p, cur[v], d[v], ngdl[v], nWork[v]) /\ ngdl[v] \in Nat /\ nWork[v] \in Nat
      /\ d[v] \in Nat /\ cur[v] \in Node \cup {NoSpace}
      /\ ShapeOK(Alternatives, EdgeType, p, ngdl[v]) /\ nWork[v] = Cardinality(OpenEdges(p)) /\ p \in Seq(EdgeType)
      /\ PointsOK(p, cur[v], d[v]) /\ Left \in [Worker -> SUBSET Node]
  BY <1>1, WorkerIs DEF WorkerOK
<1>3. n \in OpenEdges(p) /\ n \in 1 .. Len(p)
  <2>1. nWork[v] > StealLimit /\ StealLimit \in Nat
    BY <1>0, OptionsAssumption DEF StealTree, CanSteal
  <2> HIDE DEF p
  <2>2. n \in OpenEdges(p)
    BY <1>2, <2>1, StealEdgeOK
  <2> QED BY <2>2, <1>2, OpenFinite
<1>4. m \in Nat /\ m <= ngdl[v] /\ Len(p) \in Nat
  BY <1>2, <1>3
<1>5. s = Child(p[n].node, p[n].altMax)
  <2>1. s = Stolen(p, n)
    BY <1>0 DEF StealTree
  <2> HIDE DEF n
  <2> QED BY <2>1, <1>2, <1>3, StolenIs
<1>6. /\ path' = [path EXCEPT ![v] = q] /\ nWork' = [nWork EXCEPT ![v] = o]
      /\ ngdl' = [ngdl EXCEPT ![v] = m] /\ UNCHANGED <<cur, d, reported>>
  BY <1>0 DEF StealTree
<1>7. /\ ShapeOK(Alternatives, EdgeType, q, m) /\ s \in Pending(p) /\ Pending(q) = Pending(p) \ {s}
      /\ Top(q) = Top(p) /\ PointsOK(q, cur[v], d[v]) /\ o = Cardinality(OpenEdges(q))
  <2> HIDE DEF n, m, p
  <2>1. \A x : x = GiveAway(p, n) =>
          /\ ShapeOK(Alternatives, EdgeType, x, m)
          /\ Child(p[n].node, p[n].altMax) \in Pending(p)
          /\ Pending(x) = Pending(p) \ {Child(p[n].node, p[n].altMax)}
          /\ Top(x) = Top(p)
          /\ \A c, k : PointsOK(p, c, k) => PointsOK(x, c, k)
          /\ Cardinality(OpenEdges(x)) =
               IF HasWork(x[n]) THEN Cardinality(OpenEdges(p)) ELSE Cardinality(OpenEdges(p)) - 1
    BY <1>2, <1>3, <1>4, GiveAwayOK
  <2> HIDE DEF q
  <2>2. /\ ShapeOK(Alternatives, EdgeType, q, m)
          /\ Child(p[n].node, p[n].altMax) \in Pending(p)
          /\ Pending(q) = Pending(p) \ {Child(p[n].node, p[n].altMax)}
          /\ Top(q) = Top(p)
          /\ \A c, k : PointsOK(p, c, k) => PointsOK(q, c, k)
          /\ Cardinality(OpenEdges(q)) =
               IF HasWork(q[n]) THEN Cardinality(OpenEdges(p)) ELSE Cardinality(OpenEdges(p)) - 1
    BY <2>1 DEF q
  <2> QED BY <1>2, <1>5, <2>2
<1> HIDE DEF q, m, o, n
<1>8. WorkerOK(Node, Alternatives, EdgeType, q, cur[v], d[v], m, o)
  BY <1>2, <1>4, <1>7 DEF WorkerOK
<1>9. s \in Node /\ s \notin Own(q, cur[v]) /\ Own(q, cur[v]) = Own(p, cur[v]) \ {s}
  <2>1. s \in Node
    BY <1>2, <1>7, PendingNodes
  <2>2. s # cur[v] \/ cur[v] = NoSpace
    BY <1>2, <1>7, OwnNodes
  <2>3. cur[v] = NoSpace => s \notin Top(p)
    <3> SUFFICES ASSUME cur[v] = NoSpace, s \in Top(p) PROVE FALSE
      OBVIOUS
    <3> DEFINE a == Last(p).alt
    <3>1. p # <<>> /\ s = Child(Last(p).node, a)
      BY DEF Top
    <3>2. a \in Nat
      <4>1. Last(p) = p[Len(p)] /\ Len(p) \in 1 .. Len(p)
        BY <1>2, <3>1 DEF Last
      <4> QED BY <4>1, <1>2, EdgeTyped
    <3>3. s \notin Pending(p)
      <4> HIDE DEF p, a
      <4> QED BY <1>2, <2>1, <3>1, <3>2, NotPending DEF a
    <3> QED BY <3>3, <1>7
  <2> QED BY <2>1, <2>2, <2>3, <1>7 DEF Own
<1>10. /\ path'[v] = q /\ nWork'[v] = o /\ ngdl'[v] = m /\ cur' = cur /\ d' = d
       /\ path' \in [Worker -> Seq(EdgeType)] /\ nWork' \in [Worker -> Nat] /\ ngdl' \in [Worker -> Nat]
       /\ \A u \in Worker : u # v =>
            path'[u] = path[u] /\ nWork'[u] = nWork[u] /\ ngdl'[u] = ngdl[u]
  <2>1. path \in [Worker -> Seq(EdgeType)] /\ nWork \in [Worker -> Nat] /\ ngdl \in [Worker -> Nat]
    BY DEF TreeInv, TreeTypeOK
  <2>2. q \in Seq(EdgeType) /\ o \in Nat /\ m \in Nat
    BY <1>4, <1>7, OpenFinite DEF ShapeOK
  <2> QED BY <1>1, <1>6, <2>1, <2>2
<1>11. /\ idle' = idle /\ InHand(w) = {} /\ InHand(w)' = {s}
       /\ \A u \in Worker : u # w => InHand(u)' = InHand(u)
  <2>1. wpc \in [Worker -> WorkerPC] /\ hand \in [Worker -> Solution \cup {NoSpace}]
    BY WorkerIs
  <2> QED BY <1>1, <2>1 DEF StealSpace, WGoto, InHand
<1>12. InHand(v) = {}
  BY <1>1 DEF BusyInv, InHand
<1>13. /\ Left'[v] = Left[v] \ {s} /\ Left'[w] = Left[w] \cup {s} /\ s \in Left[v]
       /\ \A u \in Worker : u # v /\ u # w => Left'[u] = Left[u]
  <2>1. \A u \in Worker : /\ Left'[u] = Own(path'[u], cur[u]) \cup InHand(u)'
                          /\ Left[u] = Own(path[u], cur[u]) \cup InHand(u)
    BY <1>10, LeftIs, LeftIsNext
  <2>2. Left'[v] = Own(q, cur[v]) /\ Left[v] = Own(p, cur[v])
    <3>1. InHand(v)' = {} /\ InHand(v) = {}
      BY <1>1, <1>11, <1>12
    <3> QED BY <1>1, <1>10, <2>1, <3>1
  <2>3. Left'[w] = Own(path[w], cur[w]) \cup {s} /\ Left[w] = Own(path[w], cur[w])
    BY <1>1, <1>10, <1>11, <2>1
  <2>4. \A u \in Worker : u # v /\ u # w => Left'[u] = Left[u]
    BY <1>10, <1>11, <2>1
  <2>5. s \in Own(p, cur[v])
    BY <1>7 DEF Own
  <2> QED BY <2>2, <2>3, <2>4, <2>5, <1>9
<1>14. Covers(Left', reported)
  <2>1. Covers(Left, reported)
    BY DEF TreeInv
  <2>2. Left' \in [Worker -> SUBSET Node]
    <3>1. \A u \in Worker : Left'[u] \subseteq Node
      BY <1>1, <1>2, <1>9, <1>13
    <3>2. Left' = [u \in Worker |-> Left'[u]]
      BY DEF Left
    <3> QED BY <3>1, <3>2
  <2> HIDE DEF Left
  <2> QED BY <1>1, <1>13, <2>1, <2>2, MoveOK
<1>15. TreeTypeOK'
  BY <1>6, <1>10 DEF TreeInv, TreeTypeOK
<1>16. \A u \in Worker : WorkerOK(Node, Alternatives, EdgeType, path'[u], cur'[u], d'[u], ngdl'[u], nWork'[u])
  BY <1>8, <1>10 DEF TreeInv
<1>17. \A u \in Worker : idle'[u] => cur'[u] = NoSpace /\ path'[u] = <<>>
  BY <1>1, <1>10, <1>11 DEF TreeInv
<1>18. (\A u \in Worker : WorkerOK(Node, Alternatives, EdgeType, path[u], cur[u], d[u], ngdl[u], nWork[u]))'
  BY <1>16 DEF WorkerOK, OpenEdges, PointsOK, ShapeOK
<1> QED BY <1>6, <1>14, <1>15, <1>17, <1>18 DEF TreeInv

(* what does not touch the tree *)
LEMMA WorkerControlStep ==
  ASSUME TypeOK, TreeInv, NEW w \in Worker, WorkerControl(w) \/ Stopped(w) \/ StealNothing(w),
         UNCHANGED treeVars
  PROVE  TreeInv'
<1> USE DEF WGoto, workerVars
<1>1. wpc \in [Worker -> WorkerPC] /\ hand \in [Worker -> Solution \cup {NoSpace}]
  BY WorkerIs
<1>2. idle' = idle
  BY DEF WorkerControl, Poll, Wait, ReportSolution, ReportIdle, ReportStop, StartFind, FindNothing,
         ReportBusy, AckResetStart, WaitReset, AckResetStop, AckTerminate, WaitTerminate, Delete,
         Terminated, SignalTerminated, Stopped, StealNothing
<1>3. ASSUME ReportSolution(w) \/ ReportBusy(w)
      PROVE  \A v \in Worker : InHand(v)' = InHand(v)
  BY <1>1, <1>3 DEF ReportSolution, ReportBusy, InHand
<1>4. ASSUME Poll(w)
      PROVE  \A v \in Worker : InHand(v)' = InHand(v)
  <2>1. hand' = hand /\ wpc[w] \notin {"busy", "take"} /\ wpc'[w] \notin {"busy", "take"}
        /\ \A v \in Worker : v # w => wpc'[v] = wpc[v]
    BY <1>1, <1>4 DEF Poll, PollTarget, TypeOK, ControlOK
  <2> QED BY <2>1 DEF InHand
<1>5. ASSUME \/ Wait(w) \/ ReportIdle(w) \/ ReportStop(w) \/ StartFind(w) \/ FindNothing(w)
             \/ AckResetStart(w) \/ WaitReset(w) \/ AckResetStop(w) \/ Stopped(w) \/ StealNothing(w)
      PROVE  \A v \in Worker : InHand(v)' = InHand(v)
  <2>1. hand' = hand /\ \A v \in Worker : v # w => wpc'[v] = wpc[v]
    BY <1>1, <1>5 DEF Wait, ReportIdle, ReportStop, StartFind, FindNothing,
         AckResetStart, WaitReset, AckResetStop, Stopped, StealNothing
  <2>2. wpc[w] \notin {"busy", "take"} /\ wpc'[w] \notin {"busy", "take"}
    BY <1>1, <1>5 DEF Wait, ReportIdle, ReportStop, StartFind, FindNothing,
         AckResetStart, WaitReset, AckResetStop, Stopped, StealNothing
  <2> QED BY <2>1, <2>2 DEF InHand
<1>6. ASSUME AckTerminate(w) \/ WaitTerminate(w) \/ Delete(w) \/ Terminated(w) \/ SignalTerminated(w)
      PROVE  \A v \in Worker : InHand(v)' = InHand(v)
  <2>1. hand' = hand /\ \A v \in Worker : v # w => wpc'[v] = wpc[v]
    BY <1>1, <1>6 DEF AckTerminate, WaitTerminate, Delete, Terminated, SignalTerminated
  <2>2. wpc[w] \notin {"busy", "take"} /\ wpc'[w] \notin {"busy", "take"}
    BY <1>1, <1>6 DEF AckTerminate, WaitTerminate, Delete, Terminated, SignalTerminated
  <2> QED BY <2>1, <2>2 DEF InHand
<1>7. \A v \in Worker : InHand(v)' = InHand(v)
  BY <1>3, <1>4, <1>5, <1>6 DEF WorkerControl
<1> QED BY <1>2, <1>7, KeepOK

LEMMA SearchStepOK ==
  ASSUME TypeOK, BusyInv, TreeInv, NEW w \in Worker, SearchStep(w)
  PROVE  TreeInv'
<1>1. CASE Explore(w) /\ ExploreTree(w)
  BY <1>1, FailedStep, BranchStep, RecomputeStep DEF ExploreTree
<1>2. CASE Stopped(w) /\ UNCHANGED treeVars
  BY <1>2, WorkerControlStep
<1>3. CASE StealNothing(w) /\ UNCHANGED treeVars
  BY <1>3, WorkerControlStep
<1>4. CASE Solved(w, cur[w]) /\ SolvedTree(w)
  BY <1>4, SolvedStep
<1>5. CASE RunDry(w) /\ RunDryTree(w)
  BY <1>5, RunDryStep
<1>6. CASE \E s \in Node : StealSpace(w, s) /\ StealTree(w, s)
  BY <1>6, StealStep
<1>7. CASE Take(w) /\ TakeTree(w)
  BY <1>7, TakeStep
<1> QED BY <1>1, <1>2, <1>3, <1>4, <1>5, <1>6, <1>7 DEF SearchStep

(***************************************************************************)
(* The steps of the engine.                                                *)
(***************************************************************************)
(* what the constructor and reset() establish *)
LEMMA Fresh ==
  /\ RootOrFailed \in Node \cup {NoSpace}
  /\ WorkerOK(Node, Alternatives, EdgeType, <<>>, RootOrFailed, 0, NogoodsLimit, 0) /\ WorkerOK(Node, Alternatives, EdgeType, <<>>, NoSpace, 0, 0, 0)
  /\ Own(<<>>, NoSpace) = {} /\ (RootOrFailed # NoSpace => Own(<<>>, RootOrFailed) = {RootOrFailed})
<1>1. RootOrFailed \in Node \cup {NoSpace}
  BY NodeSeq DEF RootOrFailed
<1> HIDE DEF RootOrFailed
<1> QED BY <1>1, NothingLeft, OptionsAssumption DEF Own

LEMMA TreeInit == DFSInit => TreeInv
<1> SUFFICES ASSUME DFSInit PROVE TreeInv
  OBVIOUS
<1>1. /\ cur = [w \in Worker |-> IF w = 0 THEN RootOrFailed ELSE NoSpace]
      /\ path = [w \in Worker |-> <<>>] /\ d = [w \in Worker |-> 0]
      /\ ngdl = [w \in Worker |-> IF w = 0 THEN NogoodsLimit ELSE 0]
      /\ nWork = [w \in Worker |-> 0] /\ reported = {}
      /\ wpc = [w \in Worker |-> "loop"] /\ idle = [w \in Worker |-> FALSE]
  BY DEF DFSInit, Init
<1> HIDE DEF RootOrFailed
<1>2. TreeTypeOK
  <2>1. <<>> \in Seq(EdgeType) /\ NogoodsLimit \in Nat
    BY OptionsAssumption
  <2> QED BY <1>1, <2>1, Fresh DEF TreeTypeOK
<1>3. \A w \in Worker : WorkerOK(Node, Alternatives, EdgeType, path[w], cur[w], d[w], ngdl[w], nWork[w])
  BY <1>1, Fresh
<1>4. \A w \in Worker : Left[w] = IF w = 0 /\ RootOrFailed # NoSpace THEN {RootOrFailed} ELSE {}
  <2> TAKE w \in Worker
  <2>1. Left[w] = Own(path[w], cur[w]) \cup InHand(w)
    BY LeftIs
  <2>2. InHand(w) = {}
    BY <1>1 DEF InHand
  <2> QED BY <1>1, <2>1, <2>2, Fresh
<1>5. Left = [w \in Worker |-> IF w = 0 /\ RootOrFailed # NoSpace THEN {RootOrFailed} ELSE {}]
  BY <1>4 DEF Left
<1>6. Covers(Left, reported)
  <2> HIDE DEF Left
  <2> QED BY <1>1, <1>5, StartOK
<1> QED BY <1>1, <1>2, <1>3, <1>6 DEF TreeInv

LEMMA ResetStep ==
  ASSUME TypeOK, ResetExclusive, TreeInv, EngineReset, epc = "reset_do", ResetTree
  PROVE  TreeInv'
<1>1. /\ cur' = [w \in Worker |-> IF w = 0 THEN RootOrFailed ELSE NoSpace]
      /\ path' = [w \in Worker |-> <<>>] /\ d' = [w \in Worker |-> 0]
      /\ ngdl' = [w \in Worker |-> IF w = 0 THEN NogoodsLimit ELSE 0]
      /\ nWork' = [w \in Worker |-> 0] /\ reported' = {}
  BY DEF ResetTree
<1>2. idle' = [w \in Worker |-> FALSE] /\ wpc' = wpc
  BY DEF EngineReset, ResetCall, SetCmd, ReleaseWait, ResetWait, ResetDo, NogoodsDo, AcquireWait,
         ResetUnlock, ResetEnd, EGoto
<1>3. \A w \in Worker : wpc'[w] = "reset_wait"
  BY <1>2 DEF ResetExclusive
<1> HIDE DEF RootOrFailed
<1>4. TreeTypeOK'
  <2>1. <<>> \in Seq(EdgeType) /\ NogoodsLimit \in Nat
    BY OptionsAssumption
  <2> QED BY <1>1, <2>1, Fresh DEF TreeTypeOK
<1>5. \A w \in Worker : WorkerOK(Node, Alternatives, EdgeType, path'[w], cur'[w], d'[w], ngdl'[w], nWork'[w])
  BY <1>1, Fresh
<1>6. (\A w \in Worker : WorkerOK(Node, Alternatives, EdgeType, path[w], cur[w], d[w], ngdl[w], nWork[w]))'
  BY <1>5 DEF WorkerOK, OpenEdges, PointsOK, ShapeOK
<1>7. \A w \in Worker : Left'[w] = IF w = 0 /\ RootOrFailed # NoSpace THEN {RootOrFailed} ELSE {}
  <2> TAKE w \in Worker
  <2>1. Left'[w] = Own(path'[w], cur'[w]) \cup InHand(w)'
    BY LeftIsNext
  <2>2. InHand(w)' = {}
    BY <1>3 DEF InHand
  <2> QED BY <1>1, <2>1, <2>2, Fresh
<1>8. Left' = [w \in Worker |-> IF w = 0 /\ RootOrFailed # NoSpace THEN {RootOrFailed} ELSE {}]
  BY <1>7 DEF Left
<1>9. Covers(Left', reported')
  <2> HIDE DEF Left
  <2> QED BY <1>1, <1>8, StartOK
<1> QED BY <1>2, <1>4, <1>6, <1>9 DEF TreeInv

LEMMA EngineDFSStep ==
  ASSUME TypeOK, ResetExclusive, TreeInv, EngineStepDFS
  PROVE  TreeInv'
<1>1. CASE (EngineNext \/ EngineTerm) /\ UNCHANGED treeVars
  <2>1. UNCHANGED workerVars
    BY <1>1 DEF EngineNext, NextCall, SetCmd, ReleaseWait, AcquireWait, NextWait, NextCheck,
                EngineTerm, TermCall, TermWait, TermUnlock, TermEnd, workerVars
  <2>2. idle' = idle /\ \A w \in Worker : InHand(w)' = InHand(w)
    BY <2>1 DEF workerVars, InHand
  <2> QED BY <1>1, <2>2, KeepOK
<1>2. CASE EngineReset /\ epc # "reset_do" /\ UNCHANGED treeVars
  <2>1. UNCHANGED workerVars
    BY <1>2 DEF EngineReset, ResetCall, SetCmd, ReleaseWait, ResetWait, ResetDo, NogoodsDo,
                AcquireWait, ResetUnlock, ResetEnd, EGoto, workerVars
  <2>2. idle' = idle /\ \A w \in Worker : InHand(w)' = InHand(w)
    BY <2>1 DEF workerVars, InHand
  <2> QED BY <1>2, <2>2, KeepOK
<1>3. CASE EngineReset /\ epc = "reset_do" /\ ResetTree
  BY <1>3, ResetStep
<1> QED BY <1>1, <1>2, <1>3 DEF EngineStepDFS

LEMMA TreeStep ==
  TypeOK /\ ResetExclusive /\ BusyInv /\ TreeInv /\ [DFSNext]_dfsVars => TreeInv'
<1> SUFFICES ASSUME TypeOK, ResetExclusive, BusyInv, TreeInv, [DFSNext]_dfsVars PROVE TreeInv'
  OBVIOUS
<1>1. CASE EngineStepDFS
  BY <1>1, EngineDFSStep
<1>2. ASSUME NEW w \in Worker, WorkerStepDFS(w) PROVE TreeInv'
  BY <1>2, WorkerControlStep, SearchStepOK DEF WorkerStepDFS
<1>3. CASE UNCHANGED dfsVars
  <2>1. UNCHANGED treeVars /\ idle' = idle /\ \A w \in Worker : InHand(w)' = InHand(w)
    BY <1>3 DEF dfsVars, vars, workerVars, InHand
  <2> QED BY <2>1, KeepOK
<1> QED BY <1>1, <1>2, <1>3 DEF DFSNext

LEMMA TreeInvCorrect == DFSSpec => []TreeInv
<1>1. DFSSpec => [](TypeOK /\ ResetExclusive /\ BusyInv)
  BY DFSImplementsEngine, TypeCorrect, ResetIsExclusive, BusyInvCorrect, PTL
<1> QED BY <1>1, TreeInit, TreeStep, PTL DEF DFSSpec

(***************************************************************************)
(* What follows.                                                           *)
(***************************************************************************)
(* Of every worker, at any time: its path points to its current space or to the next
   one, a clone is found wherever one is looked for, and n_work is right. *)
THEOREM PathIsOK == DFSSpec => []PathOK
<1>1. ASSUME TreeInv PROVE PathOK
  <2>0. \A w \in Worker :
          /\ WorkerOK(Node, Alternatives, EdgeType, path[w], cur[w], d[w], ngdl[w], nWork[w]) /\ path[w] \in Seq(EdgeType)
          /\ ShapeOK(Alternatives, EdgeType, path[w], ngdl[w]) /\ Len(path[w]) \in Nat /\ DOMAIN path[w] = 1 .. Len(path[w])
          /\ PointsOK(path[w], cur[w], d[w])
    BY <1>1 DEF TreeInv, WorkerOK, ShapeOK
  <2>1. NWorkAccurate
    BY <1>1 DEF TreeInv, WorkerOK, NWorkAccurate
  <2>2. CloneBelow
    <3> SUFFICES ASSUME NEW w \in Worker
                 PROVE  /\ \A i \in OpenEdges(path[w]) : HasCopy(path[w], i)
                        /\ cur[w] = NoSpace /\ path[w] # <<>> => HasCopy(path[w], Len(path[w]))
      BY DEF CloneBelow, HasCopy
    <3>1. \A i \in OpenEdges(path[w]) : i \in 1 .. Len(path[w]) /\ HasWork(path[w][i])
      BY <2>0, OpenFinite
    <3> QED BY <2>0, <3>1 DEF ShapeOK, CopiesOK, PointsOK
  <2>3. PathPointsToCur
    <3> SUFFICES ASSUME NEW w \in Worker, NEW p, p = path[w]
                 PROVE  /\ \A i \in DOMAIN p : p[i].space \in {NoSpace, p[i].node}
                        /\ \A i \in 1 .. Len(p) - 1 :
                             IF p[i+1].space = NoSpace /\ ~LAO(p[i+1])
                             THEN p[i+1].node = Child(p[i].node, p[i].alt)
                             ELSE Below(Child(p[i].node, p[i].alt), p[i+1].node)
                        /\ p # <<>> /\ cur[w] # NoSpace =>
                             cur[w] = Child(Last(p).node, IF LAO(Last(p)) THEN Last(p).altMax ELSE Last(p).alt)
      BY DEF PathPointsToCur
    <3>1. /\ p \in Seq(EdgeType) /\ ShapeOK(Alternatives, EdgeType, p, ngdl[w]) /\ Len(p) \in Nat /\ DOMAIN p = 1 .. Len(p)
          /\ PointsOK(p, cur[w], d[w])
      BY <2>0
    <3>2. \A i \in DOMAIN p : p[i].space \in {NoSpace, p[i].node}
      BY <3>1 DEF ShapeOK, EdgesOK, EdgeOK
    <3>3. ASSUME NEW i \in 1 .. Len(p) - 1
          PROVE  IF p[i+1].space = NoSpace /\ ~LAO(p[i+1])
                 THEN p[i+1].node = Child(p[i].node, p[i].alt)
                 ELSE Below(Child(p[i].node, p[i].alt), p[i+1].node)
      <4>1. i \in Nat /\ i \in 1 .. Len(p) /\ i + 1 \in 1 .. Len(p) /\ i < i + 1 /\ i <= i + 1
            /\ i + 1 - i = 1 /\ i + 1 .. i + 1 = {i + 1}
        BY <3>1
      <4>2. Below(Child(p[i].node, p[i].alt), p[i+1].node)
        BY <3>1, <4>1 DEF ShapeOK, BelowOK
      <4>3. ASSUME p[i+1].space = NoSpace, ~LAO(p[i+1])
            PROVE  p[i+1].node = Child(p[i].node, p[i].alt)
        <5>1. p[i+1].node = p[i].node \o Turns(p, i, i + 1)
          BY <3>1, <4>1, <4>3 DEF ShapeOK, TurnsOK, Straight
        <5>2. Turns(p, i, i + 1) = <<p[i].alt>>
          <6>1. \A k \in 1 .. 1 : i + k - 1 = i
            BY <4>1
          <6>2. Turns(p, i, i + 1) = [k \in 1 .. 1 |-> p[i].alt]
            BY <4>1, <6>1 DEF Turns
          <6> QED BY <6>2
        <5>3. p[i].node \in Seq(Nat) /\ p[i].alt \in Nat
          BY <3>1, <4>1, EdgeTyped, NodeSeq
        <5>4. \A x \in Seq(Nat), a \in Nat : x \o <<a>> = Append(x, a)
          OBVIOUS
        <5> QED BY <5>1, <5>2, <5>3, <5>4 DEF Child
      <4> QED BY <4>2, <4>3
    <3>4. p # <<>> /\ cur[w] # NoSpace =>
            cur[w] = Child(Last(p).node, IF LAO(Last(p)) THEN Last(p).altMax ELSE Last(p).alt)
      BY <3>1 DEF PointsOK
    <3> QED BY <3>2, <3>3, <3>4
  <2> QED BY <1>1, <2>1, <2>2, <2>3 DEF PathOK, TreeInv
<1> QED BY <1>1, TreeInvCorrect, PTL

(* No solution is lost, whatever is stolen, recomputed, or given up as failed. *)
THEOREM NothingIsLost == DFSSpec => []NoSolutionLost
<1>1. ASSUME TreeInv PROVE NoSolutionLost
  BY <1>1, LeftIs DEF TreeInv, Covers, NoSolutionLost
<1> QED BY <1>1, TreeInvCorrect, PTL

(* No part of the tree is explored twice, by one worker or by two. *)
THEOREM NothingIsDoneTwice == DFSSpec => []NoDoubleWork
<1>1. ASSUME TreeInv PROVE NoDoubleWork
  BY <1>1, LeftIs DEF TreeInv, Covers, NoDoubleWork
<1> QED BY <1>1, TreeInvCorrect, PTL

(* next() returns null, nothing having been stopped, only when what is left is in the
   hands of thieves that have not called busy() yet. *)
THEOREM NullIsOnlyBeforeBusy == DFSSpec => NullOnlyBeforeBusy
<1> DEFINE Held == \A s \in SolvedNodes \ reported :
                     \E w \in Worker : wpc[w] = "busy" /\ Below(hand[w], s)
<1>1. ASSUME TypeOK, BusyInv, TreeInv, [DFSNext]_dfsVars PROVE NullReturned => Held
  <2> SUFFICES ASSUME NullReturned, NEW s \in SolvedNodes \ reported
               PROVE  \E w \in Worker : wpc[w] = "busy" /\ Below(hand[w], s)
    OBVIOUS
  <2>1. NextCheck
    <3>1. epc = "next_check" /\ epc' = "next_block" /\ epc # epc'
      BY DEF NullReturned
    <3>2. DFSNext
      BY <1>1, <3>1 DEF dfsVars, vars
    <3>3. ASSUME NEW w \in Worker, WorkerControl(w) \/ WorkerSearch(w) PROVE UNCHANGED epc
      BY <3>3 DEF WorkerControl, Poll, Wait, ReportSolution, ReportIdle, ReportStop, StartFind,
           FindNothing, ReportBusy, AckResetStart, WaitReset, AckResetStop, AckTerminate,
           WaitTerminate, Delete, Terminated, SignalTerminated, WorkerSearch, Explore, Stopped,
           RunDry, DiscardSolution, StealNothing, Take, Solved, StealSpace
    <3>4. Engine
      BY <3>1, <3>2, <3>3, SearchStepAllowed, EngineStepAllowed DEF DFSNext, WorkerStepDFS
    <3> QED BY <3>1, <3>4 DEF Engine, EngineNext, EngineReset, EngineTerm, NextCall, SetCmd,
          ReleaseWait, AcquireWait, NextWait, ResetCall, ResetWait, ResetDo, NogoodsDo,
          ResetUnlock, ResetEnd, TermCall, TermWait, TermUnlock, TermEnd, EGoto
  <2>2. nBusy = 0
    BY <2>1 DEF NextCheck, NullReturned
  <2>3. \A w \in Worker : ~Counted(w)
    <3>1. Cardinality({w \in Worker : Counted(w)}) = 0
      BY <1>1, <2>2 DEF BusyInv, NBusyAccurate
    <3>2. IsFiniteSet({w \in Worker : Counted(w)})
      <4>1. {w \in Worker : Counted(w)} \subseteq Worker
        OBVIOUS
      <4> QED BY <4>1, WorkerFinite, FS_Subset
    <3>3. {w \in Worker : Counted(w)} = {}
      BY <3>1, <3>2, FS_EmptySet
    <3> QED BY <3>3
  <2>4. PICK w \in Worker : \E n \in Left[w] : Below(n, s)
    BY <1>1 DEF TreeInv, Covers
  <2>5. PICK n \in Left[w] : Below(n, s)
    BY <2>4
  <2>6. idle[w] /\ wpc[w] # "take"
    BY <2>3 DEF Counted
  <2>7. Left[w] = InHand(w)
    <3>1. path[w] = <<>> /\ cur[w] = NoSpace
      BY <1>1, <2>6 DEF TreeInv
    <3>2. Own(<<>>, NoSpace) = {}
      BY Fresh
    <3> QED BY <3>1, <3>2, LeftIs
  <2> QED BY <2>5, <2>6, <2>7 DEF InHand
<1>2. DFSSpec => [](TypeOK /\ BusyInv /\ TreeInv)
  BY DFSImplementsEngine, TypeCorrect, BusyInvCorrect, TreeInvCorrect, PTL
<1> HIDE DEF Held
<1>3. DFSSpec => [][NullReturned => Held]_dfsVars
  BY <1>1, <1>2, PTL DEF DFSSpec
<1> QED BY <1>3 DEF NullOnlyBeforeBusy, Held
=============================================================================
