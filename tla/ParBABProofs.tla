---------------------------- MODULE ParBABProofs ----------------------------
(***************************************************************************)
(* Parallel branch-and-bound search, for any tree, objective and number of *)
(* workers: the workers keep to the protocol of ParEngine, also while one  *)
(* of them announces a solution; every space keeps the bound that the mark *)
(* of its worker promises; and no solution better than the best one is     *)
(* lost, through every steal, recomputation, announcement and reset.       *)
(***************************************************************************)
EXTENDS ParBAB, ParEngineProofs, PathProofs

LEMMA SearchStepAllowed ==
  ASSUME NEW w \in Worker, SearchStep(w)
  PROVE  WorkerSearch(w)
<1>1. CASE cur[w] # NoSpace /\ Solved(w, Space(cur[w].node, NoSpace)) /\ SolvedTree(w)
  <2>1. cur[w].node \in Node
    BY <1>1, TreeAssumption DEF SolvedTree
  <2>2. Space(cur[w].node, NoSpace) \in Solution
    BY <2>1, SpaceAssumption DEF Space
  <2> QED
    BY <1>1, <2>2 DEF WorkerSearch
<1>2. CASE \E c \in Solution : StealSpace(w, c) /\ StealTree(w, c)
  BY <1>2 DEF WorkerSearch
<1> QED
  BY <1>1, <1>2 DEF SearchStep, WorkerSearch

LEMMA WorkerStepAllowed ==
  ASSUME NEW w \in Worker, WorkerStep(w)
  PROVE  Next \/ UNCHANGED vars
<1>1. CASE Report(w)
  BY <1>1 DEF Report, Next
<1>2. CASE SearchStep(w)
  BY <1>2, SearchStepAllowed DEF Next
<1>3. CASE DiscardLate(w)
  BY <1>3 DEF DiscardLate, WorkerSearch, Next
<1>4. CASE Accept(w)
  BY <1>4 DEF Accept
<1> QED
  BY <1>1, <1>2, <1>3, <1>4 DEF WorkerStep

(* Every behaviour of parallel branch-and-bound search is one of ParEngine:
   the announcement of a solution is invisible to it. *)
THEOREM BABImplementsEngine == BABSpec => Spec
<1>1. BABInit => Init
  BY DEF BABInit
<1>2. [BABNext]_babVars => [Next]_vars
  <2>1. CASE EngineStepBAB
    BY <2>1 DEF EngineStepBAB, CallNext, CallReset, Engine, Next
  <2>2. ASSUME NEW w \in Worker, WorkerStep(w)
        PROVE  Next \/ UNCHANGED vars
    BY <2>2, WorkerStepAllowed
  <2>3. CASE Tell \/ ConstrainReturns \/ \E b \in SolvedNodes : Constrain(b)
    BY <2>3 DEF Tell, ConstrainReturns, Constrain
  <2>4. CASE UNCHANGED babVars
    BY <2>4 DEF babVars
  <2> QED
    BY <2>1, <2>2, <2>3, <2>4 DEF BABNext
<1> QED
  BY <1>1, <1>2, PTL DEF BABSpec, Spec

(* Parallel branch-and-bound search does not sleep through a solution, resets
   its workers alone, and deletes none that another can reach. *)
THEOREM BABEngineSafe ==
  BABSpec => [](NoLostWakeup /\ ResetExclusive /\ NoUseAfterDelete /\ DestroyedAfterAll)
BY BABImplementsEngine, WakeupIsNotLost, ResetIsExclusive, NobodyUsesDeleted, DestroyedLast, PTL

(***************************************************************************)
(* Nodes, edges and paths.                                                 *)
(***************************************************************************)
LEMMA PathAssumed == PathAssumption(Node, Alternatives, EdgeType)
<1>1. TreeFacts(Node, Alternatives)
  BY TreeAssumption DEF TreeFacts
<1>2. EdgeFacts(Node, EdgeType)
  BY DEF EdgeFacts, EdgeType, Changed
<1> QED BY <1>1, <1>2 DEF PathAssumption

USE PathAssumed

LEMMA SolvedIs ==
  \A s \in SolvedNodes : s \in Node /\ s # NoSpace /\ Alternatives[s] = 0
                         /\ \A n \in Node : Below(s, n) => s = n
<1> TAKE s \in SolvedNodes
<1>1. s \in Node /\ Alternatives[s] = 0 /\ s # NoSpace
  BY TreeAssumption
<1>2. ASSUME NEW n \in Node, Below(s, n), s # n PROVE FALSE
  <2>1. \E a \in 0 .. Alternatives[s] - 1 : TRUE
    BY <1>1, <1>2, BelowChild
  <2> QED BY <1>1, <2>1
<1> QED BY <1>1, <1>2

(* a node that is failed has no solution below it *)
LEMMA FailedIs ==
  ASSUME NEW n \in Node, Failed(n)
  PROVE  \A s \in SolvedNodes : ~Below(n, s)
<1> SUFFICES ASSUME NEW s \in SolvedNodes, Below(n, s) PROVE FALSE
  OBVIOUS
<1>1. s \in Node /\ s # n /\ Alternatives[n] = 0
  BY SolvedIs DEF Failed
<1>2. \E a \in 0 .. Alternatives[n] - 1 : TRUE
  BY <1>1, BelowChild
<1> QED BY <1>1, <1>2

(***************************************************************************)
(* Solutions and bounds: NoSpace is the loosest of all bounds.             *)
(***************************************************************************)
Bound == SolvedNodes \cup {NoSpace}

LEMMA ValueIs == NoSpace \notin SolvedNodes /\ \A s \in SolvedNodes : Value[s] \in Int
BY TreeAssumption

LEMMA TightOrder ==
  /\ \A b \in Bound : AsTight(b, b) /\ AsTight(b, NoSpace)
  /\ \A a, b, c \in Bound : AsTight(a, b) /\ AsTight(b, c) => AsTight(a, c)
  /\ \A s \in SolvedNodes : \A b \in Bound : Better(s, b) => AsTight(s, b)
  /\ \A s \in SolvedNodes : \A b \in Bound : ~Better(s, b) => AsTight(b, s)
  /\ \A s \in SolvedNodes : \A a, b \in Bound : Better(s, a) /\ AsTight(a, b) => Better(s, b)
  /\ \A s, t \in SolvedNodes : \A b \in Bound : AsTight(s, t) /\ Better(t, b) => Better(s, b)
  /\ \A s \in SolvedNodes : ~Better(s, s)
BY ValueIs DEF Bound, AsTight, Better

LEMMA TighterIs ==
  ASSUME NEW s \in Bound, NEW b \in Bound
  PROVE  /\ Tighter(s, b) \in Bound /\ AsTight(Tighter(s, b), s) /\ AsTight(Tighter(s, b), b)
         /\ \A t \in Bound : AsTight(t, s) /\ AsTight(t, b) => AsTight(t, Tighter(s, b))
BY ValueIs DEF Bound, AsTight, Better, Tighter

LEMMA EdgeBound == \A e \in EdgeType : e.bound \in Bound
BY DEF EdgeType, Bound

LEMMA BoundChanged ==
  ASSUME NEW e \in EdgeType, NEW b \in Bound
  PROVE  LET f == [e EXCEPT !.bound = b]
         IN  /\ f \in EdgeType /\ f.node = e.node /\ f.alternatives = e.alternatives
             /\ f.space = e.space /\ f.alt = e.alt /\ f.altMax = e.altMax /\ f.bound = b
BY DEF EdgeType, Bound

LEMMA BoundKept ==
  ASSUME NEW e \in EdgeType, NEW a, NEW s
  PROVE  /\ [e EXCEPT !.alt = a].bound = e.bound /\ [e EXCEPT !.altMax = a].bound = e.bound
         /\ [e EXCEPT !.space = s].bound = e.bound
         /\ [e EXCEPT !.space = s, !.alt = a].bound = e.bound
BY DEF EdgeType

(* no edge of q has a clone that the edge of p does not have, or another bound *)
Kept(q, p) ==
  /\ Len(q) <= Len(p)
  /\ \A j \in 1 .. Len(q) : q[j].bound = p[j].bound /\ q[j].space \in {p[j].space, NoSpace}

(* the betterness of a path with the mark m, for the bound b *)
Tight(p, m, b) ==
  \A i \in DOMAIN p : p[i].space # NoSpace /\ i > m => AsTight(p[i].bound, b)

Justified(p, b) == \A i \in DOMAIN p : AsTight(b, p[i].bound)

LEMMA KeptOK ==
  ASSUME NEW p \in Seq(EdgeType), NEW q \in Seq(EdgeType), Kept(q, p), NEW m, NEW b, NEW a
  PROVE  /\ Tight(p, m, b) => Tight(q, m, b)
         /\ Justified(p, a) => Justified(q, a)
<1>1. /\ DOMAIN q = 1 .. Len(q) /\ DOMAIN p = 1 .. Len(p) /\ Len(p) \in Nat /\ Len(q) \in Nat
      /\ \A j \in 1 .. Len(q) : j \in 1 .. Len(p)
  BY DEF Kept
<1> QED BY <1>1 DEF Kept, Tight, Justified

LEMMA FrontKept ==
  ASSUME NEW p \in Seq(EdgeType), NEW n \in 0 .. Len(p)
  PROVE  SubSeq(p, 1, n) \in Seq(EdgeType) /\ Kept(SubSeq(p, 1, n), p)
BY DEF Kept

LEMMA KeptTwice ==
  ASSUME NEW p \in Seq(EdgeType), NEW q \in Seq(EdgeType), NEW r \in Seq(EdgeType),
         Kept(q, p), Kept(r, q)
  PROVE  Kept(r, p)
<1>1. Len(p) \in Nat /\ Len(q) \in Nat /\ Len(r) \in Nat /\ \A j \in 1 .. Len(r) : j \in 1 .. Len(q)
  BY DEF Kept
<1> QED BY <1>1 DEF Kept

LEMMA NextAltKept ==
  ASSUME NEW ng \in Nat, NEW p, ShapeOK(Alternatives, EdgeType, p, ng)
  PROVE  NextAlt(p) \in Seq(EdgeType) /\ Kept(NextAlt(p), p)
<1>1. p \in Seq(EdgeType) /\ Len(p) \in Nat
  BY DEF ShapeOK
<1>2. CASE NextAlt(p) = <<>>
  <2>1. <<>> \in Seq(EdgeType) /\ Len(<<>>) = 0
    OBVIOUS
  <2> QED BY <1>1, <1>2, <2>1 DEF Kept
<1>3. CASE \E i \in 1 .. Len(p) : NextAlt(p) = [SubSeq(p, 1, i) EXCEPT ![i].alt = @ + 1]
  <2>1. PICK i \in 1 .. Len(p) : NextAlt(p) = [SubSeq(p, 1, i) EXCEPT ![i].alt = @ + 1]
    BY <1>3
  <2> DEFINE u == SubSeq(p, 1, i)
             f == [u[i] EXCEPT !.alt = u[i].alt + 1]
  <2>2. /\ u \in Seq(EdgeType) /\ Len(u) = i /\ i \in 1 .. Len(u) /\ i \in Nat
        /\ \A j \in 1 .. i : u[j] = p[j]
    BY <1>1
  <2>3. NextAlt(p) = [u EXCEPT ![i] = f]
    BY <2>1
  <2> HIDE DEF u
  <2>4. u[i] \in EdgeType /\ u[i].alt + 1 \in Nat
    BY <2>2, EdgeTyped
  <2>5. f \in EdgeType /\ f.space = u[i].space /\ f.bound = u[i].bound
    <3>1. f \in EdgeType /\ f.space = u[i].space
      BY <2>4, AltChanged
    <3> QED BY <2>4, <3>1, BoundKept
  <2> HIDE DEF f
  <2> DEFINE q == NextAlt(p)
  <2>6. q \in Seq(EdgeType) /\ Len(q) = i /\ q[i] = f /\ \A j \in 1 .. i : j # i => q[j] = u[j]
    BY <2>2, <2>3, <2>5
  <2> HIDE DEF q
  <2>7. q \in Seq(EdgeType) /\ Kept(q, p)
    BY <1>1, <2>2, <2>5, <2>6 DEF Kept
  <2> QED BY <2>7 DEF q
<1> QED
  <2>1. \/ NextAlt(p) = <<>>
        \/ \E i \in 1 .. Len(p) : NextAlt(p) = MovedOn(p, i)
    BY NextAltIs
  <2> QED BY <1>2, <1>3, <2>1 DEF MovedOn

LEMMA UnwoundKept ==
  ASSUME NEW ng \in Nat, NEW p, ShapeOK(Alternatives, EdgeType, p, ng), NEW i \in 1 .. Len(p)
  PROVE  LET q == NextAlt(SubSeq(p, 1, i - 1)) IN q \in Seq(EdgeType) /\ Kept(q, p)
<1> DEFINE u == SubSeq(p, 1, i - 1)
<1>1. p \in Seq(EdgeType) /\ Len(p) \in Nat /\ i - 1 \in 0 .. Len(p)
  BY DEF ShapeOK
<1>2. u \in Seq(EdgeType) /\ Kept(u, p)
  BY <1>1, FrontKept
<1>3. ShapeOK(Alternatives, EdgeType, u, ng)
  BY <1>1, UnwindOK
<1> HIDE DEF u
<1>4. NextAlt(u) \in Seq(EdgeType) /\ Kept(NextAlt(u), u)
  BY <1>3, NextAltKept
<1>5. Kept(NextAlt(u), p)
  BY <1>1, <1>2, <1>4, KeptTwice
<1> QED BY <1>4, <1>5 DEF u

(* one edge changes *)
LEMMA UpdateKept ==
  ASSUME NEW p \in Seq(EdgeType), NEW i \in 1 .. Len(p), NEW f \in EdgeType,
         f.bound = p[i].bound, f.space \in {p[i].space, NoSpace}, NEW q, q = [p EXCEPT ![i] = f]
  PROVE  q \in Seq(EdgeType) /\ Kept(q, p)
<1>1. q \in Seq(EdgeType) /\ Len(q) = Len(p) /\ q[i] = f /\ \A j \in 1 .. Len(p) : j # i => q[j] = p[j]
  BY UpdateIs
<1> QED BY <1>1 DEF Kept

LEMMA ReuseKept ==
  ASSUME NEW p \in Seq(EdgeType), p # <<>>, NEW ng \in Nat
  PROVE  Reuse(p, ng) \in Seq(EdgeType) /\ Kept(Reuse(p, ng), p)
<1> DEFINE o == Len(p)
           e == p[o]
           x == IF o > ng THEN e.alt + 1 ELSE e.alt
           f == [e EXCEPT !.space = NoSpace, !.alt = x]
<1>1. o \in 1 .. Len(p) /\ Last(p) = e
  BY DEF Last
<1>2. e \in EdgeType /\ x \in Nat
  BY <1>1, EdgeTyped
<1>3. Reuse(p, ng) = [p EXCEPT ![o] = f]
  BY <1>1 DEF Reuse
<1> HIDE DEF x
<1>4. f \in EdgeType /\ f.space = NoSpace /\ f.bound = e.bound
  <2>1. f \in EdgeType /\ f.space = NoSpace
    BY <1>2, PathAssumed DEF PathAssumption, EdgeFacts, Changed
  <2> QED BY <1>2, <2>1, BoundKept
<1> HIDE DEF f, o
<1>5. f.space \in {p[o].space, NoSpace}
  BY <1>4
<1> QED BY <1>1, <1>3, <1>4, <1>5, UpdateKept

LEMMA GiveAwayKept ==
  ASSUME NEW p \in Seq(EdgeType), NEW n \in OpenEdges(p)
  PROVE  GiveAway(p, n) \in Seq(EdgeType) /\ Kept(GiveAway(p, n), p)
<1> DEFINE e == p[n]
           x == e.altMax - 1
           f == [e EXCEPT !.altMax = x]
<1>1. n \in 1 .. Len(p) /\ HasWork(e)
  BY OpenFinite
<1>2. e \in EdgeType /\ x \in Nat
  BY <1>1, EdgeTyped DEF HasWork
<1>3. GiveAway(p, n) = [p EXCEPT ![n] = f]
  BY DEF GiveAway
<1> HIDE DEF x
<1>4. f \in EdgeType /\ f.space = e.space /\ f.bound = e.bound
  <2>1. f \in EdgeType /\ f.space = e.space
    BY <1>2, AltMaxChanged
  <2> QED BY <1>2, <2>1, BoundKept
<1> HIDE DEF f
<1>5. f.space \in {p[n].space, NoSpace}
  BY <1>4
<1> QED BY <1>1, <1>3, <1>4, <1>5, UpdateKept

(* a choice is pushed with the bound of the current space *)
LEMMA PushBounds ==
  ASSUME NEW p \in Seq(EdgeType), NEW e \in EdgeType, NEW m, NEW b, NEW a,
         Tight(p, m, b), AsTight(e.bound, b), Justified(p, a), AsTight(a, e.bound)
  PROVE  Tight(Push(p, e), m, b) /\ Justified(Push(p, e), a)
<1> DEFINE u == IF p # <<>> /\ LAO(Last(p)) THEN Front(p) ELSE p
<1>1. u \in Seq(EdgeType) /\ Kept(u, p)
  <2>1. p # <<>> => Len(p) - 1 \in 0 .. Len(p) /\ Front(p) = SubSeq(p, 1, Len(p) - 1)
    BY DEF Front
  <2>2. Kept(p, p)
    BY DEF Kept
  <2> QED BY <2>1, <2>2, FrontKept
<1>2. Push(p, e) = Append(u, e)
  BY DEF Push
<1> HIDE DEF u
<1>3. Tight(u, m, b) /\ Justified(u, a)
  BY <1>1, KeptOK
<1> DEFINE q == Append(u, e)
<1>4. /\ DOMAIN q = 1 .. Len(u) + 1 /\ DOMAIN u = 1 .. Len(u) /\ q[Len(u) + 1] = e
      /\ \A j \in 1 .. Len(u) : q[j] = u[j]
      /\ \A j \in 1 .. Len(u) + 1 : j = Len(u) + 1 \/ j \in 1 .. Len(u)
  BY <1>1
<1> HIDE DEF q
<1>5. Tight(q, m, b) /\ Justified(q, a)
  BY <1>3, <1>4 DEF Tight, Justified
<1> QED BY <1>2, <1>5 DEF q
(***************************************************************************)
(* The inductive invariant: paths and bounds.                              *)
(***************************************************************************)
NodeOf(c) == IF c = NoSpace THEN NoSpace ELSE c.node
InHand(w) == IF wpc[w] \in {"busy", "take", "solution"} THEN {hand[w].node} ELSE {}

TreeTypeOK ==
  /\ cur \in [Worker -> Solution \cup {NoSpace}]
  /\ path \in [Worker -> Seq(EdgeType)]
  /\ d \in [Worker -> Nat] /\ ngdl \in [Worker -> Nat] /\ mark \in [Worker -> Nat]
BoundTypeOK ==
  /\ bestOf \in [Worker -> Bound] /\ best \in Bound
  /\ holder \in 0 .. Nobody /\ told \in 0 .. NWorkers

(* every worker's path is in order, and an idle worker has nothing *)
WorkersOK ==
  \A w \in Worker :
    /\ WorkerOK(Node, Alternatives, EdgeType, path[w], NodeOf(cur[w]), d[w], ngdl[w], Cardinality(OpenEdges(path[w])))
    /\ idle[w] => cur[w] = NoSpace /\ path[w] = <<>>

(* what is in a worker's hand is a solution, which an idle worker does not have, or stolen
   with a bound that best justifies *)
HandsOK ==
  \A w \in Worker :
    /\ wpc[w] = "solution" => hand[w].node \in SolvedNodes /\ ~idle[w]
    /\ wpc[w] \in {"busy", "take"} => AsTight(best, hand[w].bound)

(* who holds m_search across the calls of better() *)
HolderOK ==
  /\ holder \in Worker => wpc[holder] = "solution" /\ hand[holder].node = best
  /\ holder # Nobody => best # NoSpace
  /\ holder = Caller => epc = "user"

(* no improvement is lost *)
Covering ==
  \A s \in SolvedNodes : Better(s, best) => \E w \in Worker : \E n \in Frontier(w) : Below(n, s)

BoundInv ==
  TreeTypeOK /\ BoundTypeOK /\ WorkersOK /\ MarkOK /\ BestKnown /\ HandsOK /\ HolderOK /\ Covering

LEMMA SpaceIs ==
  /\ \A c \in Solution : c.node \in Node /\ c.bound \in Bound /\ c # NoSpace
  /\ \A n \in Node : \A b \in Bound :
       Space(n, b) \in Solution /\ Space(n, b).node = n /\ Space(n, b).bound = b
BY SpaceAssumption, SolutionAssumption DEF Space, Bound

LEMMA NodeOfIs ==
  \A c \in Solution \cup {NoSpace} :
    NodeOf(c) \in Node \cup {NoSpace} /\ (NodeOf(c) = NoSpace <=> c = NoSpace)
BY SpaceIs, NodeSeq DEF NodeOf

(* better() leaves the node of a space *)
LEMMA ConstrainedIs ==
  ASSUME NEW c \in Solution \cup {NoSpace}, NEW s \in Bound
  PROVE  /\ Constrained(c, s) \in Solution \cup {NoSpace} /\ NodeOf(Constrained(c, s)) = NodeOf(c)
         /\ c = NoSpace <=> Constrained(c, s) = NoSpace
         /\ c # NoSpace => Constrained(c, s).bound = Tighter(s, c.bound)
<1>1. CASE c = NoSpace
  BY <1>1 DEF Constrained, NodeOf
<1>2. CASE c # NoSpace
  <2>1. c \in [node : Node, bound : SolvedNodes \cup {NoSpace}] /\ c.bound \in Bound
    BY <1>2, SpaceAssumption, SpaceIs
  <2>2. Tighter(s, c.bound) \in SolvedNodes \cup {NoSpace}
    BY <2>1, TighterIs DEF Bound
  <2>3. Constrained(c, s) = [c EXCEPT !.bound = Tighter(s, c.bound)]
    BY <1>2 DEF Constrained
  <2> DEFINE t == Tighter(s, c.bound)
  <2> HIDE DEF t
  <2>4. [c EXCEPT !.bound = t] = [node |-> c.node, bound |-> t]
    BY <2>1
  <2>5. Constrained(c, s) = [node |-> c.node, bound |-> t]
    BY <2>3, <2>4 DEF t
  <2>6. Constrained(c, s) \in Solution
    BY <2>1, <2>2, <2>5, SpaceAssumption DEF t
  <2> QED BY <1>2, <2>5, <2>6, SpaceIs DEF NodeOf, t
<1> QED BY <1>1, <1>2

LEMMA FrontierIs ==
  ASSUME TreeTypeOK, NEW w \in Worker
  PROVE  Frontier(w) = Own(path[w], NodeOf(cur[w])) \cup InHand(w)
<1>1. NodeOf(cur[w]) # NoSpace <=> cur[w] # NoSpace
  BY NodeOfIs DEF TreeTypeOK
<1> QED BY <1>1 DEF Frontier, Own, Top, InHand, NodeOf

LEMMA FrontierIsNext ==
  ASSUME TreeTypeOK', NEW w \in Worker
  PROVE  Frontier(w)' = Own(path'[w], NodeOf(cur'[w])) \cup InHand(w)'
<1>1. NodeOf(cur'[w]) # NoSpace <=> cur'[w] # NoSpace
  BY NodeOfIs DEF TreeTypeOK
<1> QED BY <1>1 DEF Frontier, Own, Top, InHand, NodeOf, Pending

(* What is in order of a worker with the path p, the current space c, the distance k, the
   limit ng, and the mark m that has H in its hand. *)
InOrder(p, c, k, ng, m) ==
  /\ c \in Solution \cup {NoSpace} /\ m \in Nat
  /\ WorkerOK(Node, Alternatives, EdgeType, p, NodeOf(c), k, ng, Cardinality(OpenEdges(p)))
Bounded(p, c, m, b) ==
  /\ Tight(p, m, b) /\ Justified(p, best)
  /\ c # NoSpace => AsTight(c.bound, b) /\ AsTight(best, c.bound)
(* nothing better than best is in S but not in T *)
Passes(S, T) ==
  \A s \in SolvedNodes :
    Better(s, best) /\ (\E n \in S : Below(n, s)) => \E n \in T : Below(n, s)

LEMMA WorkerIs ==
  ASSUME BoundInv, NEW w \in Worker
  PROVE  /\ InOrder(path[w], cur[w], d[w], ngdl[w], mark[w])
         /\ Bounded(path[w], cur[w], mark[w], bestOf[w])
         /\ ShapeOK(Alternatives, EdgeType, path[w], ngdl[w]) /\ path[w] \in Seq(EdgeType) /\ ngdl[w] \in Nat /\ d[w] \in Nat
         /\ mark[w] \in Nat
         /\ bestOf[w] \in Bound /\ best \in Bound
         /\ d = [d EXCEPT ![w] = d[w]] /\ ngdl = [ngdl EXCEPT ![w] = ngdl[w]]
         /\ path = [path EXCEPT ![w] = path[w]] /\ cur = [cur EXCEPT ![w] = cur[w]]
         /\ mark = [mark EXCEPT ![w] = mark[w]]
         /\ Frontier(w) = Own(path[w], NodeOf(cur[w])) \cup InHand(w)
         /\ AsTight(best, bestOf[w])
<1>1. /\ cur \in [Worker -> Solution \cup {NoSpace}] /\ path \in [Worker -> Seq(EdgeType)]
      /\ d \in [Worker -> Nat] /\ ngdl \in [Worker -> Nat] /\ mark \in [Worker -> Nat]
      /\ bestOf \in [Worker -> Bound] /\ best \in Bound
  BY DEF BoundInv, TreeTypeOK, BoundTypeOK
<1>2. WorkerOK(Node, Alternatives, EdgeType, path[w], NodeOf(cur[w]), d[w], ngdl[w], Cardinality(OpenEdges(path[w])))
  BY DEF BoundInv, WorkersOK
<1>3. InOrder(path[w], cur[w], d[w], ngdl[w], mark[w]) /\ ShapeOK(Alternatives, EdgeType, path[w], ngdl[w])
  BY <1>1, <1>2 DEF InOrder, WorkerOK
<1>4. AsTight(best, bestOf[w])
  <2>1. bestOf[w] = best \/ AsTight(best, bestOf[w])
    BY DEF BoundInv, BestKnown
  <2> QED BY <1>1, <2>1, TightOrder
<1>5. Bounded(path[w], cur[w], mark[w], bestOf[w])
  BY DEF BoundInv, MarkOK, BestKnown, Bounded, Tight, Justified
<1>6. Frontier(w) = Own(path[w], NodeOf(cur[w])) \cup InHand(w)
  BY FrontierIs DEF BoundInv
<1> QED BY <1>1, <1>3, <1>4, <1>5, <1>6

(* one worker's path, current space and hand change, and nobody's best *)
LEMMA OneWorker ==
  ASSUME BoundInv, NEW w \in Worker, NEW p, NEW c, NEW k, NEW ng, NEW m, NEW H,
         InOrder(p, c, k, ng, m), Bounded(p, c, m, bestOf[w]),
         Passes(Frontier(w), Own(p, NodeOf(c)) \cup H),
         path' = [path EXCEPT ![w] = p], cur' = [cur EXCEPT ![w] = c],
         d' = [d EXCEPT ![w] = k], ngdl' = [ngdl EXCEPT ![w] = ng], mark' = [mark EXCEPT ![w] = m],
         UNCHANGED <<boundVars, epc>>,
         wpc[w] # "solution", InHand(w)' = H, wpc'[w] \notin {"busy", "take"},
         wpc'[w] = "solution" => hand'[w].node \in SolvedNodes /\ ~idle'[w],
         idle'[w] => c = NoSpace /\ p = <<>>,
         \A v \in Worker : v # w => idle'[v] = idle[v] /\ wpc'[v] = wpc[v] /\ hand'[v] = hand[v]
  PROVE  BoundInv'
<1> USE DEF boundVars
<1>1. /\ cur \in [Worker -> Solution \cup {NoSpace}] /\ path \in [Worker -> Seq(EdgeType)]
      /\ d \in [Worker -> Nat] /\ ngdl \in [Worker -> Nat] /\ mark \in [Worker -> Nat]
  BY DEF BoundInv, TreeTypeOK
<1>2. /\ p \in Seq(EdgeType) /\ c \in Solution \cup {NoSpace} /\ k \in Nat /\ ng \in Nat /\ m \in Nat
  BY DEF InOrder, WorkerOK, ShapeOK
<1>3. /\ path'[w] = p /\ cur'[w] = c /\ d'[w] = k /\ ngdl'[w] = ng /\ mark'[w] = m
      /\ \A v \in Worker : v # w =>
           /\ path'[v] = path[v] /\ cur'[v] = cur[v] /\ d'[v] = d[v]
           /\ ngdl'[v] = ngdl[v] /\ mark'[v] = mark[v]
  BY <1>1
<1>4. TreeTypeOK'
  <2>1. /\ cur' \in [Worker -> Solution \cup {NoSpace}] /\ path' \in [Worker -> Seq(EdgeType)]
        /\ d' \in [Worker -> Nat] /\ ngdl' \in [Worker -> Nat] /\ mark' \in [Worker -> Nat]
    BY <1>1, <1>2
  <2> QED BY <2>1 DEF TreeTypeOK
<1>5. BoundTypeOK'
  BY DEF BoundInv, BoundTypeOK
<1>6. WorkersOK'
  <2>1. \A v \in Worker :
          /\ WorkerOK(Node, Alternatives, EdgeType, path'[v], NodeOf(cur'[v]), d'[v], ngdl'[v], Cardinality(OpenEdges(path'[v])))
          /\ idle'[v] => cur'[v] = NoSpace /\ path'[v] = <<>>
    BY <1>3 DEF BoundInv, WorkersOK, InOrder
  <2> QED BY <2>1 DEF WorkersOK, WorkerOK, OpenEdges, PointsOK, ShapeOK, NodeOf
<1>7. MarkOK'
  <2>1. \A v \in Worker :
          /\ \A i \in DOMAIN path'[v] :
               path'[v][i].space # NoSpace /\ i > mark'[v] => AsTight(path'[v][i].bound, bestOf[v])
          /\ cur'[v] # NoSpace => AsTight(cur'[v].bound, bestOf[v])
    BY <1>3 DEF BoundInv, MarkOK, Bounded, Tight
  <2> QED BY <2>1 DEF MarkOK, AsTight
<1>8. BestKnown'
  <2>1. \A v \in Worker :
          /\ \A i \in DOMAIN path'[v] : AsTight(best, path'[v][i].bound)
          /\ cur'[v] # NoSpace => AsTight(best, cur'[v].bound)
          /\ IF holder = Nobody \/ v < told THEN bestOf[v] = best ELSE AsTight(best, bestOf[v])
    BY <1>3 DEF BoundInv, BestKnown, Bounded, Justified
  <2> QED BY <2>1 DEF BestKnown, AsTight
<1>9. HandsOK'
  BY DEF BoundInv, HandsOK, AsTight
<1>10. HolderOK'
  BY DEF BoundInv, HolderOK
<1>11. Covering'
  <2> SUFFICES ASSUME NEW s \in SolvedNodes, Better(s, best)
               PROVE  \E v \in Worker : \E n \in Frontier(v)' : Below(n, s)
    BY DEF Covering, Better
  <2>1. PICK v \in Worker : \E n \in Frontier(v) : Below(n, s)
    BY DEF BoundInv, Covering
  <2>2. CASE v = w
    <3>1. \E n \in Own(p, NodeOf(c)) \cup H : Below(n, s)
      BY <2>1, <2>2 DEF Passes
    <3>2. Frontier(w)' = Own(p, NodeOf(c)) \cup H
      BY <1>3, <1>4, FrontierIsNext
    <3> QED BY <3>1, <3>2
  <2>3. CASE v # w
    <3>1. InHand(v)' = InHand(v)
      BY <2>3 DEF InHand
    <3>2. Frontier(v)' = Own(path'[v], NodeOf(cur'[v])) \cup InHand(v)'
      BY <1>4, FrontierIsNext
    <3>3. Frontier(v) = Own(path[v], NodeOf(cur[v])) \cup InHand(v)
      BY WorkerIs
    <3>4. path'[v] = path[v] /\ cur'[v] = cur[v]
      BY <1>3, <2>3
    <3>5. Frontier(v)' = Frontier(v)
      BY <3>1, <3>2, <3>3, <3>4
    <3> QED BY <2>1, <3>5
  <2> QED BY <2>2, <2>3
<1> QED BY <1>4, <1>5, <1>6, <1>7, <1>8, <1>9, <1>10, <1>11 DEF BoundInv
(***************************************************************************)
(* The steps of a worker.                                                  *)
(***************************************************************************)
(* nothing better than best is below a space that propagation may fail *)
LEMMA MayFailIs ==
  ASSUME BoundInv, NEW n \in Node, NEW b \in Bound, MayFail(Space(n, b)), AsTight(best, b)
  PROVE  \A s \in SolvedNodes : Better(s, best) => ~Below(n, s)
<1>1. best \in Bound
  BY DEF BoundInv, BoundTypeOK
<1>2. \A s \in SolvedNodes : Below(n, s) => ~Better(s, b)
  BY SpaceIs DEF MayFail
<1> QED BY <1>1, <1>2, TightOrder

(* the control points around a step from work to pc *)
LEMMA WorkIs ==
  ASSUME TypeOK, BoundInv, NEW w \in Worker, NEW pc, WGoto(w, "work", pc)
  PROVE  /\ wpc[w] # "solution" /\ InHand(w) = {} /\ wpc'[w] = pc
         /\ \A v \in Worker : v # w => wpc'[v] = wpc[v]
         /\ Frontier(w) = Own(path[w], NodeOf(cur[w]))
         /\ pc \notin {"busy", "take", "solution"} => InHand(w)' = {}
<1>1. wpc \in [Worker -> WorkerPC] /\ Frontier(w) = Own(path[w], NodeOf(cur[w])) \cup InHand(w)
  BY WorkerIs DEF TypeOK, ControlOK
<1> QED BY <1>1 DEF WGoto, InHand

LEMMA HandIs ==
  ASSUME TypeOK
  PROVE  /\ hand \in [Worker -> Solution \cup {NoSpace}] /\ wpc \in [Worker -> WorkerPC]
         /\ idle \in [Worker -> BOOLEAN]
         /\ \A w \in Worker : wpc[w] \in {"solution", "busy", "take"} =>
              hand[w] \in Solution /\ hand[w].node \in Node /\ hand[w].bound \in Bound
BY SpaceIs DEF TypeOK, SpacesOK, ControlOK, FlagsOK

LEMMA ExploreIs ==
  ASSUME TypeOK, BoundInv, NEW w \in Worker, Explore(w)
  PROVE  /\ wpc[w] # "solution" /\ InHand(w)' = {} /\ wpc'[w] = "loop" /\ ~idle'[w]
         /\ Frontier(w) = Own(path[w], NodeOf(cur[w]))
         /\ \A v \in Worker : v # w => idle'[v] = idle[v] /\ wpc'[v] = wpc[v] /\ hand'[v] = hand[v]
         /\ UNCHANGED epc
BY WorkIs DEF Explore

(* a failed node is done with *)
LEMMA FailedStep ==
  ASSUME TypeOK, BoundInv, NEW w \in Worker, Explore(w), cur[w] # NoSpace, FailedNode(w),
         UNCHANGED <<ngdl, boundVars>>
  PROVE  BoundInv'
<1> DEFINE p == path[w]
           q == NextAlt(p)
           n == cur[w].node
           H == {}
<1>1. /\ InOrder(p, cur[w], d[w], ngdl[w], mark[w]) /\ Bounded(p, cur[w], mark[w], bestOf[w])
      /\ ShapeOK(Alternatives, EdgeType, p, ngdl[w]) /\ d[w] \in Nat /\ ngdl[w] \in Nat /\ mark[w] \in Nat
      /\ p \in Seq(EdgeType)
  BY WorkerIs
<1>2. n \in Node /\ cur[w] \in Solution /\ cur[w].bound \in Bound /\ NodeOf(cur[w]) = n
      /\ cur[w] = Space(n, cur[w].bound)
  <2>1. cur[w] \in Solution
    BY <1>1 DEF InOrder
  <2> QED BY <2>1, SpaceIs, SpaceAssumption DEF NodeOf, Space
<1>3. /\ WorkerOK(Node, Alternatives, EdgeType, q, NoSpace, d[w], ngdl[w], Cardinality(OpenEdges(q))) /\ Own(q, NoSpace) = Pending(p)
      /\ q \in Seq(EdgeType) /\ Kept(q, p)
  <2>1. /\ WorkerOK(Node, Alternatives, EdgeType, q, NoSpace, d[w], ngdl[w],
                    IF q # <<>> /\ ~HasWork(Last(q)) THEN Cardinality(OpenEdges(p)) - 1
                    ELSE Cardinality(OpenEdges(p)))
        /\ Own(q, NoSpace) = Pending(p)
    BY <1>1, AdvanceOK
  <2> QED BY <1>1, <2>1, NextAltKept DEF WorkerOK
<1>4. /\ path' = [path EXCEPT ![w] = q] /\ cur' = [cur EXCEPT ![w] = NoSpace]
      /\ d' = [d EXCEPT ![w] = d[w]] /\ ngdl' = [ngdl EXCEPT ![w] = ngdl[w]]
      /\ mark' = [mark EXCEPT ![w] = mark[w]]
  BY WorkerIs DEF FailedNode
<1>5. InOrder(q, NoSpace, d[w], ngdl[w], mark[w])
  BY <1>1, <1>3 DEF InOrder, NodeOf
<1>6. Bounded(q, NoSpace, mark[w], bestOf[w])
  BY <1>1, <1>3, KeptOK DEF Bounded
<1>7. Passes(Frontier(w), Own(q, NodeOf(NoSpace)) \cup H)
  <2>1. \A s \in SolvedNodes : Better(s, best) => ~Below(n, s)
    BY <1>1, <1>2, MayFailIs DEF FailedNode, Bounded
  <2>2. Frontier(w) = Pending(p) \cup {n}
    BY <1>2, ExploreIs, NodeSeq DEF Own
  <2>3. NodeOf(NoSpace) = NoSpace
    BY DEF NodeOf
  <2> QED BY <1>3, <2>1, <2>2, <2>3 DEF Passes
<1>8. /\ wpc[w] # "solution" /\ InHand(w)' = H /\ wpc'[w] \notin {"busy", "take", "solution"}
      /\ ~idle'[w] /\ UNCHANGED epc
      /\ \A v \in Worker : v # w => idle'[v] = idle[v] /\ wpc'[v] = wpc[v] /\ hand'[v] = hand[v]
  BY ExploreIs
<1> HIDE DEF q, H
<1> QED BY <1>4, <1>5, <1>6, <1>7, <1>8, OneWorker

(* a choice: the node is replaced by its children *)
LEMMA BranchStep ==
  ASSUME TypeOK, BoundInv, NEW w \in Worker, Explore(w), cur[w] # NoSpace, BranchNode(w),
         UNCHANGED <<ngdl, boundVars>>
  PROVE  BoundInv'
<1> DEFINE p == path[w]
           n == cur[w].node
           b == cur[w].bound
           clones == d[w] = 0 \/ d[w] >= CD
           copy == IF clones THEN n ELSE NoSpace
           e == BoundedEdge(cur[w], clones)
           k == IF clones THEN 1 ELSE d[w] + 1
           K == {Child(n, a) : a \in 0 .. Alternatives[n] - 1}
           c == Space(Child(n, 0), b)
           H == {}
<1>1. /\ InOrder(p, cur[w], d[w], ngdl[w], mark[w]) /\ Bounded(p, cur[w], mark[w], bestOf[w])
      /\ ShapeOK(Alternatives, EdgeType, p, ngdl[w]) /\ d[w] \in Nat /\ ngdl[w] \in Nat /\ mark[w] \in Nat
      /\ p \in Seq(EdgeType)
  BY WorkerIs
<1>2. /\ n \in Node /\ n # NoSpace /\ b \in Bound /\ NodeOf(cur[w]) = n /\ Alternatives[n] > 0
      /\ Alternatives[n] \in Nat
  BY <1>1, SpaceIs, NodeSeq, TreeIs DEF InOrder, NodeOf, BranchNode
<1>3. /\ path' = [path EXCEPT ![w] = Push(p, e)] /\ cur' = [cur EXCEPT ![w] = c]
      /\ d' = [d EXCEPT ![w] = k] /\ ngdl' = [ngdl EXCEPT ![w] = ngdl[w]]
      /\ mark' = [mark EXCEPT ![w] = mark[w]]
  BY WorkerIs DEF BranchNode
<1>4. copy \in {n, NoSpace} /\ (copy = NoSpace => d[w] # 0) /\ k \in Nat \ {0}
  BY <1>1, <1>2
<1>5. /\ e \in EdgeType /\ e.node = n /\ e.space = copy /\ e.alt = 0
      /\ e.altMax = Alternatives[n] - 1 /\ e.alternatives = Alternatives[n] /\ e.bound = b
  BY <1>2, <1>4 DEF BoundedEdge, EdgeType, Bound
<1> HIDE DEF copy, k, e
<1> DEFINE q == Push(p, e)
           o == IF HasWork(e) THEN Cardinality(OpenEdges(p)) + 1 ELSE Cardinality(OpenEdges(p))
<1>6. /\ WorkerOK(Node, Alternatives, EdgeType, q, Child(n, 0), k, ngdl[w], o) /\ Own(q, Child(n, 0)) = (Own(p, n) \ {n}) \cup K
  <2>1. WorkerOK(Node, Alternatives, EdgeType, p, n, d[w], ngdl[w], Cardinality(OpenEdges(p)))
    BY <1>1, <1>2 DEF InOrder
  <2>2. /\ n \in Node /\ Alternatives[n] > 0 /\ copy \in {n, NoSpace} /\ (copy = NoSpace => d[w] # 0)
        /\ e \in EdgeType /\ e.node = n /\ e.space = copy /\ e.alt = 0
        /\ e.altMax = Alternatives[n] - 1 /\ e.alternatives = Alternatives[n] /\ k \in Nat \ {0}
    BY <1>2, <1>4, <1>5
  <2> HIDE DEF p, n, b, clones, c, H
  <2> QED BY <2>1, <2>2, BranchOK, SMTT(30)
<1>7. Child(n, 0) \in Node /\ c \in Solution /\ c # NoSpace /\ NodeOf(c) = Child(n, 0) /\ c.bound = b
  BY <1>2, <1>6, TreeIs, SpaceIs DEF NodeOf
<1>8. InOrder(q, c, k, ngdl[w], mark[w])
  BY <1>1, <1>6, <1>7 DEF InOrder, WorkerOK
<1>9. Bounded(q, c, mark[w], bestOf[w])
  <2>1. Tight(p, mark[w], bestOf[w]) /\ AsTight(b, bestOf[w]) /\ Justified(p, best) /\ AsTight(best, b)
    BY <1>1 DEF Bounded
  <2>2. Tight(q, mark[w], bestOf[w]) /\ Justified(q, best)
    BY <1>1, <1>5, <2>1, PushBounds
  <2> QED BY <1>7, <2>1, <2>2 DEF Bounded
<1>10. Passes(Frontier(w), Own(q, NodeOf(c)) \cup H)
  <2> SUFFICES ASSUME NEW s \in SolvedNodes, NEW x \in Frontier(w), Below(x, s)
               PROVE  \E y \in Own(q, NodeOf(c)) : Below(y, s)
    BY DEF Passes
  <2>1. Frontier(w) = Own(p, n)
    BY <1>2, ExploreIs
  <2>2. CASE x # n
    BY <1>6, <1>7, <2>1, <2>2
  <2>3. CASE x = n
    <3>1. s \in Node /\ s # n
      BY <1>2, SolvedIs
    <3>2. PICK a \in 0 .. Alternatives[n] - 1 : Below(Child(n, a), s)
      BY <1>2, <2>3, <3>1, BelowChild
    <3>3. Child(n, a) \in K
      OBVIOUS
    <3> QED BY <1>6, <1>7, <3>2, <3>3
  <2> QED BY <2>2, <2>3
<1>11. /\ wpc[w] # "solution" /\ InHand(w)' = H /\ wpc'[w] \notin {"busy", "take", "solution"}
       /\ ~idle'[w] /\ UNCHANGED epc
       /\ \A v \in Worker : v # w => idle'[v] = idle[v] /\ wpc'[v] = wpc[v] /\ hand'[v] = hand[v]
  BY ExploreIs
<1> HIDE DEF q, H, c
<1> QED BY <1>3, <1>8, <1>9, <1>10, <1>11, OneWorker DEF q

(* a solution: it passes into the worker's hand *)
LEMMA SolvedStep ==
  ASSUME TypeOK, BoundInv, NEW w \in Worker, cur[w] # NoSpace,
         Solved(w, Space(cur[w].node, NoSpace)), SolvedTree(w), UNCHANGED boundVars
  PROVE  BoundInv'
<1> DEFINE p == path[w]
           q == NextAlt(p)
           n == cur[w].node
           H == {n}
<1>1. /\ InOrder(p, cur[w], d[w], ngdl[w], mark[w]) /\ Bounded(p, cur[w], mark[w], bestOf[w])
      /\ ShapeOK(Alternatives, EdgeType, p, ngdl[w]) /\ d[w] \in Nat /\ ngdl[w] \in Nat /\ mark[w] \in Nat
      /\ p \in Seq(EdgeType)
  BY WorkerIs
<1>2. n \in SolvedNodes /\ NodeOf(cur[w]) = n /\ n \in Node /\ n # NoSpace
  BY SolvedIs DEF SolvedTree, NodeOf
<1>3. /\ WorkerOK(Node, Alternatives, EdgeType, q, NoSpace, d[w], ngdl[w], Cardinality(OpenEdges(q))) /\ Own(q, NoSpace) = Pending(p)
      /\ q \in Seq(EdgeType) /\ Kept(q, p)
  <2>1. /\ WorkerOK(Node, Alternatives, EdgeType, q, NoSpace, d[w], ngdl[w],
                    IF q # <<>> /\ ~HasWork(Last(q)) THEN Cardinality(OpenEdges(p)) - 1
                    ELSE Cardinality(OpenEdges(p)))
        /\ Own(q, NoSpace) = Pending(p)
    BY <1>1, AdvanceOK
  <2> QED BY <1>1, <2>1, NextAltKept DEF WorkerOK
<1>4. /\ path' = [path EXCEPT ![w] = q] /\ cur' = [cur EXCEPT ![w] = NoSpace]
      /\ d' = [d EXCEPT ![w] = d[w]] /\ ngdl' = [ngdl EXCEPT ![w] = ngdl[w]]
      /\ mark' = [mark EXCEPT ![w] = mark[w]]
  BY WorkerIs DEF SolvedTree
<1>5. InOrder(q, NoSpace, d[w], ngdl[w], mark[w])
  BY <1>1, <1>3 DEF InOrder, NodeOf
<1>6. Bounded(q, NoSpace, mark[w], bestOf[w])
  BY <1>1, <1>3, KeptOK DEF Bounded
<1>7. /\ wpc[w] # "solution" /\ wpc'[w] = "solution" /\ hand'[w].node = n /\ InHand(w)' = H
      /\ ~idle'[w] /\ UNCHANGED epc /\ Frontier(w) = Own(p, n)
      /\ \A v \in Worker : v # w => idle'[v] = idle[v] /\ wpc'[v] = wpc[v] /\ hand'[v] = hand[v]
  <2>1. /\ wpc[w] # "solution" /\ wpc'[w] = "solution" /\ Frontier(w) = Own(p, n)
        /\ \A v \in Worker : v # w => wpc'[v] = wpc[v]
    BY <1>2, WorkIs DEF Solved
  <2>2. hand'[w].node = n /\ \A v \in Worker : v # w => hand'[v] = hand[v]
    BY <1>2, SpaceIs, HandIs DEF Solved, Bound
  <2> QED BY <2>1, <2>2 DEF Solved, InHand
<1>8. Passes(Frontier(w), Own(q, NodeOf(NoSpace)) \cup H)
  BY <1>2, <1>3, <1>7 DEF Passes, Own, NodeOf
<1>9. wpc'[w] \notin {"busy", "take"} /\ hand'[w].node \in SolvedNodes /\ ~idle'[w]
  BY <1>2, <1>7
<1> HIDE DEF q, H
<1> QED BY <1>4, <1>5, <1>6, <1>7, <1>8, <1>9, OneWorker

(* nothing left: the worker becomes idle *)
LEMMA RunDryStep ==
  ASSUME TypeOK, BoundInv, NEW w \in Worker, RunDry(w), RunDryTree(w), UNCHANGED boundVars
  PROVE  BoundInv'
<1>1. /\ cur[w] = NoSpace /\ path[w] = <<>> /\ d[w] \in Nat /\ mark[w] \in Nat
      /\ Bounded(<<>>, NoSpace, mark[w], bestOf[w])
  BY WorkerIs DEF RunDryTree
<1>2. InOrder(<<>>, NoSpace, d[w], 0, mark[w])
  <2>1. \A k \in Nat : WorkerOK(Node, Alternatives, EdgeType, <<>>, NoSpace, k, 0, 0) <=> (NoSpace # NoSpace => k = 0)
    BY NothingLeft, SMT
  <2>2. Cardinality(OpenEdges(<<>>)) = 0
    BY NothingLeft, FS_EmptySet
  <2> QED BY <1>1, <2>1, <2>2 DEF InOrder, NodeOf
<1>3. /\ wpc[w] # "solution" /\ wpc'[w] \notin {"busy", "take", "solution"} /\ InHand(w)' = {}
      /\ Frontier(w) = Own(<<>>, NodeOf(NoSpace)) /\ UNCHANGED epc
      /\ \A v \in Worker : v # w => idle'[v] = idle[v] /\ wpc'[v] = wpc[v] /\ hand'[v] = hand[v]
  BY <1>1, WorkIs, HandIs DEF RunDry
<1>4. /\ path' = [path EXCEPT ![w] = <<>>] /\ cur' = [cur EXCEPT ![w] = NoSpace]
      /\ d' = [d EXCEPT ![w] = d[w]] /\ ngdl' = [ngdl EXCEPT ![w] = 0]
      /\ mark' = [mark EXCEPT ![w] = mark[w]]
  BY <1>1, WorkerIs DEF RunDryTree
<1>5. Passes(Frontier(w), Own(<<>>, NodeOf(NoSpace)) \cup {})
  BY <1>3 DEF Passes
<1> QED BY <1>1, <1>2, <1>3, <1>4, <1>5, OneWorker

(* a thief goes on with what it has stolen *)
LEMMA TakeStep ==
  ASSUME TypeOK, BusyInv, BoundInv, NEW w \in Worker, Take(w), TakeTree(w), UNCHANGED boundVars
  PROVE  BoundInv'
<1> DEFINE h == hand[w]
           c == Constrained(h, bestOf[w])
           H == {}
<1>1. /\ wpc[w] = "take" /\ idle[w] /\ h \in Solution /\ h.node \in Node /\ h.bound \in Bound
      /\ h # NoSpace
  BY HandIs, SpaceIs DEF Take, WGoto, BusyInv
<1>2. cur[w] = NoSpace /\ path[w] = <<>>
  BY <1>1 DEF BoundInv, WorkersOK
<1>3. /\ bestOf[w] \in Bound /\ AsTight(best, bestOf[w]) /\ AsTight(best, h.bound) /\ best \in Bound
      /\ Frontier(w) = Own(path[w], NodeOf(cur[w])) \cup InHand(w)
  BY <1>1, WorkerIs DEF BoundInv, HandsOK
<1>4. /\ c \in Solution \cup {NoSpace} /\ NodeOf(c) = h.node /\ c # NoSpace
      /\ c.bound = Tighter(bestOf[w], h.bound)
  BY <1>1, <1>3, ConstrainedIs DEF NodeOf
<1> HIDE DEF h, c
<1>5. InOrder(<<>>, c, 0, 0, 0)
  <2>1. WorkerOK(Node, Alternatives, EdgeType, <<>>, h.node, 0, 0, 0)
    BY <1>1, NothingLeft
  <2>2. Cardinality(OpenEdges(<<>>)) = 0
    BY NothingLeft, FS_EmptySet
  <2> QED BY <1>4, <2>1, <2>2 DEF InOrder
<1>6. Bounded(<<>>, c, 0, bestOf[w])
  <2>1. AsTight(c.bound, bestOf[w]) /\ AsTight(best, c.bound)
    BY <1>1, <1>3, <1>4, TighterIs
  <2>2. Tight(<<>>, 0, bestOf[w]) /\ Justified(<<>>, best)
    BY DEF Tight, Justified
  <2> QED BY <2>1, <2>2 DEF Bounded
<1>7. Passes(Frontier(w), Own(<<>>, NodeOf(c)) \cup H)
  <2>1. Own(<<>>, NoSpace) = {} /\ Own(<<>>, h.node) = {h.node}
    BY <1>1, NothingLeft, NodeSeq DEF Own
  <2>2. NodeOf(NoSpace) = NoSpace /\ InHand(w) = {h.node}
    BY <1>1 DEF NodeOf, InHand, h
  <2> QED BY <1>2, <1>3, <1>4, <2>1, <2>2 DEF Passes
<1>8. /\ wpc[w] # "solution" /\ wpc'[w] \notin {"busy", "take", "solution"} /\ InHand(w)' = H
      /\ ~idle'[w] /\ UNCHANGED epc
      /\ \A v \in Worker : v # w => idle'[v] = idle[v] /\ wpc'[v] = wpc[v] /\ hand'[v] = hand[v]
  BY <1>1, HandIs DEF Take, WGoto, InHand
<1>9. /\ path' = [path EXCEPT ![w] = <<>>] /\ cur' = [cur EXCEPT ![w] = c]
      /\ d' = [d EXCEPT ![w] = 0] /\ ngdl' = [ngdl EXCEPT ![w] = 0] /\ mark' = [mark EXCEPT ![w] = 0]
  BY <1>2, WorkerIs DEF TakeTree, c, h
<1> HIDE DEF H
<1> QED BY <1>5, <1>6, <1>7, <1>8, <1>9, OneWorker

(* recompute(): the clone it starts from is constrained if it is below the mark *)
LEMMA RenewedIs ==
  ASSUME BoundInv, NEW w \in Worker, cur[w] = NoSpace, path[w] # <<>>,
         NEW l, l = LastCopy(path[w]), NEW m, m = IF Stale(w, l) THEN l - 1 ELSE mark[w],
         NEW r, r = Renewed(w)
  PROVE  /\ LastCopy(r) = l /\ l \in 1 .. Len(r) /\ r # <<>> /\ r \in Seq(EdgeType)
         /\ r[l].space = r[l].node /\ r[l].bound \in Bound
         /\ \A j \in l + 1 .. Len(r) : r[j].space = NoSpace
         /\ AsTight(r[l].bound, bestOf[w]) /\ AsTight(best, r[l].bound)
         /\ m \in Nat /\ Tight(r, m, bestOf[w]) /\ Justified(r, best)
         /\ WorkerOK(Node, Alternatives, EdgeType, r, NoSpace, d[w], ngdl[w], Cardinality(OpenEdges(r)))
         /\ Own(r, NoSpace) = Own(path[w], NoSpace)
<1> DEFINE p == path[w]
           b == p[l].bound
           t == Tighter(bestOf[w], b)
           f == [p[l] EXCEPT !.bound = t]
<1>1. /\ WorkerOK(Node, Alternatives, EdgeType, p, NoSpace, d[w], ngdl[w], Cardinality(OpenEdges(p)))
      /\ ShapeOK(Alternatives, EdgeType, p, ngdl[w]) /\ ngdl[w] \in Nat /\ mark[w] \in Nat /\ p \in Seq(EdgeType)
      /\ Tight(p, mark[w], bestOf[w]) /\ Justified(p, best)
      /\ bestOf[w] \in Bound /\ best \in Bound /\ AsTight(best, bestOf[w])
      /\ Len(p) \in Nat /\ DOMAIN p = 1 .. Len(p)
  BY WorkerIs DEF InOrder, Bounded, NodeOf
<1>2. PointsOK(p, NoSpace, d[w]) /\ HasCopy(p, Len(p))
  BY <1>1 DEF WorkerOK, PointsOK
<1>3. /\ l \in 1 .. Len(p) /\ p[l].space = p[l].node /\ p[l].space # NoSpace
      /\ \A j \in l + 1 .. Len(p) : p[j].space = NoSpace
  BY <1>1, <1>2, LastCopyOK
<1>4. b \in Bound /\ p[l] \in EdgeType /\ AsTight(best, b)
  BY <1>1, <1>3, EdgeBound DEF Justified
<1>5. t \in Bound /\ AsTight(t, bestOf[w]) /\ AsTight(best, t)
  BY <1>1, <1>4, TighterIs
<1>6. /\ f \in EdgeType /\ f.node = p[l].node /\ f.alternatives = p[l].alternatives
      /\ f.space = p[l].space /\ f.alt = p[l].alt /\ f.altMax = p[l].altMax /\ f.bound = t
  <2> HIDE DEF t
  <2> QED BY <1>4, <1>5, BoundChanged
<1>7. r = IF Stale(w, l) THEN [p EXCEPT ![l] = f] ELSE p
  BY DEF Renewed
<1>8. Stale(w, l) <=> bestOf[w] # NoSpace /\ mark[w] > l - 1
  BY DEF Stale
<1> HIDE DEF f, t, p
<1>9. Alike(EdgeType, r, p) /\ Len(r) = Len(p) /\ r \in Seq(EdgeType)
  <2>1. CASE Stale(w, l)
    <3>1. r \in Seq(EdgeType) /\ Len(r) = Len(p) /\ r[l] = f /\ \A j \in 1 .. Len(p) : j # l => r[j] = p[j]
      BY <1>1, <1>3, <1>6, <1>7, <2>1, UpdateIs
    <3> QED BY <3>1, <1>6 DEF Alike
  <2>2. CASE ~Stale(w, l)
    BY <1>1, <1>7, <2>2 DEF Alike
  <2> QED BY <2>1, <2>2
<1>10. /\ Stale(w, l) => r[l].bound = t
       /\ ~Stale(w, l) => r[l].bound = b
       /\ \A j \in 1 .. Len(p) : j # l => r[j].bound = p[j].bound
  BY <1>1, <1>3, <1>6, <1>7, UpdateIs
<1>11. /\ ShapeOK(Alternatives, EdgeType, r, ngdl[w]) /\ PointsOK(r, NoSpace, d[w])
       /\ Own(r, NoSpace) = Own(p, NoSpace) /\ LastCopy(r) = l
  BY <1>1, <1>2, <1>9, AlikeOK, LastCopySame DEF Own, p
<1>12. \A j \in 1 .. Len(p) : r[j].space = p[j].space /\ r[j].node = p[j].node
  BY <1>9 DEF Alike
<1>13. /\ r[l].bound \in Bound /\ AsTight(best, r[l].bound) /\ AsTight(r[l].bound, bestOf[w])
  <2>1. ASSUME ~Stale(w, l) PROVE AsTight(b, bestOf[w])
    <3>1. CASE bestOf[w] = NoSpace
      BY <3>1 DEF AsTight
    <3>2. CASE l > mark[w]
      BY <3>2, <1>1, <1>3 DEF Tight
    <3> QED BY <1>1, <1>3, <1>8, <2>1, <3>1, <3>2
  <2> QED BY <1>4, <1>5, <1>10, <2>1
<1>14. m \in Nat /\ (m = mark[w] \/ m = l - 1)
  BY <1>1, <1>3
<1>15. Tight(r, m, bestOf[w])
  <2> SUFFICES ASSUME NEW j \in 1 .. Len(r), r[j].space # NoSpace, j > m
               PROVE  AsTight(r[j].bound, bestOf[w])
    BY <1>9 DEF Tight
  <2>1. j \in 1 .. Len(p) /\ j <= l
    BY <1>3, <1>9, <1>12
  <2>2. j = l \/ (m = mark[w] /\ j # l)
    BY <1>14, <2>1, <1>3
  <2>3. CASE j = l
    BY <2>3, <1>13
  <2>4. CASE m = mark[w] /\ j # l
    BY <2>1, <2>4, <1>1, <1>10, <1>12 DEF Tight
  <2> QED BY <2>2, <2>3, <2>4
<1>16. Justified(r, best)
  BY <1>1, <1>9, <1>10, <1>13 DEF Justified
<1>17. WorkerOK(Node, Alternatives, EdgeType, r, NoSpace, d[w], ngdl[w], Cardinality(OpenEdges(r)))
  BY <1>1, <1>11 DEF WorkerOK
<1>18. r # <<>>
  BY <1>3, <1>9
<1> QED BY <1>3, <1>9, <1>11, <1>12, <1>13, <1>14, <1>15, <1>16, <1>17, <1>18 DEF p

(* another clone is placed on edge i *)
LEMMA PlacedBounds ==
  ASSUME NEW r \in Seq(EdgeType), NEW m, NEW b, NEW a, Tight(r, m, b), Justified(r, a),
         NEW i \in 1 .. Len(r), NEW f, AsTight(f.bound, b), AsTight(a, f.bound),
         NEW q \in Seq(EdgeType), Len(q) = Len(r), q[i] = f,
         \A j \in 1 .. Len(r) : j # i => q[j] = r[j]
  PROVE  Tight(q, m, b) /\ Justified(q, a)
<1>1. DOMAIN q = DOMAIN r /\ DOMAIN r = 1 .. Len(r)
  OBVIOUS
<1>2. ASSUME NEW j \in 1 .. Len(r)
      PROVE  /\ q[j].space # NoSpace /\ j > m => AsTight(q[j].bound, b)
             /\ AsTight(a, q[j].bound)
  BY <1>1, <1>2 DEF Tight, Justified
<1> QED BY <1>1, <1>2 DEF Tight, Justified

(* recomputation: the next node to explore becomes the current space, or turns out to
   hold nothing better than best *)
LEMMA RecomputeStep ==
  ASSUME TypeOK, BoundInv, NEW w \in Worker, Explore(w), cur[w] = NoSpace, path[w] # <<>>,
         Recompute(w), UNCHANGED <<ngdl, boundVars>>
  PROVE  BoundInv'
<1>0. PICK r : r = Renewed(w)
  OBVIOUS
<1>0a. PICK l : l = LastCopy(path[w])
  OBVIOUS
<1> DEFINE ng == ngdl[w]
           n == Child(Last(r).node, Last(r).alt)
           b == r[l].bound
           m == IF Stale(w, l) THEN l - 1 ELSE mark[w]
           i == AdaptiveEdge(r)
           H == {}
<1>1. /\ LastCopy(r) = l /\ l \in 1 .. Len(r) /\ r # <<>> /\ r \in Seq(EdgeType)
      /\ r[l].space = r[l].node /\ b \in Bound
      /\ AsTight(b, bestOf[w]) /\ AsTight(best, b)
      /\ m \in Nat /\ Tight(r, m, bestOf[w]) /\ Justified(r, best)
      /\ WorkerOK(Node, Alternatives, EdgeType, r, NoSpace, d[w], ng, Cardinality(OpenEdges(r)))
      /\ Own(r, NoSpace) = Own(path[w], NoSpace)
  <2> HIDE DEF m
  <2>1. m = IF Stale(w, l) THEN l - 1 ELSE mark[w]
    BY DEF m
  <2> QED BY <1>0, <1>0a, <2>1, RenewedIs
<1>2. mark' = [mark EXCEPT ![w] = m]
  BY <1>0, <1>0a, <1>1, WorkerIs DEF Recompute
<1>3. ngdl' = [ngdl EXCEPT ![w] = ng]
  BY WorkerIs
<1> HIDE DEF m
<1>4. /\ ng \in Nat /\ d[w] \in Nat /\ ShapeOK(Alternatives, EdgeType, r, ng) /\ PointsOK(r, NoSpace, d[w])
      /\ ~LAO(Last(r)) /\ HasCopy(r, Len(r))
  BY <1>1 DEF WorkerOK, PointsOK
<1>5. /\ Commits(r, l, Len(r)) = n /\ n \in Node /\ n # NoSpace /\ Distance(r) \in Nat
      /\ PlacesCopy(r, AD) =>
           /\ i \in 1 .. Len(r) /\ ~LAO(r[i]) /\ Len(r) - i + 1 \in Nat
           /\ Commits(r, l, i - 1) = r[i].node
  BY <1>1, <1>4, OptionsAssumption, RecomputeOK, NodeSeq
<1>6. /\ wpc[w] # "solution" /\ InHand(w)' = H /\ wpc'[w] \notin {"busy", "take", "solution"}
      /\ ~idle'[w] /\ UNCHANGED epc
      /\ Frontier(w) = Own(r, NoSpace)
      /\ \A v \in Worker : v # w => idle'[v] = idle[v] /\ wpc'[v] = wpc[v] /\ hand'[v] = hand[v]
  BY <1>1, ExploreIs DEF NodeOf
<1>7. Frontier(w) = Pending(r) \cup {n}
  BY <1>1, <1>6 DEF Own, Top
<1> HIDE DEF n, b, i, ng, H
(* any step to the node n that keeps what is left to take *)
<1>8. ASSUME NEW q, NEW k \in Nat, ShapeOK(Alternatives, EdgeType, q, ng), PointsOK(q, n, k), Pending(q) = Pending(r),
             Tight(q, m, bestOf[w]), Justified(q, best),
             path' = [path EXCEPT ![w] = q], cur' = [cur EXCEPT ![w] = Space(n, b)],
             d' = [d EXCEPT ![w] = k]
      PROVE  BoundInv'
  <2> DEFINE c == Space(n, b)
  <2>1. c \in Solution /\ c # NoSpace /\ NodeOf(c) = n /\ c.bound = b
    BY <1>1, <1>5, SpaceIs DEF NodeOf
  <2> HIDE DEF c
  <2>2. InOrder(q, c, k, ng, m)
    BY <1>1, <1>4, <1>5, <1>8, <2>1 DEF InOrder, WorkerOK
  <2>3. Bounded(q, c, m, bestOf[w])
    BY <1>1, <1>8, <2>1 DEF Bounded
  <2>4. Passes(Frontier(w), Own(q, NodeOf(c)) \cup H)
    BY <1>5, <1>7, <1>8, <2>1 DEF Passes, Own
  <2>5. /\ path' = [path EXCEPT ![w] = q] /\ cur' = [cur EXCEPT ![w] = c]
        /\ d' = [d EXCEPT ![w] = k]
    BY <1>8 DEF c
  <2> QED BY <1>2, <1>3, <1>6, <2>2, <2>3, <2>4, <2>5, OneWorker
(* no step: nothing better is below the node of edge x *)
<1>9. ASSUME NEW x \in 1 .. Len(r), MayFail(Space(r[x].node, b)), UNCHANGED cur,
             path' = [path EXCEPT ![w] = NextAlt(SubSeq(r, 1, x - 1))],
             d' = [d EXCEPT ![w] = Distance(r)]
      PROVE  BoundInv'
  <2> DEFINE q == NextAlt(SubSeq(r, 1, x - 1))
             k == Distance(r)
             left == Cardinality(OpenEdges(r)) - Cardinality({y \in OpenEdges(r) : y >= x})
             o == IF q # <<>> /\ ~HasWork(Last(q)) THEN left - 1 ELSE left
  <2>1. q \in Seq(EdgeType) /\ Kept(q, r)
    BY <1>4, UnwoundKept
  <2>2. q = NextAlt(SubSeq(r, 1, x - 1)) /\ k \in Nat
    BY <1>5
  <2> HIDE DEF q, k, left
  <2>3. /\ WorkerOK(Node, Alternatives, EdgeType, q, NoSpace, k, ng, o)
        /\ Own(q, NoSpace) \subseteq Own(r, NoSpace)
        /\ \A y \in Own(r, NoSpace) \ Own(q, NoSpace) : Below(r[x].node, y)
    <3>1. left = Cardinality(OpenEdges(r)) - Cardinality({y \in OpenEdges(r) : y >= x})
      BY DEF left
    <3> QED BY <1>1, <2>2, <3>1, UnwoundOK
  <2>4. InOrder(q, NoSpace, k, ng, m)
    BY <1>1, <2>3 DEF InOrder, NodeOf, WorkerOK
  <2>5. Bounded(q, NoSpace, m, bestOf[w])
    BY <1>1, <2>1, KeptOK DEF Bounded
  <2>6. Passes(Frontier(w), Own(q, NodeOf(NoSpace)) \cup H)
    <3> SUFFICES ASSUME NEW s \in SolvedNodes, Better(s, best), NEW y \in Own(r, NoSpace), Below(y, s)
                 PROVE  y \in Own(q, NoSpace)
      BY <1>6 DEF Passes, NodeOf
    <3>1. r[x].node \in Node
      BY <1>1, EdgeTyped
    <3>2. ~Below(r[x].node, s)
      BY <1>1, <1>9, <3>1, MayFailIs
    <3>3. Own(r, NoSpace) \subseteq Node /\ s \in Node
      BY <1>1, OwnNodes, SolvedIs
    <3>4. y \in Node
      BY <3>3
    <3>5. ~Below(r[x].node, y)
      BY <3>1, <3>2, <3>3, <3>4, BelowOrder
    <3> QED BY <2>3, <3>5
  <2>7. /\ path' = [path EXCEPT ![w] = q] /\ cur' = [cur EXCEPT ![w] = NoSpace]
        /\ d' = [d EXCEPT ![w] = k]
    BY <1>9, WorkerIs DEF q, k
  <2> QED BY <1>2, <1>3, <1>6, <2>4, <2>5, <2>6, <2>7, OneWorker
<1>10. ASSUME CanReuse(r), cur' = [cur EXCEPT ![w] = Space(Child(r[l].space, r[l].alt), b)],
              path' = [path EXCEPT ![w] = Reuse(r, ng)], d' = [d EXCEPT ![w] = 0]
       PROVE  BoundInv'
  <2>1. /\ ShapeOK(Alternatives, EdgeType, Reuse(r, ng), ng) /\ Last(r).space = Last(r).node
        /\ PointsOK(Reuse(r, ng), n, 0) /\ Pending(Reuse(r, ng)) = Pending(r)
    BY <1>1, <1>4, <1>10, ReuseOK DEF n
  <2>2. l = Len(r) /\ r[l] = Last(r)
    <3>1. Last(r) = r[Len(r)] /\ r[Len(r)].space # NoSpace /\ Len(r) \in Nat
      BY <1>1, <1>10 DEF CanReuse, Last
    <3>2. ~(Len(r) \in l + 1 .. Len(r))
      BY <1>0, <1>0a, <3>1, RenewedIs
    <3> QED BY <1>1, <3>1, <3>2
  <2>3. Reuse(r, ng) \in Seq(EdgeType) /\ Kept(Reuse(r, ng), r)
    BY <1>1, <1>4, ReuseKept
  <2>4. Tight(Reuse(r, ng), m, bestOf[w]) /\ Justified(Reuse(r, ng), best)
    BY <1>1, <2>3, KeptOK
  <2>5. cur' = [cur EXCEPT ![w] = Space(n, b)]
    BY <1>10, <2>1, <2>2 DEF n
  <2> QED BY <1>8, <1>10, <2>1, <2>4, <2>5
<1>11. ASSUME cur' = [cur EXCEPT ![w] = Space(Commits(r, l, Len(r)), b)],
              path' = [path EXCEPT ![w] = r], d' = [d EXCEPT ![w] = Distance(r)]
       PROVE  BoundInv'
  <2>1. PointsOK(r, n, Distance(r))
    BY <1>4 DEF PointsOK, n
  <2>2. cur' = [cur EXCEPT ![w] = Space(n, b)]
    BY <1>5, <1>11
  <2> QED BY <1>1, <1>4, <1>5, <1>8, <1>11, <2>1, <2>2
<1>12. ASSUME PlacesCopy(r, AD), cur' = [cur EXCEPT ![w] = Space(Commits(r, l, Len(r)), b)],
              d' = [d EXCEPT ![w] = Len(r) - i + 1],
              path' = [path EXCEPT ![w] = [r EXCEPT ![i].space = r[i].node, ![i].bound = b]]
       PROVE  BoundInv'
  <2> DEFINE s == r[i].node
             g == [r[i] EXCEPT !.space = s]
             f == [g EXCEPT !.bound = b]
             q == [r EXCEPT ![i] = f]
             u == Placed(r, i)
             k == Len(r) - i + 1
  <2>1. i \in 1 .. Len(r) /\ k \in Nat /\ s \in Node /\ ~LAO(r[i]) /\ r[i] \in EdgeType
    BY <1>1, <1>5, <1>12, EdgeTyped
  <2>2. /\ g \in EdgeType /\ g.node = s /\ g.alternatives = r[i].alternatives
        /\ g.space = s /\ g.alt = r[i].alt /\ g.altMax = r[i].altMax
    BY <2>1, CopyChanged
  <2>2a. path' = [path EXCEPT ![w] = q]
    BY <1>12
  <2>2b. u = [r EXCEPT ![i] = g]
    BY DEF Placed
  <2>3. /\ ShapeOK(Alternatives, EdgeType, u, ng) /\ Len(u) = Len(r) /\ u # <<>> /\ Pending(u) = Pending(r)
        /\ Last(u).node = Last(r).node /\ Last(u).alt = Last(r).alt /\ (LAO(Last(u)) <=> LAO(Last(r)))
        /\ HasCopy(u, Len(u))
    BY <1>4, <2>1, PlaceOK
  <2> HIDE DEF g
  <2>3a. /\ f \in EdgeType /\ f.node = g.node /\ f.alternatives = g.alternatives
         /\ f.space = g.space /\ f.alt = g.alt /\ f.altMax = g.altMax /\ f.bound = b
    BY <1>1, <2>2, BoundChanged
  <2> HIDE DEF f, s
  <2>4. /\ q \in Seq(EdgeType) /\ Len(q) = Len(r) /\ Tight(q, m, bestOf[w]) /\ Justified(q, best)
        /\ q[i] = f /\ \A j \in 1 .. Len(r) : j # i => q[j] = r[j]
    <3> HIDE DEF q, u, k
    <3>1. /\ r \in Seq(EdgeType) /\ Tight(r, m, bestOf[w]) /\ Justified(r, best)
          /\ i \in 1 .. Len(r) /\ f \in EdgeType
          /\ AsTight(f.bound, bestOf[w]) /\ AsTight(best, f.bound)
      BY <1>1, <2>1, <2>3a
    <3>2. \A x : x = [r EXCEPT ![i] = f] =>
            /\ x \in Seq(EdgeType) /\ Len(x) = Len(r) /\ x[i] = f
            /\ \A j \in 1 .. Len(r) : j # i => x[j] = r[j]
      BY <3>1, UpdateIs
    <3>3. /\ q \in Seq(EdgeType) /\ Len(q) = Len(r) /\ q[i] = f
          /\ \A j \in 1 .. Len(r) : j # i => q[j] = r[j]
      BY <3>2 DEF q
    <3>4. Tight(q, m, bestOf[w]) /\ Justified(q, best)
      BY <3>1, <3>3, PlacedBounds
    <3> QED BY <3>3, <3>4
  <2> HIDE DEF q
  <2>5. u[i] = g /\ \A j \in 1 .. Len(r) : j # i => u[j] = r[j]
    <3> HIDE DEF u
    <3> QED BY <1>1, <2>1, <2>2, <2>2b, UpdateIs
  <2> HIDE DEF u
  <2>6. Alike(EdgeType, q, u)
    BY <2>3, <2>3a, <2>4, <2>5 DEF Alike
  <2>7. PointsOK(u, n, k)
    BY <1>4, <2>3 DEF PointsOK, n
  <2>8. ShapeOK(Alternatives, EdgeType, q, ng) /\ Pending(q) = Pending(r) /\ PointsOK(q, n, k)
    BY <1>4, <2>3, <2>6, <2>7, AlikeOK
  <2>9. path' = [path EXCEPT ![w] = q] /\ cur' = [cur EXCEPT ![w] = Space(n, b)]
    BY <1>5, <1>12, <2>2a
  <2> QED BY <1>8, <1>12, <2>1, <2>4, <2>8, <2>9
<1> DEFINE midway == Space(Commits(r, l, i - 1), b)
<1>13. /\ PlacesCopy(r, AD) => midway.node = r[i].node /\ midway.bound = b /\ midway = Space(r[i].node, b)
       /\ Space(r[l].space, r[l].bound) = Space(r[l].node, b)
  BY <1>1, <1>5 DEF Space, b
<1>14. \/ /\ CanReuse(r) /\ cur' = [cur EXCEPT ![w] = Space(Child(r[l].space, r[l].alt), b)]
          /\ path' = [path EXCEPT ![w] = Reuse(r, ng)] /\ d' = [d EXCEPT ![w] = 0]
       \/ /\ cur' = [cur EXCEPT ![w] = Space(Commits(r, l, Len(r)), b)]
          /\ path' = [path EXCEPT ![w] = r] /\ d' = [d EXCEPT ![w] = Distance(r)]
       \/ /\ PlacesCopy(r, AD) /\ cur' = [cur EXCEPT ![w] = Space(Commits(r, l, Len(r)), b)]
          /\ d' = [d EXCEPT ![w] = Len(r) - i + 1]
          /\ path' = [path EXCEPT ![w] = [r EXCEPT ![i].space = midway.node, ![i].bound = midway.bound]]
       \/ /\ MayFail(Space(r[l].space, r[l].bound)) /\ UNCHANGED cur
          /\ path' = [path EXCEPT ![w] = NextAlt(SubSeq(r, 1, l - 1))] /\ d' = [d EXCEPT ![w] = Distance(r)]
       \/ /\ PlacesCopy(r, AD) /\ MayFail(midway) /\ UNCHANGED cur
          /\ path' = [path EXCEPT ![w] = NextAlt(SubSeq(r, 1, i - 1))] /\ d' = [d EXCEPT ![w] = Distance(r)]
  BY <1>0, <1>1 DEF Recompute, b, i, ng
<1> HIDE DEF midway
<1> QED BY <1>1, <1>5, <1>9, <1>10, <1>11, <1>12, <1>13, <1>14

(* what a thief gets has been constrained with the bound of a clone on the path *)
LEMMA StolenBoundIs ==
  ASSUME NEW ng \in Nat, NEW p, ShapeOK(Alternatives, EdgeType, p, ng), NEW n \in OpenEdges(p), NEW a, Justified(p, a)
  PROVE  AsTight(a, StolenBound(p, n))
<1> DEFINE u == SubSeq(p, 1, n)
           l == LastCopy(u)
<1>1. p \in Seq(EdgeType) /\ Len(p) \in Nat /\ n \in 1 .. Len(p) /\ HasWork(p[n]) /\ n \in 0 .. Len(p)
  BY OpenFinite DEF ShapeOK
<1>2. ShapeOK(Alternatives, EdgeType, u, ng) /\ Len(u) = n /\ \A j \in 1 .. n : u[j] = p[j]
  <2>1. Len(u) = n /\ \A j \in 1 .. n : u[j] = p[j]
    BY <1>1
  <2>2. ShapeOK(Alternatives, EdgeType, u, ng)
    BY <1>1, UnwindOK
  <2> QED BY <2>1, <2>2
<1>3. HasCopy(p, n)
  BY <1>1 DEF ShapeOK, CopiesOK
<1>4. HasCopy(u, Len(u))
  BY <1>1, <1>2, <1>3 DEF HasCopy
<1>5. l \in 1 .. n
  <2> HIDE DEF u
  <2>1. \A x : x = LastCopy(u) => x \in 1 .. Len(u)
    BY <1>2, <1>4, LastCopyOK
  <2> HIDE DEF l
  <2>2. l \in 1 .. Len(u)
    BY <2>1 DEF l
  <2> QED BY <1>2, <2>2
<1>6. l \in DOMAIN p
  BY <1>1, <1>5
<1> QED BY <1>6 DEF Justified, StolenBound

(* a thief takes the last alternative of an edge of its victim *)
LEMMA StealStep ==
  ASSUME TypeOK, BusyInv, BoundInv, NEW w \in Worker, NEW c \in Solution,
         StealSpace(w, c), StealTree(w, c), UNCHANGED boundVars
  PROVE  BoundInv'
<1>0. PICK v : v = victim[w]
  OBVIOUS
<1> DEFINE p == path[v]
           n == StealEdge(p, StealLimit)
           q == GiveAway(p, n)
           m == IF n - 1 < ngdl[v] THEN n - 1 ELSE ngdl[v]
           s == c.node
           x == NodeOf(cur[v])
<1>1. /\ v \in Worker /\ ~idle[v] /\ idle[w] /\ v # w /\ wpc[w] = "find"
  <2>1. v \in 0 .. NWorkers /\ v < NWorkers /\ wpc[w] = "find"
    BY <1>0 DEF StealSpace, WGoto, TypeOK, CountsOK
  <2>2. v \in Worker
    BY <2>1, NWorkersAssumption DEF Worker
  <2> QED BY <1>0, <2>1, <2>2 DEF StealSpace, BusyInv
<1>2. /\ WorkerOK(Node, Alternatives, EdgeType, p, x, d[v], ngdl[v], Cardinality(OpenEdges(p))) /\ ngdl[v] \in Nat
      /\ d[v] \in Nat /\ ShapeOK(Alternatives, EdgeType, p, ngdl[v]) /\ p \in Seq(EdgeType) /\ PointsOK(p, x, d[v])
      /\ mark[v] \in Nat /\ Tight(p, mark[v], bestOf[v]) /\ Justified(p, best)
      /\ cur[v] # NoSpace => AsTight(cur[v].bound, bestOf[v]) /\ AsTight(best, cur[v].bound)
  BY <1>1, WorkerIs DEF InOrder, Bounded, WorkerOK
<1>3. n \in OpenEdges(p) /\ n \in 1 .. Len(p)
  <2>1. Cardinality(OpenEdges(p)) > StealLimit /\ StealLimit \in Nat
    BY <1>0, OptionsAssumption DEF StealTree, CanSteal
  <2> HIDE DEF p
  <2>2. n \in OpenEdges(p)
    BY <1>2, <2>1, StealEdgeOK
  <2> QED BY <2>2, <1>2, OpenFinite
<1>4. m \in Nat /\ m <= ngdl[v] /\ Len(p) \in Nat
  BY <1>2, <1>3
<1>5. /\ c = Space(Stolen(p, n), StolenBound(p, n)) /\ path' = [path EXCEPT ![v] = q]
      /\ ngdl' = [ngdl EXCEPT ![v] = m] /\ UNCHANGED <<cur, d, mark>>
  BY <1>0 DEF StealTree
<1>6. s = Child(p[n].node, p[n].altMax) /\ s \in Node /\ AsTight(best, c.bound) /\ c # NoSpace
  <2> HIDE DEF n, p, q
  <2>1. s = Stolen(p, n) /\ c.bound = StolenBound(p, n)
    BY <1>5 DEF Space
  <2>2. Stolen(p, n) = Child(p[n].node, p[n].altMax) /\ AsTight(best, StolenBound(p, n))
    BY <1>2, <1>3, StolenIs, StolenBoundIs
  <2> QED BY <2>1, <2>2, SpaceIs
<1>7. /\ ShapeOK(Alternatives, EdgeType, q, m) /\ Pending(q) = Pending(p) \ {s}
      /\ Top(q) = Top(p) /\ PointsOK(q, x, d[v]) /\ q # <<>>
  <2> HIDE DEF n, m, p, x, s
  <2>1. \A y : y = GiveAway(p, n) =>
          /\ ShapeOK(Alternatives, EdgeType, y, m) /\ y # <<>>
          /\ Pending(y) = Pending(p) \ {Child(p[n].node, p[n].altMax)}
          /\ Top(y) = Top(p)
          /\ \A e, k : PointsOK(p, e, k) => PointsOK(y, e, k)
    BY <1>2, <1>3, <1>4, GiveAwayOK
  <2> HIDE DEF q
  <2>2. /\ ShapeOK(Alternatives, EdgeType, q, m) /\ q # <<>>
        /\ Pending(q) = Pending(p) \ {Child(p[n].node, p[n].altMax)}
        /\ Top(q) = Top(p)
        /\ \A e, k : PointsOK(p, e, k) => PointsOK(q, e, k)
    BY <2>1 DEF q
  <2> QED BY <1>2, <1>6, <2>2
<1>8. /\ q \in Seq(EdgeType) /\ Tight(q, mark[v], bestOf[v]) /\ Justified(q, best)
  <2> HIDE DEF n, p
  <2>1. q \in Seq(EdgeType) /\ Kept(q, p)
    BY <1>2, <1>3, GiveAwayKept
  <2> HIDE DEF q
  <2> QED BY <1>2, <2>1, KeptOK
<1> HIDE DEF q, m, n, s
<1>9. WorkerOK(Node, Alternatives, EdgeType, q, x, d[v], m, Cardinality(OpenEdges(q)))
  BY <1>2, <1>4, <1>7 DEF WorkerOK
<1>10. /\ path'[v] = q /\ ngdl'[v] = m /\ cur' = cur /\ d' = d /\ mark' = mark
       /\ path' \in [Worker -> Seq(EdgeType)] /\ ngdl' \in [Worker -> Nat]
       /\ \A u \in Worker : u # v => path'[u] = path[u] /\ ngdl'[u] = ngdl[u]
       /\ bestOf' = bestOf /\ best' = best /\ holder' = holder /\ told' = told
  <2>1. path \in [Worker -> Seq(EdgeType)] /\ ngdl \in [Worker -> Nat]
    BY DEF BoundInv, TreeTypeOK
  <2> QED BY <1>1, <1>4, <1>5, <1>8, <2>1 DEF boundVars
<1>11. /\ idle' = idle /\ epc' = epc /\ wpc'[w] = "busy" /\ hand'[w] = c /\ InHand(w) = {} /\ InHand(w)' = {s}
       /\ \A u \in Worker : u # w => InHand(u)' = InHand(u) /\ wpc'[u] = wpc[u] /\ hand'[u] = hand[u]
  BY <1>1, HandIs DEF StealSpace, WGoto, InHand, s
<1>12. TreeTypeOK'
  BY <1>10 DEF BoundInv, TreeTypeOK
<1>13. BoundTypeOK'
  BY <1>10 DEF BoundInv, BoundTypeOK
<1>14. WorkersOK'
  <2>1. \A u \in Worker :
          /\ WorkerOK(Node, Alternatives, EdgeType, path'[u], NodeOf(cur'[u]), d'[u], ngdl'[u], Cardinality(OpenEdges(path'[u])))
          /\ idle'[u] => cur'[u] = NoSpace /\ path'[u] = <<>>
    BY <1>1, <1>9, <1>10, <1>11 DEF BoundInv, WorkersOK
  <2> QED BY <2>1 DEF WorkersOK, WorkerOK, OpenEdges, PointsOK, ShapeOK, NodeOf
<1>15. MarkOK' /\ BestKnown'
  <2>1. \A u \in Worker :
          /\ Tight(path'[u], mark[u], bestOf[u]) /\ Justified(path'[u], best)
          /\ cur[u] # NoSpace => AsTight(cur[u].bound, bestOf[u]) /\ AsTight(best, cur[u].bound)
          /\ IF holder = Nobody \/ u < told THEN bestOf[u] = best ELSE AsTight(best, bestOf[u])
    BY <1>8, <1>10 DEF BoundInv, MarkOK, BestKnown, Tight, Justified
  <2>2. MarkOK'
    BY <1>10, <2>1 DEF MarkOK, Tight, AsTight
  <2>3. BestKnown'
    BY <1>10, <2>1 DEF BestKnown, Justified, AsTight
  <2> QED BY <2>2, <2>3
<1>16. HandsOK'
  BY <1>6, <1>10, <1>11 DEF BoundInv, HandsOK, AsTight
<1>17. HolderOK'
  BY <1>1, <1>10, <1>11 DEF BoundInv, HolderOK
<1>18. Covering'
  <2> SUFFICES ASSUME NEW y \in SolvedNodes, Better(y, best)
               PROVE  \E u \in Worker : \E z \in Frontier(u)' : Below(z, y)
    BY <1>10 DEF Covering, Better
  <2>1. PICK u \in Worker : \E z \in Frontier(u) : Below(z, y)
    BY DEF BoundInv, Covering
  <2>2. PICK z \in Frontier(u) : Below(z, y)
    BY <2>1
  <2>3. Frontier(u) = Own(path[u], NodeOf(cur[u])) \cup InHand(u)
    BY WorkerIs
  <2>4. \A t \in Worker : Frontier(t)' = Own(path'[t], NodeOf(cur[t])) \cup InHand(t)'
    BY <1>10, <1>12, FrontierIsNext
  <2>5. CASE z = s
    BY <1>11, <2>2, <2>4, <2>5
  <2>6. CASE z # s
    <3>1. z \in Frontier(u)'
      <4>1. CASE u = v
        <5>1. Own(q, x) = Own(p, x) \ {s} \/ (z \in Own(p, x) => z \in Own(q, x))
          BY <1>7, <2>6 DEF Own
        <5> QED BY <1>1, <1>10, <1>11, <2>2, <2>3, <2>4, <2>6, <4>1, <5>1
      <4>2. CASE u # v
        BY <1>10, <1>11, <2>2, <2>3, <2>4, <4>2
      <4> QED BY <4>1, <4>2
    <3> QED BY <2>2, <3>1
  <2> QED BY <2>5, <2>6
<1> QED BY <1>12, <1>13, <1>14, <1>15, <1>16, <1>17, <1>18 DEF BoundInv

(***************************************************************************)
(* The steps that leave the paths alone: control, and the announcement of  *)
(* a solution.                                                             *)
(***************************************************************************)
LEMMA SameTree ==
  ASSUME BoundInv, UNCHANGED <<treeVars, bestOf>>, idle' = idle
  PROVE  /\ TreeTypeOK' /\ WorkersOK' /\ MarkOK'
         /\ \A w \in Worker : Frontier(w)' = Own(path[w], NodeOf(cur[w])) \cup InHand(w)'
<1>1. TreeTypeOK'
  BY DEF BoundInv, TreeTypeOK, treeVars
<1>2. WorkersOK'
  BY DEF BoundInv, WorkersOK, treeVars, WorkerOK, OpenEdges, PointsOK, ShapeOK, NodeOf
<1>3. MarkOK'
  BY DEF BoundInv, MarkOK, treeVars, AsTight
<1>4. \A w \in Worker : Frontier(w)' = Own(path[w], NodeOf(cur[w])) \cup InHand(w)'
  BY <1>1, FrontierIsNext DEF treeVars
<1> QED BY <1>1, <1>2, <1>3, <1>4

(* what one worker does away with is not better than best *)
LEMMA StillCovered ==
  ASSUME BoundInv, UNCHANGED <<treeVars, bestOf, best>>, idle' = idle,
         \A w \in Worker : \A n \in InHand(w) :
           n \in InHand(w)' \/ (n \in SolvedNodes /\ ~Better(n, best))
  PROVE  Covering'
<1> SUFFICES ASSUME NEW s \in SolvedNodes, Better(s, best)
             PROVE  \E w \in Worker : \E n \in Frontier(w)' : Below(n, s)
  BY DEF Covering, Better
<1>1. PICK w \in Worker : \E n \in Frontier(w) : Below(n, s)
  BY DEF BoundInv, Covering
<1>2. PICK n \in Frontier(w) : Below(n, s)
  BY <1>1
<1>3. s \in Node /\ \A t \in SolvedNodes : Below(t, s) => t = s
  BY SolvedIs
<1>4. n \in InHand(w) => n \in InHand(w)'
  BY <1>2, <1>3
<1> QED BY <1>2, <1>4, SameTree, WorkerIs

(* neither the tree nor a bound is touched, nor what is in a hand *)
LEMMA KeepOK ==
  ASSUME BoundInv, UNCHANGED <<treeVars, boundVars>>, idle' = idle,
         \A w \in Worker :
           /\ InHand(w) \subseteq InHand(w)'
           /\ wpc'[w] = "solution" => wpc[w] = "solution" /\ hand'[w] = hand[w]
           /\ wpc'[w] \in {"busy", "take"} => wpc[w] \in {"busy", "take"} /\ hand'[w] = hand[w]
           /\ holder = w => wpc'[w] = wpc[w] /\ hand'[w] = hand[w],
         holder = Caller => epc' = epc
  PROVE  BoundInv'
<1>1. UNCHANGED <<bestOf, best, holder, told>>
  BY DEF boundVars
<1>2. TreeTypeOK' /\ WorkersOK' /\ MarkOK'
  BY <1>1, SameTree
<1>3. BoundTypeOK'
  BY <1>1 DEF BoundInv, BoundTypeOK
<1>4. BestKnown'
  BY <1>1 DEF BoundInv, BestKnown, treeVars, AsTight
<1>5. HandsOK'
  BY <1>1 DEF BoundInv, HandsOK, AsTight
<1>6. HolderOK'
  BY <1>1 DEF BoundInv, HolderOK
<1>7. Covering'
  BY <1>1, StillCovered
<1> QED BY <1>2, <1>3, <1>4, <1>5, <1>6, <1>7 DEF BoundInv

LEMMA HoldersIs == Caller # Nobody /\ Caller \notin Worker /\ Nobody \notin Worker
BY NWorkersAssumption DEF Caller, Nobody, Worker

(* a better solution becomes best, and nobody has been told *)
LEMMA BestStep ==
  ASSUME TypeOK, BoundInv, UNCHANGED <<vars, treeVars, bestOf>>, best' \in SolvedNodes, AsTight(best', best),
         holder' \in 0 .. Caller, told' = 0, HolderOK'
  PROVE  BoundInv'
<1>1. /\ best \in Bound /\ best' \in Bound /\ told \in 0 .. NWorkers /\ holder' # Nobody
      /\ bestOf \in [Worker -> Bound] /\ bestOf' = bestOf /\ path' = path /\ cur' = cur
      /\ idle' = idle /\ wpc' = wpc /\ hand' = hand
  BY NWorkersAssumption DEF BoundInv, BoundTypeOK, Bound, Caller, Nobody, treeVars, vars, workerVars
<1>2. TreeTypeOK' /\ WorkersOK' /\ MarkOK'
  BY <1>1, SameTree
<1>3. BoundTypeOK'
  BY <1>1, NWorkersAssumption DEF BoundTypeOK, Bound, Caller, Nobody
<1>4. \A b \in Bound : AsTight(best, b) => AsTight(best', b)
  BY <1>1, TightOrder
<1>5. ASSUME NEW w \in Worker
      PROVE  /\ \A i \in DOMAIN path[w] : AsTight(best', path[w][i].bound)
             /\ cur[w] # NoSpace => AsTight(best', cur[w].bound)
             /\ AsTight(best', bestOf[w])
  <2>1. /\ Justified(path[w], best) /\ AsTight(best, bestOf[w]) /\ path[w] \in Seq(EdgeType)
        /\ cur[w] # NoSpace => AsTight(best, cur[w].bound) /\ cur[w] \in Solution
    BY WorkerIs DEF Bounded, InOrder
  <2>2. \A i \in DOMAIN path[w] : path[w][i].bound \in Bound
    BY <2>1, EdgeBound
  <2>3. cur[w] # NoSpace => cur[w].bound \in Bound
    BY <2>1, SpaceIs
  <2> QED BY <1>1, <1>4, <2>1, <2>2, <2>3 DEF Justified
<1>6. BestKnown'
  <2>1. \A w \in Worker : ~(w < told')
    BY DEF Worker
  <2> QED BY <1>1, <1>5, <2>1 DEF BestKnown, AsTight
<1>7. HandsOK'
  <2> SUFFICES ASSUME NEW w \in Worker, wpc[w] \in {"busy", "take"} PROVE AsTight(best', hand[w].bound)
    BY <1>1 DEF BoundInv, HandsOK, AsTight
  <2>1. AsTight(best, hand[w].bound)
    BY DEF BoundInv, HandsOK
  <2>2. hand[w].bound \in Bound
    BY HandIs
  <2> QED BY <1>4, <2>1, <2>2
<1>8. Covering'
  <2> SUFFICES ASSUME NEW s \in SolvedNodes, Better(s, best')
               PROVE  \E w \in Worker : \E n \in Frontier(w)' : Below(n, s)
    BY DEF Covering, Better
  <2>1. Better(s, best)
    BY <1>1, TightOrder
  <2>2. PICK w \in Worker : \E n \in Frontier(w) : Below(n, s)
    BY <2>1 DEF BoundInv, Covering
  <2>3. Frontier(w)' = Frontier(w)
    BY <1>1, SameTree, WorkerIs DEF InHand
  <2> QED BY <2>2, <2>3
<1> QED BY <1>2, <1>3, <1>6, <1>7, <1>8 DEF BoundInv

(* everybody has been told *)
LEMMA ToldStep ==
  ASSUME BoundInv, UNCHANGED <<treeVars, bestOf, best>>, idle' = idle,
         holder # Nobody, told = NWorkers, holder' = Nobody, told' = 0,
         \A w \in Worker :
           /\ \A n \in InHand(w) : n \in InHand(w)' \/ (n \in SolvedNodes /\ ~Better(n, best))
           /\ wpc'[w] \in {"solution", "busy", "take"} => wpc'[w] = wpc[w] /\ hand'[w] = hand[w]
  PROVE  BoundInv'
<1>1. TreeTypeOK' /\ WorkersOK' /\ MarkOK'
  BY SameTree
<1>2. BoundTypeOK'
  BY NWorkersAssumption DEF BoundInv, BoundTypeOK, Nobody
<1>3. BestKnown'
  <2>1. \A w \in Worker : bestOf[w] = best
    BY NWorkersAssumption DEF BoundInv, BestKnown, Worker
  <2> QED BY <2>1 DEF BoundInv, BestKnown, treeVars, AsTight
<1>4. HandsOK'
  BY DEF BoundInv, HandsOK, AsTight
<1>5. HolderOK'
  BY HoldersIs DEF HolderOK
<1>6. Covering'
  BY StillCovered
<1> QED BY <1>1, <1>2, <1>3, <1>4, <1>5, <1>6 DEF BoundInv

LEMMA AcceptStep ==
  ASSUME TypeOK, BoundInv, NEW w \in Worker, Accept(w)
  PROVE  BoundInv'
<1>1. hand[w].node \in SolvedNodes /\ best' = hand[w].node /\ Better(best', best) /\ best \in Bound
  BY DEF Accept, BoundInv, HandsOK, BoundTypeOK
<1>2. AsTight(best', best) /\ best' # NoSpace
  BY <1>1, TightOrder, SolvedIs
<1>3. holder' = w /\ told' = 0 /\ UNCHANGED <<vars, treeVars, bestOf>> /\ wpc[w] = "solution"
  BY DEF Accept
<1>4. HolderOK'
  BY <1>1, <1>2, <1>3, HoldersIs DEF HolderOK, vars, workerVars
<1>5. w \in 0 .. Caller
  BY NWorkersAssumption DEF Worker, Caller
<1> QED BY <1>1, <1>2, <1>3, <1>4, <1>5, BestStep

LEMMA ConstrainStep ==
  ASSUME TypeOK, BoundInv, NEW b \in SolvedNodes, Constrain(b)
  PROVE  BoundInv'
<1>1. UNCHANGED <<vars, treeVars, bestOf>> /\ best \in Bound
  BY DEF Constrain, BoundInv, BoundTypeOK
<1>2. CASE best # NoSpace /\ Better(best, b)
  <2>1. UNCHANGED boundVars /\ idle' = idle /\ wpc' = wpc /\ hand' = hand /\ epc' = epc
    BY <1>1, <1>2 DEF Constrain, boundVars, vars, workerVars
  <2> QED BY <1>1, <2>1, KeepOK DEF InHand
<1>3. CASE ~(best # NoSpace /\ Better(best, b))
  <2>1. best' = b /\ holder' = Caller /\ told' = 0 /\ epc = "user"
    BY <1>3 DEF Constrain
  <2>2. AsTight(b, best)
    <3>1. CASE best = NoSpace
      BY <3>1 DEF AsTight
    <3>2. CASE best # NoSpace
      BY <1>1, <1>3, <3>2, TightOrder DEF Bound
    <3> QED BY <3>1, <3>2
  <2>3. HolderOK' /\ Caller \in 0 .. Caller
    BY <1>1, <2>1, HoldersIs, SolvedIs, NWorkersAssumption DEF HolderOK, vars, Caller
  <2> QED BY <1>1, <2>1, <2>2, <2>3, BestStep
<1> QED BY <1>2, <1>3

LEMMA TellStep ==
  ASSUME TypeOK, BoundInv, Tell
  PROVE  BoundInv'
<1> DEFINE w == told
           c == Constrained(cur[w], best)
<1>1. w \in Worker /\ told \in 0 .. NWorkers
  BY NWorkersAssumption DEF Tell, BoundInv, BoundTypeOK, Worker
<1>2. /\ cur' = [cur EXCEPT ![w] = c] /\ bestOf' = [bestOf EXCEPT ![w] = best]
      /\ mark' = [mark EXCEPT ![w] = Len(path[w])] /\ told' = told + 1
      /\ holder # Nobody /\ told < NWorkers
      /\ UNCHANGED <<vars, path, d, ngdl, best, holder>>
  BY DEF Tell
<1>3. /\ cur \in [Worker -> Solution \cup {NoSpace}] /\ path \in [Worker -> Seq(EdgeType)]
      /\ d \in [Worker -> Nat] /\ ngdl \in [Worker -> Nat] /\ mark \in [Worker -> Nat]
      /\ bestOf \in [Worker -> Bound] /\ best \in Bound
  BY DEF BoundInv, TreeTypeOK, BoundTypeOK
<1>4. idle' = idle /\ wpc' = wpc /\ hand' = hand /\ epc' = epc
  BY <1>2 DEF vars, workerVars
<1>5. /\ c \in Solution \cup {NoSpace} /\ NodeOf(c) = NodeOf(cur[w])
      /\ c = NoSpace <=> cur[w] = NoSpace
      /\ c # NoSpace => c.bound = Tighter(best, cur[w].bound) /\ cur[w].bound \in Bound
  BY <1>1, <1>3, ConstrainedIs, SpaceIs
<1> HIDE DEF c
<1>6. c # NoSpace => AsTight(c.bound, best) /\ AsTight(best, c.bound)
  <2> SUFFICES ASSUME c # NoSpace PROVE AsTight(c.bound, best) /\ AsTight(best, c.bound)
    OBVIOUS
  <2>1. AsTight(best, cur[w].bound) /\ AsTight(best, best)
    BY <1>1, <1>3, <1>5, WorkerIs, TightOrder DEF Bounded
  <2> QED BY <1>3, <1>5, <2>1, TighterIs
<1>7. /\ cur'[w] = c /\ bestOf'[w] = best /\ mark'[w] = Len(path[w]) /\ Len(path[w]) \in Nat
      /\ DOMAIN path[w] = 1 .. Len(path[w])
      /\ \A v \in Worker : v # w => cur'[v] = cur[v] /\ bestOf'[v] = bestOf[v] /\ mark'[v] = mark[v]
      /\ path' = path /\ d' = d /\ ngdl' = ngdl /\ best' = best /\ holder' = holder
  BY <1>1, <1>2, <1>3
<1> HIDE DEF w
<1>8. TreeTypeOK'
  BY <1>2, <1>3, <1>5, <1>7 DEF TreeTypeOK
<1>9. BoundTypeOK'
  BY <1>1, <1>2, <1>3, <1>7, NWorkersAssumption DEF BoundInv, BoundTypeOK
<1>10. \A v \in Worker : NodeOf(cur'[v]) = NodeOf(cur[v]) /\ (cur'[v] = NoSpace <=> cur[v] = NoSpace)
  BY <1>5, <1>7
<1>11. WorkersOK'
  <2>1. \A v \in Worker :
          /\ WorkerOK(Node, Alternatives, EdgeType, path'[v], NodeOf(cur'[v]), d'[v], ngdl'[v], Cardinality(OpenEdges(path'[v])))
          /\ idle'[v] => cur'[v] = NoSpace /\ path'[v] = <<>>
    BY <1>4, <1>7, <1>10 DEF BoundInv, WorkersOK
  <2> QED BY <2>1 DEF WorkersOK, WorkerOK, OpenEdges, PointsOK, ShapeOK, NodeOf
<1>12. MarkOK'
  <2>1. \A v \in Worker :
          /\ \A i \in DOMAIN path[v] :
               path[v][i].space # NoSpace /\ i > mark'[v] => AsTight(path[v][i].bound, bestOf'[v])
          /\ cur'[v] # NoSpace => AsTight(cur'[v].bound, bestOf'[v])
    BY <1>6, <1>7 DEF BoundInv, MarkOK
  <2> QED BY <1>7, <2>1 DEF MarkOK, AsTight
<1>13. BestKnown'
  <2>1. \A v \in Worker : v < told' => v = w \/ v < told
    BY <1>1, <1>2 DEF Worker, w
  <2>2. \A v \in Worker :
          /\ \A i \in DOMAIN path[v] : AsTight(best, path[v][i].bound)
          /\ cur'[v] # NoSpace => AsTight(best, cur'[v].bound)
          /\ IF v < told' THEN bestOf'[v] = best ELSE AsTight(best, bestOf'[v])
    <3> TAKE v \in Worker
    <3>1. /\ \A i \in DOMAIN path[v] : AsTight(best, path[v][i].bound)
          /\ cur'[v] # NoSpace => AsTight(best, cur'[v].bound)
      BY <1>6, <1>7 DEF BoundInv, BestKnown
    <3>2. IF v < told' THEN bestOf'[v] = best ELSE AsTight(best, bestOf'[v])
      <4>1. CASE v = w
        BY <4>1, <1>3, <1>7, TightOrder
      <4>2. CASE v # w
        BY <4>2, <1>2, <1>7, <2>1, WorkerIs DEF BoundInv, BestKnown
      <4> QED BY <4>1, <4>2
    <3> QED BY <3>1, <3>2
  <2> QED BY <1>2, <1>7, <2>2 DEF BestKnown, AsTight
<1>14. HandsOK'
  BY <1>4, <1>7 DEF BoundInv, HandsOK, AsTight
<1>15. HolderOK'
  BY <1>4, <1>7 DEF BoundInv, HolderOK
<1>16. Covering'
  <2>1. \A v \in Worker : Frontier(v)' = Own(path'[v], NodeOf(cur'[v])) \cup InHand(v)'
    BY <1>8, FrontierIsNext
  <2>2. \A v \in Worker : Frontier(v)' = Frontier(v)
    <3> TAKE v \in Worker
    <3>1. InHand(v)' = InHand(v)
      BY <1>4 DEF InHand
    <3>2. Frontier(v) = Own(path[v], NodeOf(cur[v])) \cup InHand(v)
      BY WorkerIs
    <3> QED BY <1>7, <1>10, <2>1, <3>1, <3>2
  <2> QED BY <1>7, <2>2 DEF BoundInv, Covering, Better
<1> QED BY <1>8, <1>9, <1>11, <1>12, <1>13, <1>14, <1>15, <1>16 DEF BoundInv

(* what was reported was best *)
LEMMA ReportStep ==
  ASSUME TypeOK, BoundInv, NEW w \in Worker, Report(w), wpc[w] = "solution"
  PROVE  BoundInv'
<1>1. /\ holder = w /\ told = NWorkers /\ holder' = Nobody /\ told' = 0
      /\ UNCHANGED <<treeVars, bestOf, best>>
  BY DEF Report
<1>2. ReportSolution(w)
  BY DEF Report, WorkerControl, Poll, Wait, ReportIdle, ReportStop, StartFind, FindNothing, ReportBusy,
         AckResetStart, WaitReset, AckResetStop, AckTerminate, WaitTerminate, Delete, Terminated,
         SignalTerminated, WGoto
<1>3. /\ idle' = idle /\ wpc'[w] = "loop"
      /\ \A v \in Worker : v # w => wpc'[v] = wpc[v] /\ hand'[v] = hand[v]
  BY <1>2, HandIs DEF ReportSolution, WGoto
<1>4. hand[w].node = best /\ best \in SolvedNodes /\ ~Better(best, best)
  <2>1. hand[w].node = best /\ hand[w].node \in SolvedNodes
    BY <1>1 DEF BoundInv, HolderOK, HandsOK
  <2> QED BY <2>1, TightOrder
<1>5. \A v \in Worker : \A n \in InHand(v) : n \in InHand(v)' \/ (n \in SolvedNodes /\ ~Better(n, best))
  BY <1>3, <1>4 DEF InHand
<1>6. holder # Nobody
  BY <1>1, HoldersIs
<1>7. \A v \in Worker : wpc'[v] \in {"solution", "busy", "take"} => wpc'[v] = wpc[v] /\ hand'[v] = hand[v]
  BY <1>3
<1> QED BY <1>1, <1>3, <1>5, <1>6, <1>7, ToldStep

LEMMA DiscardStep ==
  ASSUME TypeOK, BoundInv, NEW w \in Worker, DiscardLate(w)
  PROVE  BoundInv'
<1>1. /\ holder = Nobody /\ ~Better(hand[w].node, best) /\ wpc[w] = "solution"
      /\ UNCHANGED <<treeVars, boundVars, epc>> /\ idle' = idle /\ wpc'[w] = "loop"
      /\ \A v \in Worker : v # w => wpc'[v] = wpc[v] /\ hand'[v] = hand[v]
  BY HandIs DEF DiscardLate, DiscardSolution, WGoto
<1>2. UNCHANGED <<bestOf, best, holder, told>>
  BY <1>1 DEF boundVars
<1>3. hand[w].node \in SolvedNodes
  BY <1>1 DEF BoundInv, HandsOK
<1>4. TreeTypeOK' /\ WorkersOK' /\ MarkOK'
  BY <1>1, <1>2, SameTree
<1>5. BoundTypeOK'
  BY <1>2 DEF BoundInv, BoundTypeOK
<1>6. BestKnown'
  BY <1>1, <1>2 DEF BoundInv, BestKnown, treeVars, AsTight
<1>7. HandsOK' /\ HolderOK'
  BY <1>1, <1>2, HoldersIs DEF BoundInv, HandsOK, HolderOK, AsTight
<1>8. Covering'
  <2>1. \A v \in Worker : \A n \in InHand(v) : n \in InHand(v)' \/ (n \in SolvedNodes /\ ~Better(n, best))
    BY <1>1, <1>3 DEF InHand
  <2> QED BY <1>1, <1>2, <2>1, StillCovered
<1> QED BY <1>4, <1>5, <1>6, <1>7, <1>8 DEF BoundInv

LEMMA ConstrainReturnsStep ==
  ASSUME BoundInv, ConstrainReturns
  PROVE  BoundInv'
<1>1. /\ holder # Nobody /\ told = NWorkers /\ holder' = Nobody /\ told' = 0
      /\ UNCHANGED <<treeVars, bestOf, best>> /\ idle' = idle /\ wpc' = wpc /\ hand' = hand
  BY HoldersIs DEF ConstrainReturns, vars, workerVars
<1> QED BY <1>1, ToldStep DEF InHand

(* all other control *)
LEMMA ControlKeeps ==
  ASSUME TypeOK, NEW w \in Worker,
         \/ WorkerControl(w) /\ wpc[w] # "solution"
         \/ Stopped(w) \/ StealNothing(w)
  PROVE  /\ idle' = idle /\ UNCHANGED epc
         /\ \A v \in Worker :
              /\ InHand(v) \subseteq InHand(v)'
              /\ wpc'[v] = "solution" => wpc[v] = "solution" /\ hand'[v] = hand[v]
              /\ wpc'[v] \in {"busy", "take"} => wpc[v] \in {"busy", "take"} /\ hand'[v] = hand[v]
              /\ wpc[v] = "solution" => wpc'[v] = wpc[v] /\ hand'[v] = hand[v]
<1>1. wpc \in [Worker -> WorkerPC] /\ cmd \in {"work", "wait", "reset", "terminate"}
  BY DEF TypeOK, ControlOK
<1>2. CASE Poll(w)
  <2>1. /\ hand' = hand /\ idle' = idle /\ UNCHANGED epc /\ wpc[w] = "loop"
        /\ wpc'[w] \notin {"busy", "take", "solution"}
        /\ \A v \in Worker : v # w => wpc'[v] = wpc[v]
    BY <1>1, <1>2 DEF Poll, PollTarget, WGoto
  <2> QED BY <2>1 DEF InHand
<1>3. CASE ReportBusy(w)
  <2>1. /\ hand' = hand /\ idle' = idle /\ UNCHANGED epc /\ wpc[w] = "busy" /\ wpc'[w] = "take"
        /\ \A v \in Worker : v # w => wpc'[v] = wpc[v]
    BY <1>1, <1>3 DEF ReportBusy, WGoto
  <2> QED BY <2>1 DEF InHand
<1>4. CASE StealNothing(w)
  <2>1. hand' = hand /\ idle' = idle /\ UNCHANGED epc /\ wpc' = wpc
    BY <1>4 DEF StealNothing
  <2> QED BY <2>1 DEF InHand
<1>5. CASE \/ Wait(w) \/ ReportIdle(w) \/ ReportStop(w) \/ StartFind(w) \/ FindNothing(w)
           \/ AckResetStart(w) \/ WaitReset(w) \/ AckResetStop(w) \/ Stopped(w)
           \/ AckTerminate(w) \/ WaitTerminate(w) \/ Delete(w) \/ Terminated(w) \/ SignalTerminated(w)
  <2>1. \A pc : WGoto(w, wpc[w], pc) => \A v \in Worker : v # w => wpc'[v] = wpc[v]
    BY <1>1 DEF WGoto
  <2>2. /\ hand' = hand /\ idle' = idle /\ UNCHANGED epc
        /\ \A v \in Worker : v # w => wpc'[v] = wpc[v]
    BY <1>1, <1>5 DEF Wait, ReportIdle, ReportStop, StartFind, FindNothing,
         AckResetStart, WaitReset, AckResetStop, Stopped, WGoto,
         AckTerminate, WaitTerminate, Delete, Terminated, SignalTerminated
  <2>3. wpc[w] \notin {"busy", "take", "solution"} /\ wpc'[w] \notin {"busy", "take", "solution"}
    BY <1>1, <1>5 DEF Wait, ReportIdle, ReportStop, StartFind, FindNothing,
         AckResetStart, WaitReset, AckResetStop, Stopped, WGoto,
         AckTerminate, WaitTerminate, Delete, Terminated, SignalTerminated
  <2> QED BY <2>2, <2>3 DEF InHand
<1>6. CASE ReportSolution(w) /\ wpc[w] # "solution"
  BY <1>6 DEF ReportSolution, WGoto
<1> QED BY <1>2, <1>3, <1>4, <1>5, <1>6 DEF WorkerControl

LEMMA ControlKeepsBounds ==
  ASSUME TypeOK, BoundInv, NEW w \in Worker, UNCHANGED <<treeVars, boundVars>>,
         \/ WorkerControl(w) /\ wpc[w] # "solution"
         \/ Stopped(w) \/ StealNothing(w)
  PROVE  BoundInv'
<1>1. /\ idle' = idle /\ UNCHANGED epc
      /\ \A v \in Worker :
           /\ InHand(v) \subseteq InHand(v)'
           /\ wpc'[v] = "solution" => wpc[v] = "solution" /\ hand'[v] = hand[v]
           /\ wpc'[v] \in {"busy", "take"} => wpc[v] \in {"busy", "take"} /\ hand'[v] = hand[v]
           /\ wpc[v] = "solution" => wpc'[v] = wpc[v] /\ hand'[v] = hand[v]
  BY ControlKeeps
<1>2. \A v \in Worker : holder = v => wpc[v] = "solution"
  BY DEF BoundInv, HolderOK
<1> QED BY <1>1, <1>2, KeepOK

LEMMA WorkerStepOK ==
  ASSUME TypeOK, BusyInv, BoundInv, NEW w \in Worker, WorkerStep(w)
  PROVE  BoundInv'
<1>1. CASE Report(w) /\ wpc[w] = "solution"
  BY <1>1, ReportStep
<1>2. CASE Report(w) /\ wpc[w] # "solution"
  BY <1>2, ControlKeepsBounds DEF Report, boundVars
<1>3. CASE DiscardLate(w)
  BY <1>3, DiscardStep
<1>4. CASE Accept(w)
  BY <1>4, AcceptStep
<1>5. CASE SearchStep(w)
  <2>1. UNCHANGED boundVars
    BY <1>5 DEF SearchStep
  <2>2. CASE Explore(w) /\ ExploreTree(w)
    BY <2>1, <2>2, FailedStep, BranchStep, RecomputeStep DEF ExploreTree
  <2>3. CASE (Stopped(w) \/ StealNothing(w)) /\ UNCHANGED treeVars
    BY <2>1, <2>3, ControlKeepsBounds
  <2>4. CASE cur[w] # NoSpace /\ Solved(w, Space(cur[w].node, NoSpace)) /\ SolvedTree(w)
    BY <2>1, <2>4, SolvedStep
  <2>5. CASE RunDry(w) /\ RunDryTree(w)
    BY <2>1, <2>5, RunDryStep
  <2>6. CASE \E c \in Solution : StealSpace(w, c) /\ StealTree(w, c)
    BY <2>1, <2>6, StealStep
  <2>7. CASE Take(w) /\ TakeTree(w)
    BY <2>1, <2>7, TakeStep
  <2> QED BY <1>5, <2>2, <2>3, <2>4, <2>5, <2>6, <2>7 DEF SearchStep
<1> QED BY <1>1, <1>2, <1>3, <1>4, <1>5 DEF WorkerStep

(***************************************************************************)
(* The steps of the engine.                                                *)
(***************************************************************************)
(* what the constructor and reset() establish *)
LEMMA AllNew ==
  /\ Root \in Solution \cup {NoSpace} /\ NodeOf(NoSpace) = NoSpace
  /\ WorkerOK(Node, Alternatives, EdgeType, <<>>, NodeOf(Root), 0, NogoodsLimit, Cardinality(OpenEdges(<<>>)))
  /\ WorkerOK(Node, Alternatives, EdgeType, <<>>, NoSpace, 0, 0, Cardinality(OpenEdges(<<>>)))
  /\ Root # NoSpace => Root.bound = NoSpace /\ NodeOf(Root) = <<>> /\ Own(<<>>, NodeOf(Root)) = {<<>>}
  /\ Root = NoSpace => \A s \in SolvedNodes : ~Below(<<>>, s)
  /\ Tight(<<>>, 0, NoSpace) /\ Justified(<<>>, NoSpace)
<1>1. <<>> \in Node /\ NoSpace \in Bound /\ NoSpace \notin Node
  BY NodeSeq DEF Bound
<1>2. Root \in Solution \cup {NoSpace} /\ (Root = NoSpace <=> Failed(<<>>))
      /\ (Root # NoSpace => Root.bound = NoSpace /\ Root.node = <<>>)
  BY <1>1, SpaceIs DEF Root
<1> HIDE DEF Root
<1>3. NodeOf(Root) \in Node \cup {NoSpace} /\ NodeOf(NoSpace) = NoSpace
      /\ (Root # NoSpace => NodeOf(Root) = <<>>)
  BY <1>1, <1>2 DEF NodeOf
<1>4. \A k \in Nat : \A c \in Node \cup {NoSpace} : WorkerOK(Node, Alternatives, EdgeType, <<>>, c, 0, k, 0)
  BY NothingLeft
<1>5. Cardinality(OpenEdges(<<>>)) = 0
  BY NothingLeft, FS_EmptySet
<1>6. Root # NoSpace => Own(<<>>, NodeOf(Root)) = {<<>>}
  BY <1>1, <1>3, NothingLeft DEF Own
<1>7. Root = NoSpace => \A s \in SolvedNodes : ~Below(<<>>, s)
  BY <1>1, <1>2, FailedIs
<1>8. Tight(<<>>, 0, NoSpace) /\ Justified(<<>>, NoSpace)
  BY DEF Tight, Justified
<1> QED BY <1>2, <1>3, <1>4, <1>5, <1>6, <1>7, <1>8, OptionsAssumption

(* worker 0 has the root, the others have nothing, and no solution is known *)
Anew(c, p, k, ng, m, B, b, h) ==
  /\ c = [w \in Worker |-> IF w = 0 THEN Root ELSE NoSpace]
  /\ p = [w \in Worker |-> <<>>]
  /\ k = [w \in Worker |-> 0]
  /\ ng = [w \in Worker |-> IF w = 0 THEN NogoodsLimit ELSE 0]
  /\ m = [w \in Worker |-> 0]
  /\ B = [w \in Worker |-> NoSpace] /\ b = NoSpace /\ h = Nobody

LEMMA AnewOK ==
  ASSUME Anew(cur, path, d, ngdl, mark, bestOf, best, holder), told \in 0 .. NWorkers,
         \A w \in Worker : ~idle[w] /\ wpc[w] \notin {"busy", "take", "solution"}
  PROVE  BoundInv
<1>1. /\ cur = [w \in Worker |-> IF w = 0 THEN Root ELSE NoSpace]
      /\ path = [w \in Worker |-> <<>>]
      /\ d = [w \in Worker |-> 0]
      /\ ngdl = [w \in Worker |-> IF w = 0 THEN NogoodsLimit ELSE 0]
      /\ mark = [w \in Worker |-> 0]
      /\ bestOf = [w \in Worker |-> NoSpace] /\ best = NoSpace /\ holder = Nobody
  BY DEF Anew
<1> HIDE DEF Root
<1>2. TreeTypeOK
  <2>1. <<>> \in Seq(EdgeType) /\ NogoodsLimit \in Nat
    BY OptionsAssumption
  <2> QED BY <1>1, <2>1, AllNew DEF TreeTypeOK
<1>3. BoundTypeOK
  <2>1. NoSpace \in Bound /\ Nobody \in 0 .. Nobody
    BY NWorkersAssumption DEF Bound, Nobody
  <2> QED BY <1>1, <2>1 DEF BoundTypeOK
<1>4. WorkersOK
  BY <1>1, AllNew DEF WorkersOK
<1>5. MarkOK
  BY <1>1, AllNew DEF MarkOK, AsTight
<1>6. BestKnown
  BY <1>1, AllNew DEF BestKnown, AsTight
<1>7. HandsOK /\ HolderOK
  BY <1>1, HoldersIs DEF HandsOK, HolderOK
<1>8. Covering
  <2> SUFFICES ASSUME NEW s \in SolvedNodes
               PROVE  \E w \in Worker : \E n \in Frontier(w) : Below(n, s)
    BY DEF Covering
  <2>1. 0 \in Worker
    BY NWorkersAssumption DEF Worker
  <2>2. s \in Node /\ Below(<<>>, s)
    BY SolvedIs, BelowOrder
  <2>3. Root # NoSpace
    BY <2>2, AllNew
  <2>4. Frontier(0) = Own(<<>>, NodeOf(Root)) \cup InHand(0)
    BY <1>1, <1>2, <2>1, FrontierIs
  <2>5. <<>> \in Frontier(0)
    BY <2>3, <2>4, AllNew
  <2> QED BY <2>1, <2>2, <2>5
<1> QED BY <1>2, <1>3, <1>4, <1>5, <1>6, <1>7, <1>8 DEF BoundInv

LEMMA BoundInit == BABInit => BoundInv
<1> SUFFICES ASSUME BABInit PROVE BoundInv
  OBVIOUS
<1>1. Anew(cur, path, d, ngdl, mark, bestOf, best, holder) /\ told = 0
  BY DEF BABInit, Anew
<1>2. \A w \in Worker : idle[w] = FALSE /\ wpc[w] = "loop"
  BY DEF BABInit, Init
<1>3. told \in 0 .. NWorkers
  BY <1>1, NWorkersAssumption
<1> QED BY <1>1, <1>2, <1>3, AnewOK

(* every step of the engine leaves control points and hands alone *)
LEMMA EngineIs ==
  ASSUME EngineNext \/ EngineReset \/ EngineTerm
  PROVE  wpc' = wpc /\ hand' = hand /\ (idle' = idle \/ (epc = "reset_do" /\ idle' = [w \in Worker |-> FALSE]))
<1>1. CASE EngineNext \/ EngineTerm
  BY <1>1 DEF EngineNext, NextCall, SetCmd, ReleaseWait, AcquireWait, NextWait, NextCheck,
              EngineTerm, TermCall, TermWait, TermUnlock, TermEnd, workerVars
<1>2. CASE EngineReset
  BY <1>2 DEF EngineReset, ResetCall, SetCmd, ReleaseWait, ResetWait, ResetDo, NogoodsDo,
              AcquireWait, ResetUnlock, ResetEnd, EGoto, workerVars
<1> QED BY <1>1, <1>2

LEMMA ResetStep ==
  ASSUME TypeOK, ResetExclusive, BoundInv, EngineReset, epc = "reset_do", ResetTree,
         UNCHANGED <<holder, told>>, holder # Caller
  PROVE  BoundInv'
<1>1. wpc' = wpc /\ \A w \in Worker : wpc[w] = "reset_wait"
  BY EngineIs DEF ResetExclusive
<1>2. idle' = [w \in Worker |-> FALSE]
  BY DEF EngineReset, ResetCall, SetCmd, ReleaseWait, ResetWait, ResetDo, NogoodsDo,
         AcquireWait, ResetUnlock, ResetEnd, EGoto
<1>3. holder = Nobody
  <2>1. holder \in 0 .. Nobody /\ holder \notin Worker
    BY <1>1 DEF BoundInv, BoundTypeOK, HolderOK
  <2> QED BY <2>1, NWorkersAssumption DEF Worker, Caller, Nobody
<1>4. Anew(cur, path, d, ngdl, mark, bestOf, best, holder)'
  BY <1>3 DEF ResetTree, Anew, Root
<1>5. (\A w \in Worker : ~idle[w] /\ wpc[w] \notin {"busy", "take", "solution"})'
  BY <1>1, <1>2
<1>6. (told \in 0 .. NWorkers)'
  BY DEF BoundInv, BoundTypeOK
<1> QED BY <1>4, <1>5, <1>6, AnewOK, PTL

LEMMA EngineBABStep ==
  ASSUME TypeOK, ResetExclusive, BoundInv, EngineStepBAB
  PROVE  BoundInv'
<1>1. CASE \/ CallNext \/ (EngineTerm /\ UNCHANGED <<treeVars, boundVars, history>>)
           \/ (CallReset /\ epc # "reset_do")
  <2>1. UNCHANGED <<treeVars, boundVars>> /\ (EngineNext \/ EngineTerm \/ EngineReset)
    BY <1>1 DEF CallNext, CallReset, boundVars
  <2>2. wpc' = wpc /\ hand' = hand /\ idle' = idle
    <3>1. CASE epc = "reset_do"
      BY <1>1, <3>1, EngineIs DEF CallNext, EngineNext, NextCall, SetCmd, ReleaseWait, AcquireWait,
         NextWait, NextCheck, EngineTerm, TermCall, TermWait, TermUnlock, TermEnd, EGoto
    <3>2. CASE epc # "reset_do"
      BY <2>1, <3>2, EngineIs
    <3> QED BY <3>1, <3>2
  <2>3. holder # Caller
    BY DEF EngineStepBAB
  <2> QED BY <2>1, <2>2, <2>3, KeepOK DEF InHand
<1>2. CASE CallReset /\ epc = "reset_do"
  BY <1>2, ResetStep DEF CallReset, EngineStepBAB
<1> QED BY <1>1, <1>2 DEF EngineStepBAB

LEMMA BoundStep ==
  TypeOK /\ ResetExclusive /\ BusyInv /\ BoundInv /\ [BABNext]_babVars => BoundInv'
<1> SUFFICES ASSUME TypeOK, ResetExclusive, BusyInv, BoundInv, [BABNext]_babVars PROVE BoundInv'
  OBVIOUS
<1>1. CASE EngineStepBAB
  BY <1>1, EngineBABStep
<1>2. ASSUME NEW w \in Worker, WorkerStep(w) PROVE BoundInv'
  BY <1>2, WorkerStepOK
<1>3. CASE Tell
  BY <1>3, TellStep
<1>4. CASE ConstrainReturns
  BY <1>4, ConstrainReturnsStep
<1>5. ASSUME NEW b \in SolvedNodes, Constrain(b) PROVE BoundInv'
  BY <1>5, ConstrainStep
<1>6. CASE UNCHANGED babVars
  <2>1. UNCHANGED <<treeVars, boundVars>> /\ idle' = idle /\ wpc' = wpc /\ hand' = hand /\ epc' = epc
    BY <1>6 DEF babVars, vars, workerVars
  <2> QED BY <2>1, KeepOK DEF InHand
<1> QED BY <1>1, <1>2, <1>3, <1>4, <1>5, <1>6 DEF BABNext

LEMMA EngineInvs == BABSpec => [](TypeOK /\ ResetExclusive /\ BusyInv)
BY BABImplementsEngine, TypeCorrect, ResetIsExclusive, BusyInvCorrect, PTL

LEMMA BoundInvCorrect == BABSpec => []BoundInv
BY EngineInvs, BoundInit, BoundStep, PTL DEF BABSpec

(***************************************************************************)
(* The inductive invariant of the queue of solutions q: but for the first  *)
(* s, which are older than the last reset or constrain, each is better     *)
(* than the one before it and the first better than t, the last returned.  *)
(* best, b, is at least as tight as all of them, and tighter while one is  *)
(* being announced.                                                        *)
(***************************************************************************)
SolvedOnly(q) == \A i \in DOMAIN q : q[i].node \in SolvedNodes
InLine(q, s, t, b) ==
  /\ s <= Len(q) /\ AsTight(b, t)
  /\ \A i \in s + 1 .. Len(q) : Better(q[i].node, t) /\ AsTight(b, q[i].node)
  /\ \A i, j \in s + 1 .. Len(q) : i < j => Better(q[j].node, q[i].node)
Ahead(q, s, t, b) == Better(b, t) /\ \A i \in s + 1 .. Len(q) : Better(b, q[i].node)

QueueInv ==
  /\ stale \in Nat /\ standard \in Bound /\ SolvedOnly(solutions)
  /\ epc # "destroyed" =>
       /\ InLine(solutions, stale, standard, best)
       /\ holder \in Worker => Ahead(solutions, stale, standard, best)

(* next() takes the first solution *)
LEMMA TakenOK ==
  ASSUME NEW q \in Seq(Solution), SolvedOnly(q), q # <<>>, NEW s \in Nat, NEW t \in Bound, NEW b \in Bound,
         InLine(q, s, t, b)
  PROVE  /\ Tail(q) \in Seq(Solution) /\ SolvedOnly(Tail(q))
         /\ s > 0 => InLine(Tail(q), s - 1, t, b) /\ s - 1 \in Nat
         /\ s = 0 => /\ Better(Head(q).node, t) /\ InLine(Tail(q), 0, Head(q).node, b)
                     /\ Head(q).node \in Bound
<1> DEFINE r == Tail(q)
<1>1. /\ r \in Seq(Solution) /\ Len(r) = Len(q) - 1 /\ Len(q) \in Nat \ {0} /\ DOMAIN q = 1 .. Len(q)
      /\ DOMAIN r = 1 .. Len(r) /\ Head(q) = q[1] /\ 1 \in DOMAIN q
      /\ \A i \in 1 .. Len(r) : r[i] = q[i + 1] /\ i + 1 \in 1 .. Len(q)
  OBVIOUS
<1> HIDE DEF r
<1>2. SolvedOnly(r)
  BY <1>1 DEF SolvedOnly
<1>3. ASSUME s > 0 PROVE InLine(r, s - 1, t, b)
  <2>1. s - 1 <= Len(r) /\ \A i \in (s - 1) + 1 .. Len(r) : i \in 1 .. Len(r) /\ i + 1 \in s + 1 .. Len(q)
    BY <1>1, <1>3 DEF InLine
  <2>2. \A i \in (s - 1) + 1 .. Len(r) : r[i] = q[i + 1]
    BY <1>1, <2>1
  <2>3. \A i, j \in (s - 1) + 1 .. Len(r) : i < j => i + 1 < j + 1
    BY <1>1
  <2> QED BY <2>1, <2>2, <2>3 DEF InLine
<1>4. ASSUME s = 0 PROVE Better(q[1].node, t) /\ InLine(r, 0, q[1].node, b) /\ q[1].node \in Bound
  <2>1. 1 \in s + 1 .. Len(q) /\ \A i \in 0 + 1 .. Len(r) : i \in 1 .. Len(r) /\ i + 1 \in s + 1 .. Len(q) /\ 1 < i + 1
    BY <1>1, <1>4
  <2>2. \A i \in 0 + 1 .. Len(r) : r[i] = q[i + 1]
    BY <1>1, <2>1
  <2>3. \A i, j \in 0 + 1 .. Len(r) : i < j => i + 1 < j + 1
    BY <1>1
  <2>4. q[1].node \in Bound
    BY <1>1 DEF SolvedOnly, Bound
  <2>5. 0 <= Len(r)
    BY <1>1
  <2> QED BY <2>1, <2>2, <2>3, <2>4, <2>5 DEF InLine
<1> QED BY <1>1, <1>2, <1>3, <1>4 DEF r

(* a solution is reported *)
LEMMA ReportedOK ==
  ASSUME NEW q \in Seq(Solution), SolvedOnly(q), NEW s \in Nat, NEW t \in Bound,
         NEW c \in Solution, c.node \in SolvedNodes, InLine(q, s, t, c.node), Ahead(q, s, t, c.node)
  PROVE  SolvedOnly(Append(q, c)) /\ InLine(Append(q, c), s, t, c.node)
<1> DEFINE r == Append(q, c)
<1>1. /\ Len(r) = Len(q) + 1 /\ Len(q) \in Nat /\ DOMAIN q = 1 .. Len(q) /\ DOMAIN r = 1 .. Len(q) + 1
      /\ r[Len(q) + 1] = c /\ \A i \in 1 .. Len(q) : r[i] = q[i]
      /\ \A i \in 1 .. Len(q) + 1 : i = Len(q) + 1 \/ i \in 1 .. Len(q)
  OBVIOUS
<1> HIDE DEF r
<1>2. SolvedOnly(r)
  BY <1>1 DEF SolvedOnly
<1>3. \A i \in s + 1 .. Len(r) : (i = Len(q) + 1 /\ r[i] = c) \/ (i \in s + 1 .. Len(q) /\ r[i] = q[i] /\ i < Len(q) + 1)
  <2>1. \A i \in s + 1 .. Len(r) : i \in 1 .. Len(q) + 1 /\ (i = Len(q) + 1 \/ i \in s + 1 .. Len(q))
    BY <1>1
  <2> QED BY <1>1, <2>1
<1>4. AsTight(c.node, c.node)
  BY TightOrder DEF Bound
<1>5. s <= Len(r) /\ AsTight(c.node, t)
  BY <1>1 DEF InLine
<1>6. \A i \in s + 1 .. Len(r) : Better(r[i].node, t) /\ AsTight(c.node, r[i].node)
  BY <1>3, <1>4 DEF InLine, Ahead
<1>7. \A i, j \in s + 1 .. Len(r) : i < j => Better(r[j].node, r[i].node)
  <2> SUFFICES ASSUME NEW i \in s + 1 .. Len(r), NEW j \in s + 1 .. Len(r), i < j
               PROVE  Better(r[j].node, r[i].node)
    OBVIOUS
  <2>1. i \in s + 1 .. Len(q) /\ r[i] = q[i]
    BY <1>1, <1>3
  <2>2. CASE j = Len(q) + 1
    BY <2>1, <2>2, <1>1 DEF Ahead
  <2>3. CASE j # Len(q) + 1
    BY <2>1, <2>3, <1>3 DEF InLine
  <2> QED BY <2>2, <2>3
<1> QED BY <1>2, <1>5, <1>6, <1>7 DEF InLine, r

(* nothing in the queue is looked at any more *)
LEMMA ForgottenOK ==
  ASSUME NEW q \in Seq(Solution), NEW t, NEW b, AsTight(b, t)
  PROVE  Len(q) \in Nat /\ InLine(q, Len(q), t, b)
<1>1. Len(q) \in Nat /\ Len(q) + 1 .. Len(q) = {}
  OBVIOUS
<1> QED BY <1>1 DEF InLine

(* a better best is ahead of all *)
LEMMA AheadOK ==
  ASSUME NEW q \in Seq(Solution), SolvedOnly(q), NEW s \in Nat, NEW t \in Bound, NEW a \in Bound,
         InLine(q, s, t, a), NEW b \in SolvedNodes, Better(b, a)
  PROVE  InLine(q, s, t, b) /\ Ahead(q, s, t, b)
<1>1. \A i \in s + 1 .. Len(q) : q[i].node \in Bound /\ AsTight(a, q[i].node)
  BY DEF SolvedOnly, InLine, Bound
<1>2. Better(b, t) /\ \A i \in s + 1 .. Len(q) : Better(b, q[i].node)
  BY <1>1, TightOrder DEF InLine
<1>3. AsTight(b, t) /\ \A i \in s + 1 .. Len(q) : AsTight(b, q[i].node)
  BY <1>1, <1>2, TightOrder
<1> QED BY <1>2, <1>3 DEF InLine, Ahead

LEMMA QueueInit == BABInit => QueueInv
<1> SUFFICES ASSUME BABInit PROVE QueueInv
  OBVIOUS
<1>1. /\ stale = 0 /\ standard = NoSpace /\ best = NoSpace /\ holder = Nobody /\ solutions = <<>>
  BY DEF BABInit, Init
<1>2. SolvedOnly(<<>>) /\ InLine(<<>>, 0, NoSpace, NoSpace)
  BY DEF SolvedOnly, InLine, AsTight
<1> QED BY <1>1, <1>2, HoldersIs DEF QueueInv, Bound

LEMMA QueueKept ==
  ASSUME QueueInv, UNCHANGED <<solutions, stale, standard, best>>,
         holder' \in Worker => holder' = holder, epc' # "destroyed" => epc # "destroyed"
  PROVE  QueueInv'
BY DEF QueueInv, SolvedOnly, InLine, Ahead, Better, AsTight

(* what next() and the destructor do to the queue *)
LEMMA EngineQueue ==
  ASSUME SpacesOK, EngineNext \/ EngineTerm
  PROVE  /\ epc # "destroyed"
         /\ \/ UNCHANGED solutions
            \/ /\ epc \in {"user", "next_check"} /\ EngineNext /\ solutions # <<>>
               /\ epc' # "destroyed" /\ ret' = Head(solutions) /\ solutions' = Tail(solutions)
            \/ EngineTerm /\ epc \notin {"user", "next_check"} /\ epc' = "destroyed" /\ solutions' = <<>>
<1>1. epc # "destroyed"
  BY DEF EngineNext, NextCall, SetCmd, ReleaseWait, AcquireWait, NextWait, NextCheck, EGoto,
         EngineTerm, TermCall, TermWait, TermUnlock, TermEnd
<1>2. CASE EngineNext
  BY <1>1, <1>2 DEF EngineNext, NextCall, SetCmd, ReleaseWait, AcquireWait, NextWait, NextCheck, EGoto, searchVars
<1>3. CASE EngineTerm
  BY <1>1, <1>3 DEF EngineTerm, TermCall, SetCmd, ReleaseWait, TermWait, TermUnlock, TermEnd, EGoto, searchVars
<1> QED BY <1>1, <1>2, <1>3

LEMMA ShrinksIs ==
  ASSUME SpacesOK
  PROVE  /\ solutions \in Seq(Solution)
         /\ solutions # <<>> => Len(Tail(solutions)) < Len(solutions)
         /\ ~(Len(solutions) < Len(solutions))
BY DEF SpacesOK

LEMMA CallNextQueue ==
  ASSUME TypeOK, BoundInv, QueueInv, CallNext
  PROVE  QueueInv'
<1>1. SpacesOK /\ solutions \in Seq(Solution) /\ best \in Bound /\ epc # "destroyed"
  BY EngineQueue, ShrinksIs DEF TypeOK, BoundInv, BoundTypeOK, CallNext
<1>2. UNCHANGED <<best, holder>>
  BY DEF CallNext, boundVars
<1>3. CASE UNCHANGED solutions
  <2>1. ~Returned
    BY <1>1, <1>3, ShrinksIs DEF Returned
  <2>2. UNCHANGED <<stale, standard>>
    BY <2>1 DEF CallNext, history
  <2> QED BY <1>1, <1>2, <1>3, <2>2, QueueKept
<1>4. CASE /\ epc \in {"user", "next_check"} /\ solutions # <<>>
           /\ ret' = Head(solutions) /\ solutions' = Tail(solutions)
  <2>1. Returned /\ holder = Nobody
    BY <1>1, <1>4, ShrinksIs DEF Returned, CallNext
  <2>2. /\ stale \in Nat /\ standard \in Bound /\ SolvedOnly(solutions)
        /\ InLine(solutions, stale, standard, best)
    BY <1>1 DEF QueueInv
  <2>3. IF stale > 0 THEN stale' = stale - 1 /\ standard' = standard
                     ELSE standard' = Head(solutions).node /\ stale' = stale
    BY <1>4, <2>1 DEF CallNext
  <2>4. /\ SolvedOnly(Tail(solutions))
        /\ stale > 0 => InLine(Tail(solutions), stale - 1, standard, best) /\ stale - 1 \in Nat
        /\ stale = 0 => /\ InLine(Tail(solutions), 0, Head(solutions).node, best)
                        /\ Head(solutions).node \in Bound
    BY <1>1, <1>4, <2>2, TakenOK
  <2>5. stale > 0 \/ stale = 0
    BY <2>2
  <2>6. stale' \in Nat /\ standard' \in Bound /\ SolvedOnly(solutions') /\ InLine(solutions', stale', standard', best')
    BY <1>2, <1>4, <2>2, <2>3, <2>4, <2>5
  <2>7. holder' \notin Worker
    BY <1>2, <2>1, HoldersIs
  <2> QED BY <2>6, <2>7 DEF QueueInv, SolvedOnly, InLine, Better, AsTight
<1> QED BY <1>1, <1>3, <1>4, EngineQueue DEF CallNext, EngineTerm, TermEnd, EngineNext, NextCall, SetCmd,
        ReleaseWait, AcquireWait, NextWait, NextCheck, EGoto

LEMMA CallResetQueue ==
  ASSUME TypeOK, ResetExclusive, BoundInv, QueueInv, CallReset
  PROVE  QueueInv'
<1>1. UNCHANGED solutions /\ epc # "destroyed" /\ UNCHANGED <<holder, told>>
  BY DEF CallReset, EngineReset, ResetCall, SetCmd, ReleaseWait, ResetWait, ResetDo, NogoodsDo,
         AcquireWait, ResetUnlock, ResetEnd, EGoto, searchVars
<1>2. CASE epc # "reset_do"
  <2>1. UNCHANGED <<stale, standard, best>>
    BY <1>2 DEF CallReset, history
  <2> QED BY <1>1, <2>1, QueueKept
<1>3. CASE epc = "reset_do"
  <2>1. stale' = Len(solutions) /\ standard' = NoSpace /\ best' = NoSpace
    BY <1>3 DEF CallReset, ResetTree
  <2>2. holder \notin Worker
    BY <1>3 DEF BoundInv, HolderOK, ResetExclusive
  <2>3. solutions \in Seq(Solution) /\ SolvedOnly(solutions)
    BY DEF TypeOK, SpacesOK, QueueInv
  <2>4. AsTight(NoSpace, NoSpace)
    BY DEF AsTight
  <2>5. Len(solutions) \in Nat /\ InLine(solutions, Len(solutions), NoSpace, NoSpace)
    BY <2>3, <2>4, ForgottenOK
  <2> QED BY <1>1, <2>1, <2>2, <2>3, <2>5 DEF QueueInv, SolvedOnly, InLine, Better, AsTight, Bound
<1> QED BY <1>2, <1>3

LEMMA TermQueue ==
  ASSUME TypeOK, QueueInv, EngineTerm, UNCHANGED <<boundVars, history>>
  PROVE  QueueInv'
<1>1. UNCHANGED <<best, holder, stale, standard>> /\ SpacesOK
  BY DEF boundVars, history, TypeOK
<1>2. CASE UNCHANGED solutions
  BY <1>1, <1>2, QueueKept, EngineQueue
<1>3. CASE epc' = "destroyed" /\ solutions' = <<>>
  BY <1>1, <1>3 DEF QueueInv, SolvedOnly
<1>4. UNCHANGED solutions \/ (epc' = "destroyed" /\ solutions' = <<>>)
  BY DEF EngineTerm, TermCall, SetCmd, ReleaseWait, TermWait, TermUnlock, TermEnd, EGoto, searchVars
<1> QED BY <1>2, <1>3, <1>4

(* every step of a worker but the report of a solution leaves the queue alone *)
LEMMA WorkerQueue ==
  ASSUME NEW w \in Worker, WorkerControl(w) \/ WorkerSearch(w)
  PROVE  UNCHANGED epc /\ (UNCHANGED solutions \/ ReportSolution(w))
BY DEF WorkerControl, Poll, Wait, ReportIdle, ReportStop, StartFind,
       FindNothing, ReportBusy, AckResetStart, WaitReset, AckResetStop, AckTerminate,
       WaitTerminate, Delete, Terminated, SignalTerminated, WorkerSearch, Explore, Stopped,
       RunDry, DiscardSolution, StealNothing, Take, Solved, StealSpace, ReportSolution, searchVars

LEMMA WorkerStepQueue ==
  ASSUME TypeOK, BoundInv, QueueInv, NEW w \in Worker, WorkerStep(w)
  PROVE  QueueInv'
<1>1. CASE Accept(w)
  <2> DEFINE b == hand[w].node
  <2>1. /\ UNCHANGED <<vars, stale, standard>> /\ best' = b /\ b \in SolvedNodes /\ Better(b, best) /\ best \in Bound
        /\ solutions \in Seq(Solution)
    BY <1>1 DEF Accept, BoundInv, HandsOK, BoundTypeOK, history, TypeOK, SpacesOK
  <2>2. UNCHANGED <<solutions, epc>>
    BY <2>1 DEF vars, searchVars
  <2> HIDE DEF b
  <2>3. ASSUME epc # "destroyed"
        PROVE  InLine(solutions, stale, standard, b) /\ Ahead(solutions, stale, standard, b)
    BY <2>1, <2>3, AheadOK DEF QueueInv
  <2> QED BY <2>1, <2>2, <2>3 DEF QueueInv, SolvedOnly, InLine, Ahead, Better, AsTight
<1>2. CASE Report(w) /\ ReportSolution(w)
  <2>1. /\ solutions' = Append(solutions, hand[w]) /\ UNCHANGED epc /\ wpc[w] = "solution"
    BY <1>2 DEF ReportSolution, WGoto
  <2>2. holder = w /\ holder' = Nobody /\ UNCHANGED <<best, stale, standard>>
    BY <1>2, <2>1 DEF Report, history
  <2>3. /\ hand[w] \in Solution /\ hand[w].node = best /\ hand[w].node \in SolvedNodes /\ solutions \in Seq(Solution)
    BY <2>1, <2>2, HandIs DEF BoundInv, HandsOK, HolderOK, TypeOK, SpacesOK
  <2>4. stale \in Nat /\ standard \in Bound /\ SolvedOnly(solutions)
    BY DEF QueueInv
  <2>5. \A i \in DOMAIN Append(solutions, hand[w]) : Append(solutions, hand[w])[i].node \in SolvedNodes
    <3>1. /\ DOMAIN Append(solutions, hand[w]) = 1 .. Len(solutions) + 1 /\ DOMAIN solutions = 1 .. Len(solutions)
          /\ Append(solutions, hand[w])[Len(solutions) + 1] = hand[w]
          /\ \A i \in 1 .. Len(solutions) : Append(solutions, hand[w])[i] = solutions[i]
          /\ \A i \in 1 .. Len(solutions) + 1 : i = Len(solutions) + 1 \/ i \in 1 .. Len(solutions)
      BY <2>3
    <3> QED BY <2>3, <2>4, <3>1 DEF SolvedOnly
  <2>6. ASSUME epc # "destroyed" PROVE InLine(Append(solutions, hand[w]), stale, standard, best)
    <3>1. InLine(solutions, stale, standard, hand[w].node) /\ Ahead(solutions, stale, standard, hand[w].node)
      BY <2>2, <2>3, <2>6 DEF QueueInv
    <3> QED BY <2>3, <2>4, <3>1, ReportedOK
  <2>7. holder' \notin Worker
    BY <2>2, HoldersIs
  <2> QED BY <2>1, <2>2, <2>4, <2>5, <2>6, <2>7 DEF QueueInv, SolvedOnly, InLine, Better, AsTight
<1>3. CASE Report(w) /\ ~ReportSolution(w)
  <2>1. UNCHANGED <<solutions, epc>>
    BY <1>3, WorkerQueue DEF Report
  <2>2. wpc[w] # "solution"
    BY <1>3 DEF Report, WorkerControl, Poll, Wait, ReportIdle, ReportStop, StartFind, FindNothing, ReportBusy,
         AckResetStart, WaitReset, AckResetStop, AckTerminate, WaitTerminate, Delete, Terminated,
         SignalTerminated, WGoto
  <2>3. UNCHANGED <<best, stale, standard, holder>>
    BY <1>3, <2>2 DEF Report, history
  <2> QED BY <2>1, <2>3, QueueKept
<1>4. CASE SearchStep(w) \/ DiscardLate(w)
  <2>1. UNCHANGED <<best, stale, standard, holder>>
    BY <1>4 DEF SearchStep, DiscardLate, history, boundVars
  <2>2. UNCHANGED <<solutions, epc>>
    <3>1. CASE DiscardLate(w)
      BY <3>1 DEF DiscardLate, DiscardSolution, searchVars
    <3>2. CASE SearchStep(w)
      BY <3>2 DEF SearchStep, Explore, Stopped, RunDry, StealNothing, Take, Solved, StealSpace, searchVars
    <3> QED BY <1>4, <3>1, <3>2
  <2> QED BY <2>1, <2>2, QueueKept
<1> QED BY <1>1, <1>2, <1>3, <1>4 DEF WorkerStep

LEMMA ConstrainQueue ==
  ASSUME TypeOK, BoundInv, QueueInv, NEW b \in SolvedNodes, Constrain(b)
  PROVE  QueueInv'
<1>1. /\ epc = "user" /\ holder = Nobody /\ UNCHANGED <<vars, treeVars, bestOf>>
      /\ stale' = Len(solutions) /\ standard' = Tighter(b, standard)
      /\ best \in Bound /\ standard \in Bound /\ b \in Bound
  BY DEF Constrain, BoundInv, BoundTypeOK, QueueInv, Bound
<1>2. UNCHANGED <<solutions, epc>>
  BY <1>1 DEF vars, searchVars
<1>3. AsTight(best, standard) /\ SolvedOnly(solutions) /\ solutions \in Seq(Solution)
  BY <1>1 DEF QueueInv, InLine, TypeOK, SpacesOK
<1>4. holder' \notin Worker /\ best' \in Bound /\ AsTight(best', best) /\ AsTight(best', b)
  <2>1. CASE best # NoSpace /\ Better(best, b)
    <3>1. best' = best /\ holder' = holder
      BY <2>1 DEF Constrain
    <3>2. AsTight(best, b) /\ AsTight(best, best)
      BY <1>1, <2>1, TightOrder DEF Bound
    <3> QED BY <1>1, <3>1, <3>2, HoldersIs
  <2>2. CASE ~(best # NoSpace /\ Better(best, b))
    <3>1. best' = b /\ holder' = Caller
      BY <2>2 DEF Constrain
    <3>2. AsTight(b, b)
      BY <1>1, TightOrder
    <3>3. AsTight(b, best)
      <4>1. CASE best = NoSpace
        BY <4>1 DEF AsTight
      <4>2. CASE best # NoSpace
        BY <1>1, <2>2, <4>2, TightOrder DEF Bound
      <4> QED BY <4>1, <4>2
    <3> QED BY <1>1, <3>1, <3>2, <3>3, HoldersIs
  <2> QED BY <2>1, <2>2
<1>5. AsTight(best', standard') /\ standard' \in Bound
  <2>1. AsTight(best', standard)
    BY <1>1, <1>3, <1>4, TightOrder
  <2> QED BY <1>1, <1>4, <2>1, TighterIs
<1>6. Len(solutions) \in Nat /\ InLine(solutions, Len(solutions), standard', best')
  BY <1>3, <1>5, ForgottenOK
<1> QED BY <1>1, <1>2, <1>3, <1>4, <1>5, <1>6 DEF QueueInv, SolvedOnly, InLine, Better, AsTight

LEMMA QueueStep ==
  TypeOK /\ ResetExclusive /\ BoundInv /\ QueueInv /\ [BABNext]_babVars => QueueInv'
<1> SUFFICES ASSUME TypeOK, ResetExclusive, BoundInv, QueueInv, [BABNext]_babVars PROVE QueueInv'
  OBVIOUS
<1>1. CASE EngineStepBAB
  BY <1>1, CallNextQueue, CallResetQueue, TermQueue DEF EngineStepBAB
<1>2. ASSUME NEW w \in Worker, WorkerStep(w) PROVE QueueInv'
  BY <1>2, WorkerStepQueue
<1>3. CASE Tell
  <2>1. UNCHANGED <<solutions, epc, stale, standard, best, holder>>
    BY <1>3 DEF Tell, vars, searchVars, history
  <2> QED BY <2>1, QueueKept
<1>4. CASE ConstrainReturns
  <2>1. UNCHANGED <<solutions, epc, stale, standard, best>> /\ holder' \notin Worker
    BY <1>4, HoldersIs DEF ConstrainReturns, vars, searchVars, history
  <2> QED BY <2>1, QueueKept
<1>5. ASSUME NEW b \in SolvedNodes, Constrain(b) PROVE QueueInv'
  BY <1>5, ConstrainQueue
<1>6. CASE UNCHANGED babVars
  <2>1. UNCHANGED <<solutions, epc, stale, standard, best, holder>>
    BY <1>6 DEF babVars, vars, searchVars, boundVars, history
  <2> QED BY <2>1, QueueKept
<1> QED BY <1>1, <1>2, <1>3, <1>4, <1>5, <1>6 DEF BABNext

LEMMA QueueInvCorrect == BABSpec => []QueueInv
<1>1. BABSpec => [](TypeOK /\ ResetExclusive /\ BoundInv)
  BY EngineInvs, BoundInvCorrect, PTL
<1> QED BY <1>1, QueueInit, QueueStep, PTL DEF BABSpec

(***************************************************************************)
(* What follows.                                                           *)
(***************************************************************************)
(* At any time, also while a solution is passed from worker to worker: above the mark
   every clone has been constrained with what its worker knows to be best, nobody prunes
   with a bound that best does not justify, and whoever is not being told works with best. *)
THEOREM BoundsAreOK == BABSpec => []BoundsOK
<1>1. BoundInv /\ QueueInv => BoundsOK
  BY DEF BoundInv, QueueInv, BoundsOK, BABTypeOK, TreeTypeOK, BoundTypeOK, Bound
<1> QED BY <1>1, BoundInvCorrect, QueueInvCorrect, PTL

(* No solution better than best is lost, whatever is stolen, recomputed, pruned by
   propagation or discarded. *)
THEOREM NoImprovementIsLost == BABSpec => []NoImprovementLost
<1>1. BoundInv => NoImprovementLost
  BY DEF BoundInv, Covering, NoImprovementLost
<1> QED BY <1>1, BoundInvCorrect, PTL

(* What next() returns is better than all that it has returned, and all that the search
   has been constrained with, since the last reset. *)
THEOREM ReturnedIsEverBetter == BABSpec => EverBetter
<1> DEFINE Improves == Returned /\ stale = 0 => Better(ret'.node, standard)
<1>1. TypeOK /\ QueueInv /\ [BABNext]_babVars => Improves
  <2> SUFFICES ASSUME TypeOK, QueueInv, [BABNext]_babVars, Returned, stale = 0
               PROVE  Better(ret'.node, standard)
    OBVIOUS
  <2>1. /\ epc \in {"user", "next_check"} /\ ~UNCHANGED solutions /\ solutions \in Seq(Solution) /\ SpacesOK
    BY ShrinksIs DEF Returned, TypeOK
  <2>2. ASSUME NEW w \in Worker, WorkerStep(w) PROVE FALSE
    <3>1. UNCHANGED solutions \/ solutions' = Append(solutions, hand[w])
      BY <2>2, SearchStepAllowed, WorkerQueue DEF WorkerStep, Report, DiscardLate, WorkerSearch, Accept,
         vars, searchVars, ReportSolution
    <3>2. Len(Append(solutions, hand[w])) = Len(solutions) + 1 /\ Len(solutions) \in Nat
      BY <2>1
    <3> QED BY <2>1, <3>1, <3>2 DEF Returned
  <2>3. ~(Tell \/ ConstrainReturns \/ \E b \in SolvedNodes : Constrain(b) \/ UNCHANGED babVars)
    BY <2>1 DEF Tell, ConstrainReturns, Constrain, babVars, vars, searchVars
  <2>4. EngineStepBAB
    BY <2>1, <2>2, <2>3 DEF BABNext, babVars, vars, searchVars
  <2>5. ~CallReset
    BY <2>1 DEF CallReset, EngineReset, ResetCall, SetCmd, ReleaseWait, ResetWait, ResetDo, NogoodsDo,
         AcquireWait, ResetUnlock, ResetEnd, EGoto, searchVars
  <2>6. EngineNext \/ EngineTerm
    BY <2>4, <2>5 DEF EngineStepBAB, CallNext
  <2>7. epc # "destroyed" /\ solutions # <<>> /\ ret' = Head(solutions)
    BY <2>1, <2>6, EngineQueue
  <2>8. InLine(solutions, 0, standard, best) /\ SolvedOnly(solutions) /\ standard \in Bound
    BY <2>7 DEF QueueInv
  <2>9. 1 \in 0 + 1 .. Len(solutions) /\ Head(solutions) = solutions[1]
    BY <2>1, <2>7
  <2> QED BY <2>7, <2>8, <2>9 DEF InLine
<1>2. BABSpec => [](TypeOK /\ QueueInv)
  BY EngineInvs, QueueInvCorrect, PTL
<1> HIDE DEF Improves
<1>3. BABSpec => [][Improves]_babVars
  BY <1>1, <1>2, PTL DEF BABSpec
<1> QED BY <1>3 DEF EverBetter, Improves

(* When next() returns null, nothing having been stopped, best is optimal but for what a
   thief has in its hand that has not called busy() yet. *)
THEOREM NullIsOnlyBeforeBusy == BABSpec => NullOnlyBeforeBusy
<1> DEFINE Held == \A s \in SolvedNodes :
                     Better(s, best) => \E w \in Worker : wpc[w] = "busy" /\ Below(hand[w].node, s)
<1>1. TypeOK /\ BusyInv /\ BoundInv /\ [BABNext]_babVars => (NullReturned => Held)
  <2> SUFFICES ASSUME TypeOK, BusyInv, BoundInv, [BABNext]_babVars, NullReturned,
                      NEW s \in SolvedNodes, Better(s, best)
               PROVE  \E w \in Worker : wpc[w] = "busy" /\ Below(hand[w].node, s)
    OBVIOUS
  <2>1. NextCheck
    <3>1. epc = "next_check" /\ epc' = "next_block" /\ epc # epc'
      BY DEF NullReturned
    <3>2. ASSUME NEW w \in Worker, WorkerStep(w) PROVE FALSE
      BY <3>1, <3>2, SearchStepAllowed, WorkerQueue DEF WorkerStep, Report, DiscardLate, WorkerSearch, Accept, vars
    <3>3. ~(Tell \/ ConstrainReturns \/ \E b \in SolvedNodes : Constrain(b) \/ UNCHANGED babVars)
      BY <3>1 DEF Tell, ConstrainReturns, Constrain, babVars, vars
    <3>4. Engine
      BY <3>1, <3>2, <3>3 DEF BABNext, babVars, vars, EngineStepBAB, CallNext, CallReset, Engine
    <3> QED BY <3>1, <3>4 DEF Engine, EngineNext, EngineReset, EngineTerm, NextCall, SetCmd,
          ReleaseWait, AcquireWait, NextWait, ResetCall, ResetWait, ResetDo, NogoodsDo,
          ResetUnlock, ResetEnd, TermCall, TermWait, TermUnlock, TermEnd, EGoto
  <2>2. nBusy = 0
    BY <2>1 DEF NextCheck, NullReturned
  <2>3. \A w \in Worker : ~Counted(w)
    <3>1. Cardinality({w \in Worker : Counted(w)}) = 0
      BY <2>2 DEF BusyInv, NBusyAccurate
    <3>2. IsFiniteSet({w \in Worker : Counted(w)})
      <4>1. {w \in Worker : Counted(w)} \subseteq Worker
        OBVIOUS
      <4> QED BY <4>1, WorkerFinite, FS_Subset
    <3>3. {w \in Worker : Counted(w)} = {}
      BY <3>1, <3>2, FS_EmptySet
    <3> QED BY <3>3
  <2>4. PICK w \in Worker : \E n \in Frontier(w) : Below(n, s)
    BY DEF BoundInv, Covering
  <2>5. PICK n \in Frontier(w) : Below(n, s)
    BY <2>4
  <2>6. idle[w] /\ wpc[w] # "take"
    BY <2>3 DEF Counted
  <2>7. Frontier(w) = InHand(w)
    <3>1. path[w] = <<>> /\ cur[w] = NoSpace
      BY <2>6 DEF BoundInv, WorkersOK
    <3>2. Own(<<>>, NoSpace) = {} /\ NodeOf(NoSpace) = NoSpace
      BY NothingLeft DEF Own, NodeOf
    <3> QED BY <3>1, <3>2, WorkerIs
  <2>8. wpc[w] # "solution"
    BY <2>6 DEF BoundInv, HandsOK
  <2> QED BY <2>5, <2>6, <2>7, <2>8 DEF InHand
<1>2. BABSpec => [](TypeOK /\ BusyInv /\ BoundInv)
  BY EngineInvs, BoundInvCorrect, PTL
<1> HIDE DEF Held
<1>3. BABSpec => [][NullReturned => Held]_babVars
  BY <1>1, <1>2, PTL DEF BABSpec
<1> QED BY <1>3 DEF NullOnlyBeforeBusy, Held
=============================================================================
