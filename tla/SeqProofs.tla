------------------------------ MODULE SeqProofs ------------------------------
(***************************************************************************)
(* The sequential engines, for any trees, options, slaves and portfolios.  *)
(***************************************************************************)
EXTENDS SeqEngines, PathProofs

(***************************************************************************)
(* The operations on the path of depth-first search are those that         *)
(* PathProofs is about.                                                    *)
(***************************************************************************)
LEMMA DFSChild == \A n, a : DFS!Child(n, a) = Child(n, a)
BY Zenon DEF DFS!Child, Child
LEMMA DFSBelow == \A n, m : DFS!Below(n, m) <=> Below(n, m)
BY Zenon DEF DFS!Below, Below, DFS!IsPrefix, IsPrefix
LEMMA DFSRightmost == \A e : DFS!Rightmost(e) <=> Rightmost(e)
BY Zenon DEF DFS!Rightmost, Rightmost
LEMMA DFSLAO == \A e : DFS!LAO(e) <=> LAO(e)
BY Zenon DEF DFS!LAO, LAO
LEMMA DFSTrueAlt == \A e : DFS!TrueAlt(e) = TrueAlt(e)
BY Zenon DEF DFS!TrueAlt, TrueAlt
LEMMA DFSEdge == \A n, c, a : DFS!Edge(n, c, a) = Edge(n, c, a)
BY Zenon DEF DFS!Edge, Edge
LEMMA DFSLast == \A p : DFS!Last(p) = Last(p)
BY Zenon DEF DFS!Last, Last
LEMMA DFSPush == \A p, e : DFS!Push(p, e) = Push(p, e)
BY Zenon, DFSLAO, DFSLast DEF DFS!Push, Push, DFS!Front, Front
LEMMA DFSNextAlt == \A p : DFS!NextAlt(p) = NextAlt(p)
BY Zenon DEF DFS!NextAlt, NextAlt, DFS!SelectLastInSeq, SelectLastInSeq, DFS!Max, Max, DFS!Rightmost, Rightmost
LEMMA DFSLastCopy == \A p : DFS!LastCopy(p) = LastCopy(p)
BY Zenon DEF DFS!LastCopy, LastCopy, DFS!SelectLastInSeq, SelectLastInSeq, DFS!Max, Max
LEMMA DFSCommits == \A p, i, j : DFS!Commits(p, i, j) = Commits(p, i, j)
BY Zenon DEF DFS!Commits, Commits
LEMMA DFSCanReuse == \A p : DFS!CanReuse(p) <=> CanReuse(p)
BY Zenon, DFSRightmost, DFSLast DEF DFS!CanReuse, CanReuse
LEMMA DFSReuse == \A p, n : DFS!Reuse(p, n) = Reuse(p, n)
BY Zenon, DFSLast DEF DFS!Reuse, Reuse
LEMMA DFSDistance == \A p : DFS!Distance(p) = Distance(p)
BY Zenon, DFSLastCopy DEF DFS!Distance, Distance
LEMMA DFSAdaptiveEdge == \A p : DFS!AdaptiveEdge(p) = AdaptiveEdge(p)
<1> TAKE p
<1>1. DFS!LastCopy(p) = LastCopy(p) /\ DFS!Distance(p) = Distance(p)
  BY DFSLastCopy, DFSDistance
<1>2. \A m, n : DFS!SelectInSubSeq(p, m, n, LAMBDA e : ~DFS!Rightmost(e)) = SelectInSubSeq(p, m, n, LAMBDA e : ~Rightmost(e))
  BY Zenon DEF DFS!SelectInSubSeq, SelectInSubSeq, DFS!Min, Min, DFS!Rightmost, Rightmost
<1> QED
  BY Zenon, <1>1, <1>2 DEF DFS!AdaptiveEdge, AdaptiveEdge
LEMMA DFSPlacesCopy == \A p, a : DFS!PlacesCopy(p, a) <=> PlacesCopy(p, a)
BY Zenon, DFSDistance, DFSAdaptiveEdge DEF DFS!PlacesCopy, PlacesCopy

(***************************************************************************)
(* Depth-first search: the inductive invariant DFSInv and its steps. The   *)
(* path leads to the current space, a clone is near every open edge, and   *)
(* what remains to be reported lies below the frontier.                    *)
(***************************************************************************)
LEMMA SeqEmpty ==
  ASSUME NEW Node, NEW Alternatives, NEW EdgeType,
         PathAssumption(Node, Alternatives, EdgeType),
         NEW c \in Node \cup {NoSpace}, NEW ng \in Nat, NEW w \in Nat, w > 0
  PROVE  /\ SeqOK(Node, Alternatives, EdgeType, <<>>, c, 0, ng, w)
         /\ Own(<<>>, c) = IF c # NoSpace THEN {c} ELSE {}
<1>1. Pending(<<>>) = {} /\ Top(<<>>) = {} /\ OpenEdges(<<>>) = {}
  BY NothingLeft
<1>2. WorkerOK(Node, Alternatives, EdgeType, <<>>, c, 0, ng, Cardinality(OpenEdges(<<>>)))
  <2>1. Cardinality(OpenEdges(<<>>)) = 0
    BY <1>1, FS_EmptySet
  <2>2. \A i \in Nat : \A s \in Node \cup {NoSpace} :
              WorkerOK(Node, Alternatives, EdgeType, <<>>, s, i, ng, 0) <=> (s # NoSpace => i = 0)
    BY NothingLeft
  <2>3. WorkerOK(Node, Alternatives, EdgeType, <<>>, c, 0, ng, 0)
    BY <2>2
  <2> QED BY <2>1, <2>3
<1>3. Whole(<<>>) /\ Near(<<>>, w)
  BY DEF Whole, Near
<1>4. Own(<<>>, c) = IF c # NoSpace THEN {c} ELSE {}
  BY <1>1 DEF Own
<1> QED BY <1>2, <1>3, <1>4 DEF SeqOK

(***************************************************************************)
(* Depth-first search.                                                     *)
(***************************************************************************)
PlainEdges(N) == [node : N, space : N \cup {NoSpace}, alt : Nat, altMax : Nat, alternatives : Nat]

LEMMA PlainPath ==
  ASSUME NEW t, NEW S, IsTree(t, S), NoSpace \notin S
  PROVE  PathAssumption(Reached(t), Offers(t), PlainEdges(Reached(t)))
<1>1. TreeFacts(Reached(t), Offers(t))
  BY TreeAssumed
<1> DEFINE N == Reached(t)
<1> HIDE DEF N
<1>2. EdgeFacts(N, PlainEdges(N))
  BY DEF EdgeFacts, PlainEdges, Changed
<1> QED BY <1>1, <1>2 DEF PathAssumption, N

LEMMA DFSIsTree == \A t, S : DFS!IsTree(t, S) <=> IsTree(t, S)
<1>1. \A t, n : DFS!InTree(t, n) <=> InTree(t, n)
  BY Zenon DEF DFS!InTree, InTree
<1> QED BY Zenon, <1>1, DFSChild DEF DFS!IsTree, IsTree

LEMMA DFSFailed == \A t, n : DFS!FailedIn(t, n) <=> FailedIn(t, n)
BY Zenon DEF DFS!FailedIn, FailedIn

LEMMA DFSSolvedBelow == \A t, n : DFS!SolvedBelow(t, n) = SolvedBelow(t, n)
BY DFSBelow DEF DFS!SolvedBelow, SolvedBelow

Near_c_d == IF opt.c_d = 0 THEN 1 ELSE opt.c_d
DFSPath(p, c, x) ==
  SeqOK(Reached(tree), Offers(tree), PlainEdges(Reached(tree)), p, c, x, opt.nogoods_limit, Near_c_d)

DFSInv ==
  /\ IsTree(tree, DFSNode) /\ opt \in [c_d : Nat, a_d : Nat, nogoods_limit : Nat]
  /\ ret \in DFSNode \cup {NoSpace} /\ stopped \in BOOLEAN
  /\ pc \in {"user", "stop", "recompute", "status"}
  /\ pc = "status" => cur # NoSpace
  /\ pc = "recompute" => cur = NoSpace
  /\ DFSPath(path, cur, d)

LEMMA DFSAssumed ==
  /\ \A i \in DFSInstances : IsTree(i.tree, DFSNode) /\ i.opt \in [c_d : Nat, a_d : Nat, nogoods_limit : Nat]
  /\ NoSpace \notin DFSNode
BY DFSAssumption, DFSIsTree DEF DFS!TreesAssumption, DFS!OptionsAssumption, DFS!NoSpaceAssumption

LEMMA DFSFacts ==
  ASSUME DFSInv
  PROVE  /\ NoSpace \notin DFSNode /\ IsTree(tree, DFSNode)
         /\ PathAssumption(Reached(tree), Offers(tree), PlainEdges(Reached(tree)))
         /\ Reached(tree) \subseteq DFSNode /\ NoSpace \notin Reached(tree)
         /\ opt.c_d \in Nat /\ opt.a_d \in Nat /\ opt.nogoods_limit \in Nat
         /\ Near_c_d \in Nat /\ Near_c_d > 0
         /\ \A n \in Reached(tree) : Offers(tree)[n] = tree.alternatives[n]
<1>1. NoSpace \notin DFSNode /\ IsTree(tree, DFSNode) /\ opt.c_d \in Nat /\ opt.a_d \in Nat /\ opt.nogoods_limit \in Nat
  BY DFSAssumed DEF DFSInv
<1>2. Reached(tree) \subseteq DFSNode
  BY <1>1, TreeAssumed
<1>3. \A n \in Reached(tree) : Offers(tree)[n] = tree.alternatives[n]
  BY DEF Offers
<1> QED BY <1>1, <1>2, <1>3, PlainPath DEF Near_c_d

LEMMA DFSInit == DFS!Init => DFSInv
<1> SUFFICES ASSUME DFS!Init PROVE DFSInv
  OBVIOUS
<1>1. PICK i \in DFSInstances : tree = i.tree /\ opt = i.opt
  BY DEF DFS!Init
<1>2. IsTree(tree, DFSNode) /\ opt \in [c_d : Nat, a_d : Nat, nogoods_limit : Nat] /\ NoSpace \notin DFSNode
  BY <1>1, DFSAssumed
<1>3. cur \in {<<>>, NoSpace} /\ path = <<>> /\ d = 0 /\ ret = NoSpace /\ stopped = FALSE /\ pc = "user"
  BY DEF DFS!Init, DFS!Root
<1>4. <<>> \in Reached(tree) /\ PathAssumption(Reached(tree), Offers(tree), PlainEdges(Reached(tree)))
  BY <1>2, PlainPath, TreeIs
<1>5. Near_c_d \in Nat /\ Near_c_d > 0 /\ opt.nogoods_limit \in Nat
  BY <1>2 DEF Near_c_d
<1>6. DFSPath(path, cur, d)
  BY <1>3, <1>4, <1>5, SeqEmpty DEF DFSPath
<1> QED BY <1>2, <1>3, <1>6 DEF DFSInv

DFSTodo == Todo(tree, Own(path, cur))

(* one step keeps the invariant, and what it does to the solutions that are left *)
LEMMA DFSKeeps ==
  ASSUME DFSInv, tree' = tree, opt' = opt,
         ret' \in DFSNode \cup {NoSpace}, stopped' \in BOOLEAN, pc' \in {"user", "stop", "recompute", "status"},
         pc' = "status" => cur' # NoSpace, pc' = "recompute" => cur' = NoSpace,
         DFSPath(path', cur', d')
  PROVE  DFSInv'
<1>1. DFSPath(path, cur, d)'
  BY DEF DFSPath, Near_c_d
<1> QED BY <1>1 DEF DFSInv

LEMMA DFSQuiet ==
  ASSUME DFSInv, DFS!NextCall \/ DFS!Stop \/ DFS!Exhausted
  PROVE  DFSInv' /\ DFSTodo' = DFSTodo /\ (DFS!Exhausted => DFSTodo = {})
<1>1. UNCHANGED <<tree, opt, cur, path, d>>
  BY DEF DFS!NextCall, DFS!Stop, DFS!Exhausted
<1>2. DFSPath(path', cur', d')
  BY <1>1 DEF DFSInv
<1>3. /\ ret' \in DFSNode \cup {NoSpace} /\ stopped' \in BOOLEAN
      /\ pc' \in {"user", "stop", "recompute", "status"}
      /\ pc' = "status" => cur' # NoSpace
      /\ pc' = "recompute" => cur' = NoSpace
  BY DEF DFSInv, DFS!NextCall, DFS!Stop, DFS!Exhausted, DFS!Goto
<1>4. DFSTodo' = DFSTodo
  BY <1>1 DEF DFSTodo
<1>5. ASSUME DFS!Exhausted PROVE DFSTodo = {}
  <2>1. path = <<>> /\ cur = NoSpace
    BY <1>5 DEF DFSInv, DFS!Exhausted, DFS!Goto
  <2>2. Own(path, cur) = {}
    BY <2>1, DFSFacts, NothingLeft DEF Own
  <2> QED BY <2>2 DEF DFSTodo, Todo
<1> QED BY <1>1, <1>2, <1>3, <1>4, <1>5, DFSKeeps

LEMMA DFSReuses ==
  ASSUME DFSInv, DFS!RecomputeReuse
  PROVE  DFSInv' /\ DFSTodo' = DFSTodo
<1>1. /\ path # <<>> /\ CanReuse(path) /\ path' = Reuse(path, opt.nogoods_limit)
      /\ cur' = Child(Last(path).space, Last(path).alt) /\ d' = 0 /\ pc = "recompute" /\ pc' = "status"
      /\ UNCHANGED <<tree, opt, stopped, ret>>
  BY DFSCanReuse, DFSReuse, DFSChild, DFSLast DEF DFS!RecomputeReuse, DFS!Goto
<1>2. cur = NoSpace /\ DFSPath(path, NoSpace, d)
  BY <1>1 DEF DFSInv
<1>3. PathAssumption(Reached(tree), Offers(tree), PlainEdges(Reached(tree))) /\ NoSpace \notin Reached(tree)
  BY DFSFacts
<1> DEFINE c == Child(Last(path).node, Last(path).alt)
           q == Reuse(path, opt.nogoods_limit)
<1>4. DFSPath(q, c, 0) /\ Last(path).space = Last(path).node /\ Own(q, c) = Own(path, NoSpace)
  <2>1. c = Child(Last(path).node, Last(path).alt) /\ q = Reuse(path, opt.nogoods_limit)
    OBVIOUS
  <2> HIDE DEF c, q
  <2> QED BY <1>1, <1>2, <1>3, <2>1, SeqReuse DEF DFSPath
<1>5. cur' = c /\ path' = q
  BY <1>1, <1>4
<1> HIDE DEF c, q
<1>6. c # NoSpace
  <2>1. c = Child(Last(path).node, Last(path).alt) /\ q = Reuse(path, opt.nogoods_limit)
    BY DEF c, q
  <2>2. c \in Reached(tree)
    BY <1>1, <1>2, <1>3, <2>1, SeqReuse DEF DFSPath
  <2> QED BY <1>3, <2>2
<1>7. DFSTodo' = DFSTodo
  BY <1>1, <1>2, <1>4, <1>5 DEF DFSTodo
<1> QED BY <1>1, <1>4, <1>5, <1>6, <1>7, DFSKeeps DEF DFSInv

LEMMA DFSRecomputes ==
  ASSUME DFSInv, DFS!RecomputeClone
  PROVE  DFSInv' /\ DFSTodo' = DFSTodo
<1> DEFINE c == Commits(path, LastCopy(path), Len(path))
           i == AdaptiveEdge(path)
           q == [path EXCEPT ![i].space = Commits(path, LastCopy(path), i - 1)]
<1>1. /\ path # <<>> /\ cur' = c /\ pc = "recompute" /\ pc' = "status"
      /\ UNCHANGED <<tree, opt, stopped, ret>>
      /\ IF PlacesCopy(path, opt.a_d) THEN path' = q /\ d' = Len(path) - i + 1
                                      ELSE path' = path /\ d' = Distance(path)
  BY DFSCommits, DFSLastCopy, DFSPlacesCopy, DFSAdaptiveEdge, DFSDistance DEF DFS!RecomputeClone, DFS!Goto
<1>2. cur = NoSpace /\ DFSPath(path, NoSpace, d)
  BY <1>1 DEF DFSInv
<1>3. PathAssumption(Reached(tree), Offers(tree), PlainEdges(Reached(tree))) /\ NoSpace \notin Reached(tree)
  BY DFSFacts
<1>4. c = Commits(path, LastCopy(path), Len(path)) /\ i = AdaptiveEdge(path)
  OBVIOUS
<1> HIDE DEF c, i
<1>5. /\ c = Child(Last(path).node, Last(path).alt) /\ c # NoSpace
      /\ DFSPath(path, c, Distance(path)) /\ Own(path, c) = Own(path, NoSpace)
  <2>1. /\ c = Child(Last(path).node, Last(path).alt)
        /\ DFSPath(path, c, Distance(path)) /\ Own(path, c) = Own(path, NoSpace)
    BY <1>1, <1>2, <1>3, <1>4, SeqRecompute DEF DFSPath
  <2>2. c \in Reached(tree)
    BY <1>1, <1>2, <1>3, <1>4, SeqRecompute DEF DFSPath
  <2> QED BY <1>3, <2>1, <2>2
<1>6. PlacesCopy(path, opt.a_d) => DFSPath(q, c, Len(path) - i + 1) /\ Own(q, c) = Own(path, NoSpace)
  <2> SUFFICES ASSUME PlacesCopy(path, opt.a_d) PROVE DFSPath(q, c, Len(path) - i + 1) /\ Own(q, c) = Own(path, NoSpace)
    OBVIOUS
  <2>1. opt.a_d \in Nat
    BY DFSFacts
  <2>2. Commits(path, LastCopy(path), i - 1) = path[i].node
    BY <1>1, <1>2, <1>3, <1>4, <1>5, <2>1, SeqPlace DEF DFSPath
  <2>3. q = Placed(path, i)
    BY <2>2 DEF Placed
  <2> HIDE DEF q
  <2> QED BY <1>1, <1>2, <1>3, <1>4, <1>5, <2>1, <2>3, SeqPlace DEF DFSPath
<1> HIDE DEF q
<1>7. DFSPath(path', cur', d') /\ Own(path', cur') = Own(path, NoSpace)
  BY <1>1, <1>5, <1>6
<1>8. DFSTodo' = DFSTodo
  BY <1>1, <1>2, <1>7 DEF DFSTodo
<1> QED BY <1>1, <1>5, <1>7, <1>8, DFSKeeps DEF DFSInv

LEMMA DFSUnwinds ==
  ASSUME DFSInv, DFS!RecomputeFails
  PROVE  DFSInv' /\ DFSTodo' = DFSTodo
<1> DEFINE i == AdaptiveEdge(path)
           q == NextAlt(SubSeq(path, 1, i - 1))
<1>1. /\ path # <<>> /\ PlacesCopy(path, opt.a_d) /\ path' = q /\ d' = Distance(path) /\ pc = "recompute"
      /\ SolvedBelow(tree, Commits(path, LastCopy(path), i - 1)) = {}
      /\ UNCHANGED <<tree, opt, cur, stopped, pc, ret>>
  BY DFSCommits, DFSLastCopy, DFSPlacesCopy, DFSAdaptiveEdge, DFSDistance, DFSNextAlt, DFSSolvedBelow DEF DFS!RecomputeFails
<1>2. cur = NoSpace /\ DFSPath(path, NoSpace, d)
  BY <1>1 DEF DFSInv
<1>3. PathAssumption(Reached(tree), Offers(tree), PlainEdges(Reached(tree))) /\ NoSpace \notin Reached(tree)
      /\ opt.a_d \in Nat
  BY DFSFacts
<1>4. i = AdaptiveEdge(path) /\ q = NextAlt(SubSeq(path, 1, i - 1))
  OBVIOUS
<1> HIDE DEF i, q
<1>5. i \in 1 .. Len(path) /\ path[i].node \in Reached(tree) /\ Commits(path, LastCopy(path), i - 1) = path[i].node
  BY <1>1, <1>2, <1>3, <1>4, SeqPlace DEF DFSPath
<1>6. Distance(path) \in Nat
  BY <1>1, <1>2, <1>3, SeqRecompute DEF DFSPath
<1>7. /\ DFSPath(q, NoSpace, Distance(path)) /\ Own(q, NoSpace) \subseteq Own(path, NoSpace)
      /\ \A n \in Own(path, NoSpace) \ Own(q, NoSpace) : Below(path[i].node, n)
  BY <1>1, <1>2, <1>3, <1>4, <1>5, <1>6, SeqUnwind DEF DFSPath
<1>8. Todo(tree, Own(q, NoSpace)) = Todo(tree, Own(path, NoSpace))
  <2> DEFINE F == Own(path, NoSpace)
             G == Own(q, NoSpace)
  <2>1. \A s \in tree.solved : ~Below(path[i].node, s)
    BY <1>1, <1>5 DEF SolvedBelow
  <2>2. F \subseteq Reached(tree)
    BY <1>2, <1>3, OwnNodes DEF DFSPath, SeqOK
  <2>3. G \subseteq F /\ \A n \in F \ G : Below(path[i].node, n)
    BY <1>7
  <2> HIDE DEF F, G
  <2>4. IsTree(tree, DFSNode) /\ NoSpace \notin DFSNode
    BY DFSFacts
  <2>5. \A s \in tree.solved : s \in Todo(tree, G) <=> s \in Todo(tree, F)
    BY <1>3, <1>5, <2>1, <2>2, <2>3, <2>4, TodoUnwound
  <2>6. \A s : s \in Todo(tree, G) <=> s \in Todo(tree, F)
    BY <2>5, TodoIs
  <2>7. Todo(tree, G) = Todo(tree, F)
    BY <2>6
  <2> QED BY <2>7 DEF F, G
<1>9. DFSTodo' = DFSTodo
  BY <1>1, <1>2, <1>8 DEF DFSTodo
<1> QED BY <1>1, <1>2, <1>7, <1>9, DFSKeeps DEF DFSInv

LEMMA DFSLeaves ==
  ASSUME DFSInv, DFS!StatusFailed \/ DFS!StatusSolved
  PROVE  /\ DFSInv'
         /\ DFS!StatusFailed => DFSTodo' = DFSTodo
         /\ DFS!StatusSolved => /\ cur \in DFSTodo /\ cur \in DFSNode /\ \A s \in DFSTodo : ~LeftOf(s, cur)
                                /\ DFSTodo' = DFSTodo \ {cur}
<1>1. /\ cur' = NoSpace /\ path' = NextAlt(path) /\ pc = "status" /\ pc' \in {"user", "stop"}
      /\ UNCHANGED <<tree, opt, d, stopped>>
      /\ DFS!StatusFailed => FailedIn(tree, cur) /\ ret' = ret
      /\ DFS!StatusSolved => cur \in tree.solved /\ ret' = cur
  BY DFSNextAlt, DFSFailed DEF DFS!StatusFailed, DFS!StatusSolved, DFS!Goto
<1>2. cur # NoSpace /\ DFSPath(path, cur, d)
  BY <1>1 DEF DFSInv
<1>3. PathAssumption(Reached(tree), Offers(tree), PlainEdges(Reached(tree))) /\ NoSpace \notin Reached(tree)
      /\ IsTree(tree, DFSNode) /\ NoSpace \notin DFSNode /\ Reached(tree) \subseteq DFSNode
  BY DFSFacts
<1>4. cur \in Reached(tree) /\ d \in Nat
  BY <1>2 DEF DFSPath, SeqOK, WorkerOK
<1>5. DFSPath(path', NoSpace, d) /\ Own(path', NoSpace) = Pending(path)
  BY <1>1, <1>2, <1>3, <1>4, SeqAdvance DEF DFSPath
<1>6. ret' \in DFSNode \cup {NoSpace}
  BY <1>1, <1>3, <1>4 DEF DFSInv
<1>7. DFSInv'
  BY <1>1, <1>5, <1>6, DFSKeeps DEF DFSInv
<1>8. DFSTodo' = Todo(tree, Pending(path))
  BY <1>1, <1>5 DEF DFSTodo
<1>9. ASSUME DFS!StatusFailed PROVE DFSTodo' = DFSTodo
  <2>1. SolvedBelow(tree, cur) = {}
    BY <1>1, <1>3, <1>4, <1>9, TreeFailedIs
  <2> QED BY <1>3, <1>4, <1>8, <2>1, TodoFailed DEF DFSTodo
<1>10. ASSUME DFS!StatusSolved
       PROVE  cur \in DFSTodo /\ (\A s \in DFSTodo : ~LeftOf(s, cur)) /\ DFSTodo' = DFSTodo \ {cur}
  BY <1>1, <1>2, <1>3, <1>8, <1>10, TodoSolved DEF DFSPath, DFSTodo
<1> QED BY <1>3, <1>4, <1>7, <1>9, <1>10

LEMMA DFSBranches ==
  ASSUME DFSInv, DFS!StatusBranch
  PROVE  DFSInv' /\ DFSTodo' = DFSTodo
<1> DEFINE n == tree.alternatives[cur]
           copy == IF d = 0 \/ d >= opt.c_d THEN cur ELSE NoSpace
           e == Edge(cur, copy, n)
           q == Push(path, e)
           y == IF d = 0 \/ d >= opt.c_d THEN 1 ELSE d + 1
<1>1. /\ n > 0 /\ path' = q /\ d' = y /\ cur' = Child(cur, 0) /\ pc = "status" /\ pc' = "stop"
      /\ UNCHANGED <<tree, opt, stopped, ret>>
  BY DFSPush, DFSEdge, DFSChild DEF DFS!StatusBranch, DFS!Goto
<1>2. cur # NoSpace /\ DFSPath(path, cur, d)
  BY <1>1 DEF DFSInv
<1>3. /\ PathAssumption(Reached(tree), Offers(tree), PlainEdges(Reached(tree))) /\ NoSpace \notin Reached(tree)
      /\ IsTree(tree, DFSNode) /\ NoSpace \notin DFSNode /\ Reached(tree) \subseteq DFSNode
      /\ opt.c_d \in Nat
  BY DFSFacts
<1>4. cur \in Reached(tree) /\ d \in Nat
  BY <1>2 DEF DFSPath, SeqOK, WorkerOK
<1>5. n = Offers(tree)[cur] /\ n \in Nat
  BY <1>3, <1>4, DFSFacts, TreeIs
<1> HIDE DEF n
<1>6. copy \in {cur, NoSpace} /\ (copy = NoSpace => d # 0 /\ d < Near_c_d) /\ y = IF copy = cur THEN 1 ELSE d + 1
  BY <1>2, <1>3, <1>4 DEF Near_c_d
<1> HIDE DEF copy, y
<1>7. /\ e \in PlainEdges(Reached(tree)) /\ e.node = cur /\ e.space = copy /\ e.alt = 0
      /\ e.altMax = n - 1 /\ e.alternatives = n
  BY <1>1, <1>4, <1>5, <1>6 DEF Edge, PlainEdges
<1> HIDE DEF e
<1>8. q = Push(path, e)
  OBVIOUS
<1> HIDE DEF q
<1>9. /\ DFSPath(q, Child(cur, 0), y)
      /\ Own(q, Child(cur, 0)) = Split(Own(path, cur), cur, Offers(tree)[cur])
  <2> DEFINE N == Reached(tree)
             A == Offers(tree)
             E == PlainEdges(Reached(tree))
             ng == opt.nogoods_limit
             w == Near_c_d
  <2>1. /\ PathAssumption(N, A, E) /\ cur \in N /\ SeqOK(N, A, E, path, cur, d, ng, w)
        /\ A[cur] > 0 /\ copy \in {cur, NoSpace} /\ (copy = NoSpace => d # 0 /\ d < w)
        /\ e \in E /\ e.node = cur /\ e.space = copy /\ e.alt = 0
        /\ e.altMax = A[cur] - 1 /\ e.alternatives = A[cur]
        /\ y = IF copy = cur THEN 1 ELSE d + 1
    BY <1>1, <1>2, <1>3, <1>4, <1>5, <1>6, <1>7 DEF DFSPath
  <2>2. DFSPath(q, Child(cur, 0), y) <=> SeqOK(N, A, E, q, Child(cur, 0), y, ng, w)
    BY DEF DFSPath
  <2> HIDE DEF N, A, E, ng, w
  <2>3. SeqOK(N, A, E, q, Child(cur, 0), y, ng, w)
    BY <1>8, <2>1, SeqBranch
  <2>4. Own(q, Child(cur, 0)) = Split(Own(path, cur), cur, A[cur])
    BY <1>8, <2>1, SeqBranch
  <2> QED BY <2>2, <2>3, <2>4 DEF A
<1>10. DFSTodo' = DFSTodo
  <2> DEFINE F == Own(path, cur)
  <2>1. cur \in F
    BY <1>2 DEF Own
  <2>2. DFSTodo' = Todo(tree, Split(F, cur, Offers(tree)[cur]))
    BY <1>1, <1>9 DEF DFSTodo
  <2>3. DFSTodo = Todo(tree, F)
    BY DEF DFSTodo
  <2>4. Offers(tree)[cur] > 0
    BY <1>1, <1>5
  <2> HIDE DEF F
  <2> QED BY <1>3, <1>4, <2>1, <2>2, <2>3, <2>4, TodoBranch
<1>11. DFSPath(path', cur', d')
  BY <1>1, <1>9
<1> QED BY <1>1, <1>10, <1>11, DFSKeeps DEF DFSInv

LEMMA DFSResets ==
  ASSUME DFSInv, DFS!Reset
  PROVE  DFSInv' /\ DFSTodo' \subseteq DFSNode
<1>1. /\ cur' \in {<<>>, NoSpace} /\ path' = <<>> /\ d' = 0 /\ pc = "user"
      /\ UNCHANGED <<tree, opt, stopped, pc, ret>>
  BY DEF DFS!Reset, DFS!Root
<1>2. /\ PathAssumption(Reached(tree), Offers(tree), PlainEdges(Reached(tree))) /\ IsTree(tree, DFSNode)
      /\ <<>> \in Reached(tree) /\ opt.nogoods_limit \in Nat /\ Near_c_d \in Nat /\ Near_c_d > 0
  BY DFSFacts, TreeIs
<1>3. DFSPath(path', cur', d')
  BY <1>1, <1>2, SeqEmpty DEF DFSPath
<1>4. DFSTodo' \subseteq DFSNode
  BY <1>1, <1>2 DEF DFSTodo, Todo, SolvedBelow, IsTree
<1> QED BY <1>1, <1>3, <1>4, DFSKeeps DEF DFSInv

LEMMA DFSFrontier == DFS!Frontier = Own(path, cur)
<1>1. UNION {{DFS!Child(path[i].node, a) : a \in path[i].alt + 1 .. path[i].altMax} : i \in DOMAIN path} = Pending(path)
  BY DEF Pending, DFS!Child, Child
<1>2. {DFS!Child(DFS!Last(path).node, DFS!Last(path).alt)} = {Child(Last(path).node, Last(path).alt)}
  BY DFSChild, DFSLast
<1>3. (IF cur # NoSpace THEN {cur}
       ELSE IF path # <<>> THEN {DFS!Child(DFS!Last(path).node, DFS!Last(path).alt)} ELSE {})
      = (IF cur # NoSpace THEN {cur} ELSE Top(path))
  BY Zenon, <1>2 DEF Top
<1> DEFINE X == UNION {{DFS!Child(path[i].node, a) : a \in path[i].alt + 1 .. path[i].altMax} : i \in DOMAIN path}
           Y == IF cur # NoSpace THEN {cur}
                ELSE IF path # <<>> THEN {DFS!Child(DFS!Last(path).node, DFS!Last(path).alt)} ELSE {}
<1>4. DFS!Frontier = X \cup Y
  BY DEF DFS!Frontier
<1>5. X = Pending(path) /\ Y = IF cur # NoSpace THEN {cur} ELSE Top(path)
  BY <1>1, <1>3
<1> HIDE DEF X, Y
<1> QED BY <1>4, <1>5 DEF Own

LEMMA DFSHolds ==
  ASSUME DFSInv
  PROVE  DFS!PathOK /\ DFS!RecomputationBounded /\ DFS!NogoodsSound
<1> DEFINE N == Reached(tree)
           E == PlainEdges(Reached(tree))
<1>1. /\ PathAssumption(N, Offers(tree), E) /\ N \subseteq DFSNode
      /\ opt.nogoods_limit \in Nat /\ Near_c_d \in Nat
  BY DFSFacts
<1>2. /\ SeqOK(N, Offers(tree), E, path, cur, d, opt.nogoods_limit, Near_c_d)
      /\ ShapeOK(Offers(tree), E, path, opt.nogoods_limit) /\ path \in Seq(E) /\ d \in Nat /\ cur \in N \cup {NoSpace}
      /\ (cur = NoSpace /\ path # <<>> => CopyNear(path, Len(path), Near_c_d))
      /\ (cur # NoSpace /\ path # <<>> => d \in {0, Distance(path)})
      /\ Whole(path)
  BY DEF DFSInv, DFSPath, SeqOK, WorkerOK, ShapeOK
<1>3. path \in Seq(DFS!EdgeType)
  <2>1. E \subseteq DFS!EdgeType
    BY <1>1 DEF PlainEdges, DFS!EdgeType
  <2> HIDE DEF E
  <2>2. Len(path) \in Nat /\ path \in [1 .. Len(path) -> E]
    BY <1>2
  <2>3. path \in [1 .. Len(path) -> DFS!EdgeType]
    BY <2>1, <2>2
  <2> QED BY <2>2, <2>3
<1>4. DFS!TypeOK
  BY <1>1, <1>2, <1>3 DEF DFSInv, DFS!TypeOK
<1>5. PointsTo(path, cur)
  <2> HIDE DEF N, E
  <2> QED BY <1>1, <1>2, SeqPoints
<1>6. DFS!PathPointsToCur
  <2>1. \A i : (path[i+1].space = NoSpace /\ ~LAO(path[i+1])) <=> (path[i+1].space = NoSpace /\ ~DFS!LAO(path[i+1]))
    BY DFSLAO
  <2> QED BY Zenon, <1>5, DFSLAO, DFSChild, DFSBelow, DFSTrueAlt, DFSLast DEF PointsTo, DFS!PathPointsToCur
<1>7. DFS!RecomputationBounded
  <2>1. ASSUME pc = "recompute", path # <<>> PROVE Distance(path) <= Near_c_d
    <3>1. cur = NoSpace
      BY <2>1 DEF DFSInv
    <3> HIDE DEF N, E
    <3> QED BY <1>1, <1>2, <2>1, <3>1, NearDistance
  <2> QED BY <1>2, <2>1, DFSDistance DEF DFS!RecomputationBounded, Near_c_d
<1>8. DFS!Frontier = Own(path, cur)
  BY DFSFrontier
<1>9. DFS!NogoodsSound
  <2> SUFFICES ASSUME NEW i \in 1 .. Len(path), NEW a \in 0 .. DFS!TrueAlt(path[i]) - 1, NEW n \in DFS!Frontier
               PROVE  ~DFS!Below(DFS!Child(path[i].node, a), n)
    BY DEF DFS!NogoodsSound
  <2> HIDE DEF N, E
  <2>1. TrueAlt(path[i]) \in Nat
    BY <1>1, <1>2, TrueAltIs
  <2>2. a \in Nat /\ a < TrueAlt(path[i]) /\ n \in Own(path, cur)
    BY <1>8, <2>1, DFSTrueAlt
  <2>3. ~Below(Child(path[i].node, a), n)
    BY <1>1, <1>2, <2>2, SeqNogoods
  <2> QED BY <2>3, DFSBelow, DFSChild
<1> QED BY <1>4, <1>6, <1>7, <1>9 DEF DFS!PathOK

LEMMA DFSStep ==
  ASSUME DFSInv, DFS!Next
  PROVE  DFSInv'
BY DFSQuiet, DFSReuses, DFSRecomputes, DFSUnwinds, DFSLeaves, DFSBranches, DFSResets DEF DFS!Next, DFS!Loop

LEMMA DFSTodoIs == UNION {DFS!SolvedBelow(tree, n) : n \in DFS!Frontier} = DFSTodo
BY Zenon, DFSFrontier, DFSSolvedBelow DEF DFSTodo, Todo

LEMMA DFSTodoNext == (UNION {DFS!SolvedBelow(tree, n) : n \in DFS!Frontier} = DFSTodo)'
BY DFSTodoIs, PTL

LEMMA DFSStreamInit == DFS!Init => DFS!Stream!Init
<1> SUFFICES ASSUME DFS!Init PROVE DFS!Stream!Init
  OBVIOUS
<1>1. DFSInv
  BY DFSInit
<1>2. DFSTodo \subseteq DFSNode
  BY <1>1, DFSFacts DEF DFSTodo, Todo, SolvedBelow, IsTree
<1> QED BY <1>2, DFSTodoIs DEF DFS!Stream!Init, DFS!Init

LEMMA DFSLeftOf == \A s, t : DFS!LeftOf(s, t) <=> LeftOf(s, t)
BY Zenon DEF DFS!LeftOf, LeftOf

LEMMA DFSStreamStep ==
  ASSUME DFSInv, [DFS!Next]_(DFS!vars)
  PROVE  [DFS!Stream!Next]_(DFS!Stream!vars)
<1> DEFINE todo == UNION {DFS!SolvedBelow(tree, n) : n \in DFS!Frontier}
<1>0. todo = DFSTodo /\ todo' = DFSTodo'
  BY DFSTodoIs, DFSTodoNext
<1>1. CASE DFS!NextCall
  <2>1. todo' = todo
    BY <1>0, <1>1, DFSQuiet
  <2>2. pc = "user" /\ pc' = "stop" /\ stopped' = FALSE /\ ret' = ret
    BY <1>1 DEF DFS!NextCall, DFS!Goto
  <2>3. DFS!Stream!Call
    BY <2>1, <2>2 DEF DFS!Stream!Call
  <2> QED BY <2>3 DEF DFS!Stream!Next
<1>2. CASE DFS!Stop
  <2>1. todo' = todo
    BY <1>0, <1>2, DFSQuiet
  <2>2. CASE pc' = "user" /\ stopped' = TRUE /\ ret' = NoSpace
    <3>1. DFS!Stream!Stop
      BY <1>2, <2>1, <2>2 DEF DFS!Stream!Stop, DFS!Stop
    <3> QED BY <3>1 DEF DFS!Stream!Next
  <2>3. CASE ~(pc' = "user" /\ stopped' = TRUE /\ ret' = NoSpace)
    <3>1. pc = "stop" /\ pc' \in {"recompute", "status"} /\ UNCHANGED <<stopped, ret>>
      BY <1>2, <2>3 DEF DFS!Stop
    <3> QED BY <2>1, <3>1 DEF DFS!Stream!vars
  <2> QED BY <2>2, <2>3
<1>3. CASE DFS!Exhausted
  <2>1. todo' = todo /\ todo = {}
    BY <1>0, <1>3, DFSQuiet
  <2>2. DFS!Stream!NoneLeft
    BY <1>3, <2>1 DEF DFS!Stream!NoneLeft, DFS!Exhausted, DFS!Goto
  <2> QED BY <2>2 DEF DFS!Stream!Next
<1>4. CASE DFS!RecomputeReuse \/ DFS!RecomputeClone \/ DFS!RecomputeFails \/ DFS!StatusFailed \/ DFS!StatusBranch
  <2>1. todo' = todo
    BY <1>0, <1>4, DFSReuses, DFSRecomputes, DFSUnwinds, DFSLeaves, DFSBranches
  <2>2. pc # "user" /\ pc' # "user" /\ UNCHANGED <<stopped, ret>>
    BY <1>4 DEF DFS!RecomputeReuse, DFS!RecomputeClone, DFS!RecomputeFails, DFS!StatusFailed, DFS!StatusBranch, DFS!Goto
  <2> QED BY <2>1, <2>2 DEF DFS!Stream!vars
<1>5. CASE DFS!StatusSolved
  <2>1. cur \in todo /\ cur \in DFSNode /\ (\A s \in todo : ~DFS!LeftOf(s, cur)) /\ todo' = todo \ {cur}
    BY <1>0, <1>5, DFSLeaves, DFSLeftOf
  <2>2. pc # "user" /\ pc' = "user" /\ stopped' = stopped /\ ret' = cur
    BY <1>5 DEF DFS!StatusSolved, DFS!Goto
  <2>3. DFS!Stream!Deliver(cur)
    BY <2>1, <2>2 DEF DFS!Stream!Deliver
  <2> QED BY <2>1, <2>3 DEF DFS!Stream!Next
<1>6. CASE DFS!Reset
  <2>1. todo' \in SUBSET DFSNode
    BY <1>0, <1>6, DFSResets
  <2>2. DFS!Stream!Replace
    BY <1>6, <2>1 DEF DFS!Stream!Replace, DFS!Reset
  <2> QED BY <2>2 DEF DFS!Stream!Next
<1>7. CASE UNCHANGED DFS!vars
  <2>1. UNCHANGED <<tree, cur, path, stopped, pc, ret>>
    BY <1>7 DEF DFS!vars
  <2>2. todo' = todo
    BY <1>0, <2>1 DEF DFSTodo
  <2> QED BY <2>1, <2>2 DEF DFS!Stream!vars
<1> QED BY <1>1, <1>2, <1>3, <1>4, <1>5, <1>6, <1>7 DEF DFS!Next, DFS!Loop

(***************************************************************************)
(* The operations on the path of branch-and-bound search are those that    *)
(* PathProofs is about, but for the bound that an edge holds.              *)
(***************************************************************************)
LEMMA BABChild == \A n, a : BAB!Child(n, a) = Child(n, a)
BY Zenon DEF BAB!Child, Child
LEMMA BABBelow == \A n, m : BAB!Below(n, m) <=> Below(n, m)
BY Zenon DEF BAB!Below, Below, BAB!IsPrefix, IsPrefix
LEMMA BABRightmost == \A e : BAB!Rightmost(e) <=> Rightmost(e)
BY Zenon DEF BAB!Rightmost, Rightmost
LEMMA BABLAO == \A e : BAB!LAO(e) <=> LAO(e)
BY Zenon DEF BAB!LAO, LAO
LEMMA BABTrueAlt == \A e : BAB!TrueAlt(e) = TrueAlt(e)
BY Zenon DEF BAB!TrueAlt, TrueAlt
LEMMA BABEdge == \A n, c, a : BAB!Edge(n, c, a) = Edge(n, c, a)
BY Zenon DEF BAB!Edge, Edge
LEMMA BABLast == \A p : BAB!Last(p) = Last(p)
BY Zenon DEF BAB!Last, Last
LEMMA BABPush == \A p, e : BAB!Push(p, e) = Push(p, e)
BY Zenon, BABLAO, BABLast DEF BAB!Push, Push, BAB!Front, Front
LEMMA BABNextAlt == \A p : BAB!NextAlt(p) = NextAlt(p)
BY Zenon DEF BAB!NextAlt, NextAlt, BAB!SelectLastInSeq, SelectLastInSeq, BAB!Max, Max, BAB!Rightmost, Rightmost
LEMMA BABLastCopy == \A p : BAB!LastCopy(p) = LastCopy(p)
BY Zenon DEF BAB!LastCopy, LastCopy, BAB!SelectLastInSeq, SelectLastInSeq, BAB!Max, Max
LEMMA BABCommits == \A p, i, j : BAB!Commits(p, i, j) = Commits(p, i, j)
BY Zenon DEF BAB!Commits, Commits
LEMMA BABCanReuse == \A p : BAB!CanReuse(p) <=> CanReuse(p)
BY Zenon, BABRightmost, BABLast DEF BAB!CanReuse, CanReuse
LEMMA BABReuse == \A p, n : BAB!Reuse(p, n) = Reuse(p, n)
BY Zenon, BABLast DEF BAB!Reuse, Reuse
LEMMA BABDistance == \A p : BAB!Distance(p) = Distance(p)
BY Zenon, BABLastCopy DEF BAB!Distance, Distance
LEMMA BABAdaptiveEdge == \A p : BAB!AdaptiveEdge(p) = AdaptiveEdge(p)
<1> TAKE p
<1>1. BAB!LastCopy(p) = LastCopy(p) /\ BAB!Distance(p) = Distance(p)
  BY BABLastCopy, BABDistance
<1>2. \A m, n : BAB!SelectInSubSeq(p, m, n, LAMBDA e : ~BAB!Rightmost(e)) = SelectInSubSeq(p, m, n, LAMBDA e : ~Rightmost(e))
  BY Zenon DEF BAB!SelectInSubSeq, SelectInSubSeq, BAB!Min, Min, BAB!Rightmost, Rightmost
<1> QED
  BY Zenon, <1>1, <1>2 DEF BAB!AdaptiveEdge, AdaptiveEdge
LEMMA BABPlacesCopy == \A p, a : BAB!PlacesCopy(p, a) <=> PlacesCopy(p, a)
BY Zenon, BABDistance, BABAdaptiveEdge DEF BAB!PlacesCopy, PlacesCopy
LEMMA BABIsTree == \A t, S : BAB!IsTree(t, S) <=> IsTree(t, S)
<1>1. \A t, n : BAB!InTree(t, n) <=> InTree(t, n)
  BY Zenon DEF BAB!InTree, InTree
<1> QED BY Zenon, <1>1, BABChild DEF BAB!IsTree, IsTree

LEMMA BABFailed == \A t, n : BAB!FailedIn(t, n) <=> FailedIn(t, n)
BY Zenon DEF BAB!FailedIn, FailedIn

LEMMA BABSolvedBelow == \A t, n : BAB!SolvedBelow(t, n) = SolvedBelow(t, n)
BY BABBelow DEF BAB!SolvedBelow, SolvedBelow

LEMMA BABFrontier == BAB!Frontier = Own(path, cur)
<1>1. UNION {{BAB!Child(path[i].node, a) : a \in path[i].alt + 1 .. path[i].altMax} : i \in DOMAIN path} = Pending(path)
  BY DEF Pending, BAB!Child, Child
<1>2. {BAB!Child(BAB!Last(path).node, BAB!Last(path).alt)} = {Child(Last(path).node, Last(path).alt)}
  BY BABChild, BABLast
<1>3. (IF cur # NoSpace THEN {cur}
       ELSE IF path # <<>> THEN {BAB!Child(BAB!Last(path).node, BAB!Last(path).alt)} ELSE {})
      = (IF cur # NoSpace THEN {cur} ELSE Top(path))
  BY Zenon, <1>2 DEF Top
<1> DEFINE X == UNION {{BAB!Child(path[i].node, a) : a \in path[i].alt + 1 .. path[i].altMax} : i \in DOMAIN path}
           Y == IF cur # NoSpace THEN {cur}
                ELSE IF path # <<>> THEN {BAB!Child(BAB!Last(path).node, BAB!Last(path).alt)} ELSE {}
<1>4. BAB!Frontier = X \cup Y
  BY DEF BAB!Frontier
<1>5. X = Pending(path) /\ Y = IF cur # NoSpace THEN {cur} ELSE Top(path)
  BY <1>1, <1>3
<1> HIDE DEF X, Y
<1> QED BY <1>4, <1>5 DEF Own

(***************************************************************************)
(* Branch-and-bound search.                                                *)
(***************************************************************************)
Solutions == tree.solved \cup {NoSpace}
BABEdges == BoundedEdges(Reached(tree), Solutions)
BABPath(p, c, x) ==
  SeqOK(Reached(tree), Offers(tree), BABEdges, p, c, x, opt.nogoods_limit, Near_c_d)

BABInv ==
  /\ IsTree(tree, BABNode) /\ tree.value \in [tree.solved -> BABValue]
  /\ opt \in [c_d : Nat, a_d : Nat, nogoods_limit : Nat]
  /\ curBound \in Solutions /\ best \in Solutions /\ ret \in Solutions /\ stopped \in BOOLEAN
  /\ pc \in {"user", "stop", "recompute", "status"}
  /\ pc = "status" => cur # NoSpace
  /\ pc = "recompute" => cur = NoSpace
  /\ mark \in Nat /\ (best = NoSpace => mark = 0)
  /\ cur # NoSpace => curBound = best
  /\ Marked(path, mark, best, tree.value)
  /\ BABPath(path, cur, d)

LEMMA BABAssumed ==
  /\ \A t \in BABTrees : IsTree(t, BABNode) /\ t.value \in [t.solved -> BABValue]
  /\ BABOptions \subseteq [c_d : Nat, a_d : Nat, nogoods_limit : Nat]
  /\ NoSpace \notin BABNode /\ BABValue \subseteq Int
BY BABAssumption, BABIsTree
   DEF BAB!TreesAssumption, BAB!OptionsAssumption, BAB!NoSpaceAssumption, BAB!ValueAssumption

LEMMA BABFacts ==
  ASSUME BABInv
  PROVE  /\ NoSpace \notin BABNode /\ IsTree(tree, BABNode)
         /\ PathAssumption(Reached(tree), Offers(tree), BABEdges)
         /\ Reached(tree) \subseteq BABNode /\ NoSpace \notin Reached(tree)
         /\ tree.solved \subseteq Reached(tree) /\ \A s \in tree.solved : tree.value[s] \in Int /\ s # NoSpace
         /\ opt.c_d \in Nat /\ opt.a_d \in Nat /\ opt.nogoods_limit \in Nat
         /\ Near_c_d \in Nat /\ Near_c_d > 0
         /\ \A n \in Reached(tree) : Offers(tree)[n] = tree.alternatives[n]
<1>1. /\ NoSpace \notin BABNode /\ IsTree(tree, BABNode) /\ opt.c_d \in Nat /\ opt.a_d \in Nat
      /\ opt.nogoods_limit \in Nat /\ \A s \in tree.solved : tree.value[s] \in Int
  BY BABAssumed DEF BABInv
<1>2. Reached(tree) \subseteq BABNode /\ tree.solved \subseteq Reached(tree)
  BY <1>1, TreeAssumed
<1>3. \A n \in Reached(tree) : Offers(tree)[n] = tree.alternatives[n]
  BY DEF Offers
<1>4. PathAssumption(Reached(tree), Offers(tree), BABEdges)
  BY <1>1, BoundedPath DEF BABEdges
<1> QED BY <1>1, <1>2, <1>3, <1>4 DEF Near_c_d

LEMMA BABKeeps ==
  ASSUME BABInv, tree' = tree, opt' = opt,
         curBound' \in Solutions, best' \in Solutions, ret' \in Solutions, stopped' \in BOOLEAN,
         pc' \in {"user", "stop", "recompute", "status"},
         pc' = "status" => cur' # NoSpace, pc' = "recompute" => cur' = NoSpace,
         mark' \in Nat, best' = NoSpace => mark' = 0, cur' # NoSpace => curBound' = best',
         Marked(path', mark', best', tree.value), BABPath(path', cur', d')
  PROVE  BABInv'
<1>1. BABPath(path, cur, d)'
  BY DEF BABPath, BABEdges, Solutions, Near_c_d
<1>2. Solutions' = Solutions
  BY DEF Solutions
<1>3. Marked(path, mark, best, tree.value)'
  BY DEF Marked
<1> QED BY <1>1, <1>2, <1>3 DEF BABInv

LEMMA BABInit == BAB!Init => BABInv
<1> SUFFICES ASSUME BAB!Init PROVE BABInv
  OBVIOUS
<1>1. tree \in BABTrees /\ opt \in BABOptions
  BY DEF BAB!Init
<1>2. /\ IsTree(tree, BABNode) /\ tree.value \in [tree.solved -> BABValue]
      /\ opt \in [c_d : Nat, a_d : Nat, nogoods_limit : Nat] /\ NoSpace \notin BABNode
  BY <1>1, BABAssumed
<1>3. /\ cur \in {<<>>, NoSpace} /\ path = <<>> /\ d = 0 /\ ret = NoSpace /\ stopped = FALSE /\ pc = "user"
      /\ curBound = NoSpace /\ best = NoSpace /\ mark = 0
  BY DEF BAB!Init, BAB!Root
<1>4. PathAssumption(Reached(tree), Offers(tree), BABEdges)
  BY <1>2, BoundedPath DEF BABEdges
<1>5. <<>> \in Reached(tree)
  BY <1>4, TreeIs
<1>6. Near_c_d \in Nat /\ Near_c_d > 0 /\ opt.nogoods_limit \in Nat
  BY <1>2 DEF Near_c_d
<1>7. BABPath(path, cur, d)
  BY <1>3, <1>4, <1>5, <1>6, SeqEmpty DEF BABPath
<1>8. Marked(path, mark, best, tree.value)
  BY <1>3 DEF Marked
<1> QED BY <1>2, <1>3, <1>7, <1>8 DEF BABInv, Solutions

(* the solutions that are left and better *)
BABTodo == {s \in Todo(tree, Own(path, cur)) : BAB!Better(s, best)}

LEMMA BABQuiet ==
  ASSUME BABInv, BAB!NextCall \/ BAB!Stop \/ BAB!Exhausted
  PROVE  BABInv' /\ BABTodo' = BABTodo /\ (BAB!Exhausted => BABTodo = {})
<1>1. UNCHANGED <<tree, opt, cur, curBound, path, d, mark, best>>
  BY DEF BAB!NextCall, BAB!Stop, BAB!Exhausted, BAB!ProblemUnchanged
<1>2. BABPath(path', cur', d') /\ Marked(path', mark', best', tree.value)
      /\ curBound' \in Solutions /\ best' \in Solutions /\ mark' \in Nat
      /\ (best' = NoSpace => mark' = 0) /\ (cur' # NoSpace => curBound' = best')
  BY <1>1 DEF BABInv
<1>3. /\ ret' \in Solutions /\ stopped' \in BOOLEAN
      /\ pc' \in {"user", "stop", "recompute", "status"}
      /\ pc' = "status" => cur' # NoSpace
      /\ pc' = "recompute" => cur' = NoSpace
  BY DEF BABInv, BAB!NextCall, BAB!Stop, BAB!Exhausted, BAB!Goto, Solutions
<1>4. BABTodo' = BABTodo
  BY <1>1 DEF BABTodo, BAB!Better
<1>5. ASSUME BAB!Exhausted PROVE BABTodo = {}
  <2>1. path = <<>> /\ cur = NoSpace
    BY <1>5 DEF BABInv, BAB!Exhausted, BAB!Goto
  <2>2. Own(path, cur) = {}
    BY <2>1, BABFacts, NothingLeft DEF Own
  <2> QED BY <2>2 DEF BABTodo, Todo
<1> QED BY <1>1, <1>2, <1>3, <1>4, <1>5, BABKeeps

LEMMA BABReuses ==
  ASSUME BABInv, BAB!RecomputeReuse
  PROVE  BABInv' /\ BABTodo' = BABTodo
<1> DEFINE o == Len(path)
           constrains == best # NoSpace /\ mark > o - 1
<1>1. /\ path # <<>> /\ CanReuse(path) /\ path' = Reuse(path, opt.nogoods_limit)
      /\ cur' = Child(Last(path).space, Last(path).alt) /\ d' = 0 /\ pc = "recompute" /\ pc' = "status"
      /\ IF constrains THEN curBound' = best /\ mark' = o - 1 ELSE curBound' = Last(path).bound /\ mark' = mark
      /\ UNCHANGED <<tree, opt, best, stopped, ret>>
  BY BABCanReuse, BABReuse, BABChild, BABLast DEF BAB!RecomputeReuse, BAB!Goto, BAB!ProblemUnchanged
<1>2. cur = NoSpace /\ BABPath(path, NoSpace, d)
  BY <1>1 DEF BABInv
<1>3. PathAssumption(Reached(tree), Offers(tree), BABEdges) /\ NoSpace \notin Reached(tree)
  BY BABFacts
<1> DEFINE c == Child(Last(path).node, Last(path).alt)
           q == Reuse(path, opt.nogoods_limit)
<1>0. c = Child(Last(path).node, Last(path).alt) /\ q = Reuse(path, opt.nogoods_limit)
  OBVIOUS
<1> HIDE DEF c, q
<1>4. BABPath(q, c, 0) /\ Last(path).space = Last(path).node /\ Own(q, c) = Own(path, NoSpace) /\ c \in Reached(tree)
  BY <1>0, <1>1, <1>2, <1>3, SeqReuse DEF BABPath
<1>5. cur' = c /\ path' = q /\ c # NoSpace
  BY <1>0, <1>1, <1>3, <1>4
<1>6. path \in Seq(BABEdges) /\ opt.nogoods_limit \in Nat /\ o \in Nat /\ o \in 1 .. o /\ Last(path) = path[o]
  BY <1>1, <1>2 DEF BABPath, SeqOK, WorkerOK, ShapeOK, Last
<1>7. q \in Seq(BABEdges) /\ KeptBounds(q, path) /\ Len(q) = o /\ q[o].space = NoSpace
  BY <1>0, <1>1, <1>3, <1>6, ReuseBounds DEF BABEdges
<1>8. Marked(path, mark, best, tree.value) /\ mark \in Nat /\ best \in Solutions /\ (best = NoSpace => mark = 0)
  BY DEF BABInv
<1>9. Marked(q, mark, best, tree.value)
  BY <1>6, <1>7, <1>8, KeptMarked
<1>10. curBound' = best
  <2>1. CASE constrains
    BY <1>1, <2>1
  <2>2. CASE ~constrains
    <3>1. o > mark
      BY <1>6, <1>8, <2>2
    <3>2. path[o].space # NoSpace
      BY <1>1, <1>6 DEF CanReuse
    <3> QED BY <1>1, <1>6, <1>8, <2>2, <3>1, <3>2 DEF Marked
  <2> QED BY <2>1, <2>2
<1>11. mark' \in Nat /\ (best = NoSpace => mark' = 0) /\ Marked(q, mark', best, tree.value)
  <2>1. CASE constrains
    <3>1. mark' = o - 1 /\ mark' \in Nat
      BY <1>1, <1>6, <2>1
    <3>2. \A i \in 1 .. Len(q) : i > mark' => i = o
      BY <1>6, <1>7, <3>1
    <3> QED BY <1>7, <1>9, <2>1, <3>1, <3>2 DEF Marked
  <2>2. CASE ~constrains
    BY <1>1, <1>8, <1>9, <2>2
  <2> QED BY <2>1, <2>2
<1>12. BABTodo' = BABTodo
  BY <1>1, <1>2, <1>4, <1>5 DEF BABTodo, BAB!Better
<1> HIDE DEF o, constrains
<1> QED BY <1>1, <1>4, <1>5, <1>8, <1>10, <1>11, <1>12, BABKeeps DEF BABInv

(* recompute() constrains the last clone *)
LEMMA BABConstrained ==
  ASSUME BABInv, pc = "recompute", path # <<>>, NEW p, p = BAB!ConstrainedPath, NEW m, m = BAB!ConstrainedMark
  PROVE  /\ BABPath(p, NoSpace, d) /\ Own(p, NoSpace) = Own(path, NoSpace) /\ p # <<>>
         /\ LastCopy(p) \in 1 .. Len(p) /\ p[LastCopy(p)].bound = best /\ p[LastCopy(p)].node \in Reached(tree)
         /\ p[LastCopy(p)].space = p[LastCopy(p)].node
         /\ m \in Nat /\ (best = NoSpace => m = 0) /\ Marked(p, m, best, tree.value)
         /\ p \in Seq(BABEdges) /\ ShapeOK(Offers(tree), BABEdges, p, opt.nogoods_limit)
         /\ LastCopy(p) = LastCopy(path) /\ Distance(p) \in Nat
<1> DEFINE j == LastCopy(path)
           constrains == best # NoSpace /\ j - 1 < mark
<1>1. /\ p = IF constrains THEN [path EXCEPT ![j].bound = best] ELSE path
      /\ m = IF constrains THEN j - 1 ELSE mark
  BY BABLastCopy DEF BAB!ConstrainedPath, BAB!ConstrainedMark, BAB!Constrains
<1>2. cur = NoSpace /\ BABPath(path, NoSpace, d) /\ best \in Solutions /\ mark \in Nat /\ (best = NoSpace => mark = 0)
      /\ Marked(path, mark, best, tree.value)
  BY DEF BABInv
<1>3. PathAssumption(Reached(tree), Offers(tree), BABEdges) /\ opt.nogoods_limit \in Nat
      /\ \A s \in tree.solved : tree.value[s] \in Int /\ s # NoSpace
  BY BABFacts
<1>4. /\ ShapeOK(Offers(tree), BABEdges, path, opt.nogoods_limit) /\ HasCopy(path, Len(path))
      /\ path \in Seq(BABEdges) /\ Len(path) \in Nat
  BY <1>2 DEF BABPath, SeqOK, WorkerOK, ShapeOK, PointsOK
<1>5. j = LastCopy(path)
  OBVIOUS
<1> HIDE DEF j
<1>6. /\ j \in 1 .. Len(path) /\ path[j].space = path[j].node /\ path[j].space # NoSpace
      /\ \A i \in j + 1 .. Len(path) : path[i].space = NoSpace
  BY <1>3, <1>4, <1>5, LastCopyOK
<1>7. Alike(BABEdges, p, path) /\ p[j].bound = best /\ \A i \in 1 .. Len(path) : i # j => p[i] = path[i]
  <2>1. CASE constrains
    <3>1. p = [path EXCEPT ![j].bound = best]
      BY <1>1, <2>1
    <3> DEFINE N == Reached(tree)
               B == Solutions
               T == BoundedEdges(N, B)
    <3>2. T = BABEdges /\ T = BoundedEdges(N, B) /\ best \in B
      BY <1>2 DEF BABEdges
    <3> HIDE DEF N, B, T
    <3>3. path \in Seq(T) /\ j \in 1 .. Len(path)
      BY <1>4, <1>6, <3>2
    <3>4. Alike(T, p, path)
      BY <3>1, <3>2, <3>3, BoundAlike DEF Alike
    <3>5. p[j].bound = best /\ \A i \in 1 .. Len(path) : i # j => p[i] = path[i]
      BY <3>1, <3>2, <3>3, BoundAlike
    <3> QED BY <3>2, <3>4, <3>5
  <2>2. CASE ~constrains
    <3>1. p = path
      BY <1>1, <2>2
    <3>2. j > mark
      BY <1>2, <1>4, <1>6, <2>2
    <3>3. p[j].bound = best
      BY <1>2, <1>6, <3>1, <3>2 DEF Marked
    <3> QED BY <1>4, <3>1, <3>3 DEF Alike
  <2> QED BY <2>1, <2>2
<1>8. BABPath(p, NoSpace, d) /\ Own(p, NoSpace) = Own(path, NoSpace)
  BY <1>2, <1>3, <1>7, SeqAlike DEF BABPath
<1>9. LastCopy(p) = j
  BY <1>3, <1>4, <1>5, <1>7, LastCopySame
<1>10. Len(p) = Len(path) /\ p \in Seq(BABEdges) /\ p # <<>> /\ \A i \in 1 .. Len(path) : p[i].space = path[i].space /\ p[i].node = path[i].node
  BY <1>4, <1>7 DEF Alike
<1>11. m \in Nat /\ (best = NoSpace => m = 0) /\ Marked(p, m, best, tree.value)
  <2>0. best # NoSpace => tree.value[best] \in Int
    BY <1>2, <1>3 DEF Solutions
  <2>1. CASE constrains
    <3>1. m = j - 1 /\ m \in Nat /\ best # NoSpace
      BY <1>1, <1>4, <1>6, <2>1
    <3>2. ASSUME NEW i \in 1 .. Len(p), p[i].space # NoSpace
          PROVE  /\ i > m => p[i].bound = best
                 /\ p[i].bound # NoSpace => best # NoSpace /\ tree.value[best] <= tree.value[p[i].bound]
      <4>1. CASE i = j
        BY <1>7, <2>0, <3>1, <4>1
      <4>2. CASE i < j
        BY <1>2, <1>7, <1>10, <3>1, <3>2, <4>2, <1>4, <1>6 DEF Marked
      <4>3. CASE j < i
        <5>1. i \in j + 1 .. Len(path)
          BY <1>10, <4>3, <1>4, <1>6
        <5> QED BY <5>1, <1>6, <1>10, <3>2
      <4> QED BY <1>4, <1>6, <4>1, <4>2, <4>3
    <3> QED BY <3>1, <3>2 DEF Marked
  <2>2. CASE ~constrains
    BY <1>1, <1>2, <2>2
  <2> QED BY <2>1, <2>2
<1>12. p[j].node \in Reached(tree) /\ j \in 1 .. Len(p)
  BY <1>3, <1>6, <1>10, EdgeTyped
<1>13. ShapeOK(Offers(tree), BABEdges, p, opt.nogoods_limit)
  BY <1>8 DEF BABPath, SeqOK, WorkerOK
<1>14. Distance(p) \in Nat
  BY <1>9, <1>12, <1>10, <1>4 DEF Distance
<1>15. p[j].space = p[j].node /\ p[j].bound = best
  BY <1>6, <1>7, <1>10
<1> QED BY <1>5, <1>8, <1>9, <1>10, <1>11, <1>12, <1>13, <1>14, <1>15

Cloned(e) == [e EXCEPT !.space = e.node]
Rebound(e, b) == [e EXCEPT !.bound = b]

LEMMA PlacedEdge ==
  ASSUME NEW N, NEW B, NEW T, T = BoundedEdges(N, B), NEW e \in T, e.node \in N, NEW b \in B
  PROVE  /\ Cloned(e) \in T /\ Rebound(Cloned(e), b) \in T
         /\ Rebound(Cloned(e), b).node = Cloned(e).node /\ Rebound(Cloned(e), b).space = Cloned(e).space
         /\ Rebound(Cloned(e), b).alt = Cloned(e).alt /\ Rebound(Cloned(e), b).altMax = Cloned(e).altMax
         /\ Rebound(Cloned(e), b).alternatives = Cloned(e).alternatives
         /\ Rebound(Cloned(e), b).bound = b
<1>1. Cloned(e) \in T
  BY DEF BoundedEdges, Cloned
<1> HIDE DEF Cloned
<1>2. ASSUME NEW f \in T
      PROVE  /\ Rebound(f, b) \in T /\ Rebound(f, b).node = f.node /\ Rebound(f, b).space = f.space
             /\ Rebound(f, b).alt = f.alt /\ Rebound(f, b).altMax = f.altMax
             /\ Rebound(f, b).alternatives = f.alternatives /\ Rebound(f, b).bound = b
  BY BoundIs DEF Rebound
<1> QED BY <1>1, <1>2

LEMMA PlacedMarked ==
  ASSUME NEW T, NEW p \in Seq(T), NEW i \in 1 .. Len(p),
         NEW b, NEW m, NEW V, Marked(p, m, b, V), b # NoSpace => V[b] \in Int,
         NEW f \in T, NEW g \in T,
         g.node = f.node, g.space = f.space, g.alt = f.alt, g.altMax = f.altMax,
         g.alternatives = f.alternatives, g.bound = b,
         NEW u, u = [p EXCEPT ![i] = f], NEW q, q = [p EXCEPT ![i] = g]
  PROVE  Alike(T, q, u) /\ Marked(q, m, b, V)
<1>6. u \in Seq(T) /\ Len(u) = Len(p) /\ u[i] = f /\ \A j \in 1 .. Len(p) : j # i => u[j] = p[j]
  BY UpdateIs
<1>7. q \in Seq(T) /\ Len(q) = Len(p) /\ q[i] = g /\ \A j \in 1 .. Len(p) : j # i => q[j] = p[j]
  BY UpdateIs
<1>8. Marked(q, m, b, V)
  <2> SUFFICES ASSUME NEW j \in 1 .. Len(p), q[j].space # NoSpace
               PROVE  /\ j > m => q[j].bound = b
                      /\ q[j].bound # NoSpace => b # NoSpace /\ V[b] <= V[q[j].bound]
    BY <1>7 DEF Marked
  <2>1. CASE j = i
    BY <1>7, <2>1
  <2>2. CASE j # i
    BY <1>7, <2>2 DEF Marked
  <2> QED BY <2>1, <2>2
<1>9. \A j \in 1 .. Len(p) :
              /\ q[j].node = u[j].node /\ q[j].space = u[j].space
              /\ q[j].alternatives = u[j].alternatives
              /\ q[j].alt = u[j].alt /\ q[j].altMax = u[j].altMax
  <2> TAKE j \in 1 .. Len(p)
  <2>1. CASE j = i
    BY <1>6, <1>7, <2>1
  <2>2. CASE j # i
    BY <1>6, <1>7, <2>2
  <2> QED BY <2>1, <2>2
<1> QED BY <1>6, <1>7, <1>8, <1>9 DEF Alike

LEMMA BABRecomputes ==
  ASSUME BABInv, BAB!RecomputeClone
  PROVE  BABInv' /\ BABTodo' = BABTodo
<1> DEFINE p == BAB!ConstrainedPath
           m == BAB!ConstrainedMark
           j == LastCopy(p)
           c == Commits(p, j, Len(p))
           i == AdaptiveEdge(p)
           x == Commits(p, j, i - 1)
           q == [p EXCEPT ![i].space = x, ![i].bound = p[j].bound]
<1>1. /\ path # <<>> /\ cur' = c /\ pc = "recompute" /\ pc' = "status" /\ curBound' = p[j].bound /\ mark' = m
      /\ UNCHANGED <<tree, opt, best, stopped, ret>>
      /\ IF PlacesCopy(p, opt.a_d) THEN path' = q /\ d' = Len(p) - i + 1
                                   ELSE path' = p /\ d' = Distance(p)
  BY BABCommits, BABLastCopy, BABPlacesCopy, BABAdaptiveEdge, BABDistance
     DEF BAB!RecomputeClone, BAB!Goto, BAB!ProblemUnchanged
<1>2. p = BAB!ConstrainedPath /\ m = BAB!ConstrainedMark
  OBVIOUS
<1>3. cur = NoSpace
  BY <1>1 DEF BABInv
<1>4. c = Commits(p, LastCopy(p), Len(p)) /\ i = AdaptiveEdge(p) /\ j = LastCopy(p) /\ x = Commits(p, LastCopy(p), i - 1)
      /\ q = [p EXCEPT ![i].space = x, ![i].bound = p[j].bound]
  OBVIOUS
<1> HIDE DEF p, m, j, c, i, x, q
<1>5. /\ BABPath(p, NoSpace, d) /\ Own(p, NoSpace) = Own(path, NoSpace) /\ p # <<>>
      /\ p[j].bound = best /\ m \in Nat /\ (best = NoSpace => m = 0) /\ Marked(p, m, best, tree.value)
      /\ p \in Seq(BABEdges)
  BY <1>1, <1>2, <1>4, BABConstrained
<1>6. PathAssumption(Reached(tree), Offers(tree), BABEdges) /\ NoSpace \notin Reached(tree)
      /\ opt.a_d \in Nat /\ best \in Solutions /\ (best # NoSpace => tree.value[best] \in Int)
  <2>1. best \in Solutions
    BY DEF BABInv
  <2> QED BY <2>1, BABFacts DEF Solutions
<1>7. /\ c = Child(Last(p).node, Last(p).alt) /\ c # NoSpace
      /\ BABPath(p, c, Distance(p)) /\ Own(p, c) = Own(p, NoSpace)
  <2>1. /\ c = Child(Last(p).node, Last(p).alt)
        /\ BABPath(p, c, Distance(p)) /\ Own(p, c) = Own(p, NoSpace)
    BY <1>4, <1>5, <1>6, SeqRecompute DEF BABPath
  <2>2. c \in Reached(tree)
    BY <1>4, <1>5, <1>6, SeqRecompute DEF BABPath
  <2> QED BY <1>6, <2>1, <2>2
<1>8. ASSUME PlacesCopy(p, opt.a_d)
      PROVE BABPath(q, c, Len(p) - i + 1) /\ Own(q, c) = Own(p, NoSpace) /\ Marked(q, m, best, tree.value)
  <2>1. i \in 1 .. Len(p) /\ p[i].node \in Reached(tree) /\ x = p[i].node
    BY <1>4, <1>5, <1>6, <1>7, <1>8, SeqPlace DEF BABPath
  <2> DEFINE u == Placed(p, i)
  <2>2. u = Placed(p, i)
    OBVIOUS
  <2> HIDE DEF u
  <2>3. BABPath(u, c, Len(p) - i + 1) /\ Own(u, c) = Own(p, NoSpace)
    BY <1>4, <1>5, <1>6, <1>7, <1>8, <2>2, SeqPlace DEF BABPath
  <2>4. Alike(BABEdges, q, u) /\ Marked(q, m, best, tree.value)
    <3> DEFINE N == Reached(tree)
               B == Solutions
               T == BoundedEdges(N, B)
    <3>1. T = BABEdges /\ T = BoundedEdges(N, B) /\ best \in B /\ p \in Seq(T) /\ p[i].node \in N
      BY <1>5, <1>6, <2>1 DEF BABEdges
    <3> DEFINE e == p[i]
               f == Cloned(e)
               g == Rebound(f, best)
    <3>2. q = [p EXCEPT ![i] = g]
      BY <1>4, <1>5, <2>1 DEF Cloned, Rebound
    <3>3. u = [p EXCEPT ![i] = f]
      BY <2>2 DEF Placed, Cloned
    <3> HIDE DEF N, B, T
    <3>4. e \in T /\ e.node \in N
      BY <2>1, <3>1
    <3>6. f = Cloned(e) /\ g = Rebound(f, best)
      OBVIOUS
    <3> HIDE DEF e, f, g
    <3>7. /\ f \in T /\ g \in T /\ g.node = f.node /\ g.space = f.space /\ g.alt = f.alt /\ g.altMax = f.altMax
          /\ g.alternatives = f.alternatives /\ g.bound = best
      BY <3>1, <3>4, <3>6, PlacedEdge
    <3>5. Alike(T, q, u) /\ Marked(q, m, best, tree.value)
      BY <1>5, <1>6, <2>1, <3>1, <3>2, <3>3, <3>7, PlacedMarked
    <3> QED BY <3>1, <3>5
  <2> QED BY <1>6, <2>3, <2>4, SeqAlike DEF BABPath
<1>9. BABPath(path', cur', d') /\ Own(path', cur') = Own(path, NoSpace) /\ Marked(path', m, best, tree.value)
  BY <1>1, <1>5, <1>7, <1>8
<1>10. BABTodo' = BABTodo
  BY <1>1, <1>3, <1>9 DEF BABTodo, BAB!Better
<1> QED BY <1>1, <1>5, <1>6, <1>7, <1>9, <1>10, BABKeeps DEF BABInv

LEMMA BABUnwinds ==
  ASSUME BABInv, BAB!RecomputeFails
  PROVE  BABInv' /\ BABTodo' = BABTodo
<1> DEFINE p == BAB!ConstrainedPath
           m == BAB!ConstrainedMark
           j == LastCopy(p)
           i == AdaptiveEdge(p)
<1>1. /\ path # <<>> /\ d' = Distance(p) /\ pc = "recompute" /\ mark' = m
      /\ UNCHANGED <<tree, opt, cur, curBound, best, stopped, pc, ret>>
      /\ \/ BAB!MayFail(p[j].space, best) /\ path' = NextAlt(SubSeq(p, 1, j - 1))
         \/ /\ PlacesCopy(p, opt.a_d) /\ BAB!MayFail(Commits(p, j, i - 1), p[j].bound)
            /\ path' = NextAlt(SubSeq(p, 1, i - 1))
  BY BABCommits, BABLastCopy, BABPlacesCopy, BABAdaptiveEdge, BABDistance, BABNextAlt
     DEF BAB!RecomputeFails, BAB!ProblemUnchanged
<1>2. p = BAB!ConstrainedPath /\ m = BAB!ConstrainedMark
  OBVIOUS
<1>3. cur = NoSpace
  BY <1>1 DEF BABInv
<1>4. i = AdaptiveEdge(p) /\ j = LastCopy(p)
  OBVIOUS
<1> HIDE DEF p, m, j, i
<1>5. /\ BABPath(p, NoSpace, d) /\ Own(p, NoSpace) = Own(path, NoSpace) /\ p # <<>>
      /\ p[j].bound = best /\ m \in Nat /\ (best = NoSpace => m = 0) /\ Marked(p, m, best, tree.value)
      /\ p \in Seq(BABEdges) /\ j \in 1 .. Len(p) /\ p[j].node \in Reached(tree) /\ p[j].space = p[j].node
      /\ Distance(p) \in Nat /\ ShapeOK(Offers(tree), BABEdges, p, opt.nogoods_limit)
  BY <1>1, <1>2, <1>4, BABConstrained
<1>6. PathAssumption(Reached(tree), Offers(tree), BABEdges) /\ NoSpace \notin Reached(tree)
      /\ opt.a_d \in Nat /\ opt.nogoods_limit \in Nat
  BY BABFacts
<1>7. PICK n \in 1 .. Len(p) :
         p[n].node \in Reached(tree) /\ BAB!MayFail(p[n].node, best) /\ path' = NextAlt(SubSeq(p, 1, n - 1))
  <2>1. CASE BAB!MayFail(p[j].space, best) /\ path' = NextAlt(SubSeq(p, 1, j - 1))
    <3>1. BAB!MayFail(p[j].node, best)
      BY <1>5, <2>1
    <3> QED BY <1>5, <2>1, <3>1
  <2>2. CASE /\ PlacesCopy(p, opt.a_d) /\ BAB!MayFail(Commits(p, j, i - 1), p[j].bound)
             /\ path' = NextAlt(SubSeq(p, 1, i - 1))
    <3>1. /\ i \in 1 .. Len(p) /\ p[i].node \in Reached(tree)
          /\ Commits(p, LastCopy(p), i - 1) = p[i].node
      BY <1>4, <1>5, <1>6, <2>2, SeqPlace DEF BABPath
    <3>2. BAB!MayFail(p[i].node, best)
      BY <1>4, <1>5, <2>2, <3>1
    <3> QED BY <2>2, <3>1, <3>2
  <2> QED BY <1>1, <2>1, <2>2
<1> DEFINE q == NextAlt(SubSeq(p, 1, n - 1))
           F == Own(p, NoSpace)
           G == Own(q, NoSpace)
<1>8. q = NextAlt(SubSeq(p, 1, n - 1)) /\ path' = q
  BY <1>7
<1> HIDE DEF q
<1>9. BABPath(q, NoSpace, Distance(p)) /\ G \subseteq F /\ \A s \in F \ G : Below(p[n].node, s)
  BY <1>5, <1>6, <1>7, <1>8, SeqUnwind DEF BABPath
<1>10. Marked(q, m, best, tree.value)
  <2> DEFINE N == Reached(tree)
             B == Solutions
             T == BoundedEdges(N, B)
             A == Offers(tree)
             ng == opt.nogoods_limit
  <2>1. T = BABEdges /\ T = BoundedEdges(N, B) /\ PathAssumption(N, A, T) /\ ng \in Nat /\ ShapeOK(A, T, p, ng)
        /\ p \in Seq(T)
    BY <1>5, <1>6 DEF BABEdges
  <2> HIDE DEF N, B, T, A, ng
  <2>2. q \in Seq(T) /\ KeptBounds(q, p)
    BY <1>7, <1>8, <2>1, UnwoundBounds
  <2> QED BY <1>5, <2>1, <2>2, KeptMarked
<1>11. BABTodo' = BABTodo
  <2>1. F \subseteq Reached(tree)
    BY <1>5, <1>6, OwnNodes DEF BABPath, SeqOK
  <2>2. F = Own(path, cur) /\ G = Own(q, NoSpace)
    BY <1>3, <1>5
  <2> HIDE DEF F, G
  <2>3. IsTree(tree, BABNode) /\ NoSpace \notin BABNode
    BY BABFacts
  <2>4. ASSUME NEW s \in tree.solved, BAB!Better(s, best) PROVE s \in Todo(tree, G) <=> s \in Todo(tree, F)
    <3>1. ~Below(p[n].node, s)
      BY <1>7, <2>4, BABBelow DEF BAB!MayFail, BAB!SolvedBelow
    <3> QED BY <1>6, <1>7, <1>9, <2>1, <2>3, <3>1, TodoUnwound
  <2>5. \A s : s \in Todo(tree, F) \/ s \in Todo(tree, G) => s \in tree.solved
    BY TodoIs
  <2>6. BABTodo = {s \in Todo(tree, F) : BAB!Better(s, best)}
    BY <2>2 DEF BABTodo
  <2>7. BABTodo' = {s \in Todo(tree, G) : BAB!Better(s, best)}
    BY <1>1, <1>3, <1>8, <2>2 DEF BABTodo, BAB!Better
  <2> QED BY <2>4, <2>5, <2>6, <2>7
<1> HIDE DEF F, G
<1> QED BY <1>1, <1>3, <1>5, <1>8, <1>9, <1>10, <1>11, BABKeeps DEF BABInv

LEMMA BABAdvances ==
  ASSUME BABInv, cur # NoSpace
  PROVE  /\ BABPath(NextAlt(path), NoSpace, d) /\ Own(NextAlt(path), NoSpace) = Pending(path)
         /\ NextAlt(path) \in Seq(BABEdges) /\ KeptBounds(NextAlt(path), path) /\ path \in Seq(BABEdges)
         /\ cur \in Reached(tree) /\ BABPath(path, cur, d) /\ curBound = best
<1> DEFINE q == NextAlt(path)
<1>0. q = NextAlt(path)
  OBVIOUS
<1> HIDE DEF q
<1>1. BABPath(path, cur, d) /\ curBound = best
  BY DEF BABInv
<1>2. PathAssumption(Reached(tree), Offers(tree), BABEdges) /\ opt.nogoods_limit \in Nat
  BY BABFacts
<1>3. cur \in Reached(tree) /\ d \in Nat /\ ShapeOK(Offers(tree), BABEdges, path, opt.nogoods_limit) /\ path \in Seq(BABEdges)
  BY <1>1 DEF BABPath, SeqOK, WorkerOK, ShapeOK
<1>4. BABPath(q, NoSpace, d) /\ Own(q, NoSpace) = Pending(path)
  BY <1>0, <1>1, <1>2, <1>3, SeqAdvance DEF BABPath
<1>5. q \in Seq(BABEdges) /\ KeptBounds(q, path)
  <2> DEFINE N == Reached(tree)
             B == Solutions
             T == BoundedEdges(N, B)
             A == Offers(tree)
             ng == opt.nogoods_limit
  <2>1. T = BABEdges /\ T = BoundedEdges(N, B) /\ PathAssumption(N, A, T) /\ ng \in Nat /\ ShapeOK(A, T, path, ng)
    BY <1>2, <1>3 DEF BABEdges
  <2> HIDE DEF N, B, T, A, ng
  <2>2. q \in Seq(T) /\ KeptBounds(q, path)
    BY <1>0, <2>1, NextAltBounds
  <2> QED BY <2>1, <2>2
<1> QED BY <1>0, <1>1, <1>3, <1>4, <1>5

LEMMA BABFails ==
  ASSUME BABInv, BAB!StatusFailed
  PROVE  BABInv' /\ BABTodo' = BABTodo
<1>1. /\ cur' = NoSpace /\ curBound' = NoSpace /\ path' = NextAlt(path) /\ pc = "status" /\ pc' = "stop"
      /\ UNCHANGED <<tree, opt, d, mark, best, stopped, ret>>
      /\ BAB!MayFail(cur, curBound)
  BY BABNextAlt DEF BAB!StatusFailed, BAB!Goto, BAB!ProblemUnchanged
<1>2. cur # NoSpace
  BY <1>1 DEF BABInv
<1>3. /\ BABPath(path', NoSpace, d) /\ Own(path', NoSpace) = Pending(path)
      /\ path' \in Seq(BABEdges) /\ KeptBounds(path', path) /\ path \in Seq(BABEdges)
      /\ cur \in Reached(tree) /\ curBound = best
  BY <1>1, <1>2, BABAdvances
<1>4. Marked(path, mark, best, tree.value)
  BY DEF BABInv
<1>5. Marked(path', mark, best, tree.value)
  BY <1>3, <1>4, KeptMarked
<1>6. Own(path, cur) = Pending(path) \cup {cur}
  BY <1>2 DEF Own
<1>7. \A s \in tree.solved : BAB!Better(s, best) => ~Below(cur, s)
  BY <1>1, <1>3, BABBelow DEF BAB!MayFail, BAB!SolvedBelow
<1>8. \A s : s \in Todo(tree, Pending(path)) /\ BAB!Better(s, best) <=> s \in Todo(tree, Own(path, cur)) /\ BAB!Better(s, best)
  BY <1>6, <1>7, TodoIs
<1>9. BABTodo' = {s \in Todo(tree, Pending(path)) : BAB!Better(s, best)}
  BY <1>1, <1>3 DEF BABTodo, BAB!Better
<1>10. BABTodo' = BABTodo
  BY <1>8, <1>9 DEF BABTodo
<1> QED BY <1>1, <1>3, <1>5, <1>10, BABKeeps DEF BABInv, Solutions

LEMMA BABSolves ==
  ASSUME BABInv, BAB!StatusSolved
  PROVE  /\ BABInv'
         /\ cur \in BABTodo /\ cur # NoSpace
         /\ BABTodo' = {s \in BABTodo : tree.value[s] < tree.value[cur]}
<1>1. /\ cur' = NoSpace /\ curBound' = NoSpace /\ path' = NextAlt(path) /\ pc = "status" /\ pc' = "user"
      /\ UNCHANGED <<tree, opt, d, stopped>> /\ best' = cur /\ ret' = cur /\ mark' = Len(path')
      /\ cur \in tree.solved /\ BAB!Better(cur, curBound)
  BY BABNextAlt DEF BAB!StatusSolved, BAB!Goto, BAB!ProblemUnchanged
<1>2. cur # NoSpace
  BY <1>1 DEF BABInv
<1>3. /\ BABPath(path', NoSpace, d) /\ Own(path', NoSpace) = Pending(path)
      /\ path' \in Seq(BABEdges) /\ KeptBounds(path', path) /\ path \in Seq(BABEdges)
      /\ cur \in Reached(tree) /\ BABPath(path, cur, d) /\ curBound = best
  BY <1>1, <1>2, BABAdvances
<1>4. Marked(path, mark, best, tree.value) /\ best \in Solutions
  BY DEF BABInv
<1>5. /\ PathAssumption(Reached(tree), Offers(tree), BABEdges) /\ IsTree(tree, BABNode) /\ NoSpace \notin BABNode
      /\ \A s \in tree.solved : tree.value[s] \in Int
  BY BABFacts
<1>6. best # NoSpace => tree.value[best] \in Int /\ best \in tree.solved /\ tree.value[cur] < tree.value[best]
  BY <1>1, <1>3, <1>4, <1>5 DEF BAB!Better, Solutions
<1>7. Marked(path', mark, best, tree.value)
  BY <1>3, <1>4, KeptMarked
<1>8. mark' \in Nat /\ Len(path') \in Nat
  BY <1>1, <1>3
<1>9. Marked(path', mark', cur, tree.value)
  <2> SUFFICES ASSUME NEW i \in 1 .. Len(path'), path'[i].space # NoSpace
               PROVE  /\ i > mark' => path'[i].bound = cur
                      /\ path'[i].bound # NoSpace => cur # NoSpace /\ tree.value[cur] <= tree.value[path'[i].bound]
    BY DEF Marked
  <2>1. ~(i > mark')
    BY <1>1, <1>8
  <2>2. ASSUME path'[i].bound # NoSpace PROVE tree.value[cur] <= tree.value[path'[i].bound]
    <3>1. best # NoSpace /\ tree.value[best] <= tree.value[path'[i].bound]
      BY <1>7, <2>2 DEF Marked
    <3>2. path'[i].bound \in Solutions
      <4> DEFINE e == path'[i]
      <4>1. e \in BABEdges
        BY <1>3
      <4> HIDE DEF e
      <4>2. e.bound \in Solutions
        BY <4>1 DEF BABEdges, BoundedEdges
      <4> QED BY <4>2 DEF e
    <3>3. tree.value[path'[i].bound] \in Int /\ tree.value[cur] \in Int
      BY <1>1, <1>5, <2>2, <3>2 DEF Solutions
    <3> QED BY <1>6, <3>1, <3>3
  <2> QED BY <1>2, <2>1, <2>2
<1>10. /\ cur \in Todo(tree, Own(path, cur))
       /\ Todo(tree, Pending(path)) = Todo(tree, Own(path, cur)) \ {cur}
  BY <1>1, <1>3, <1>5, TodoSolved DEF BABPath
<1>11. cur \in BABTodo
  BY <1>1, <1>3, <1>10 DEF BABTodo
<1>12. BABTodo' = {s \in Todo(tree, Pending(path)) : tree.value[s] < tree.value[cur]}
  BY <1>1, <1>2, <1>3 DEF BABTodo, BAB!Better
<1>13. \A s \in Todo(tree, Own(path, cur)) : s \in tree.solved /\ tree.value[s] \in Int
  BY <1>5, TodoIs
<1>14. BABTodo' = {s \in BABTodo : tree.value[s] < tree.value[cur]}
  <2>1. tree.value[cur] \in Int /\ ~(tree.value[cur] < tree.value[cur])
    BY <1>1, <1>5
  <2>2. \A s \in Todo(tree, Own(path, cur)) : tree.value[s] < tree.value[cur] => BAB!Better(s, best)
    BY <1>6, <1>13, <2>1 DEF BAB!Better
  <2>3. \A s : s \in BABTodo' <=> s \in BABTodo /\ tree.value[s] < tree.value[cur]
    BY <1>10, <1>12, <2>1, <2>2 DEF BABTodo
  <2>4. BABTodo' = {s \in BABTodo : tree.value[s] < tree.value[cur]}
    <3> DEFINE X == BABTodo'
    <3>1. \A s : s \in X <=> s \in BABTodo /\ tree.value[s] < tree.value[cur]
      BY <2>3
    <3> HIDE DEF X
    <3>2. X = {s \in BABTodo : tree.value[s] < tree.value[cur]}
      BY <3>1
    <3> QED BY <3>2 DEF X
  <2> QED BY <2>4
<1>15. BABInv'
  <2>1. cur \in Solutions
    BY <1>1 DEF Solutions
  <2> QED BY <1>1, <1>2, <1>3, <1>8, <1>9, <2>1, BABKeeps DEF BABInv, Solutions
<1> QED BY <1>2, <1>11, <1>14, <1>15

LEMMA BABResets ==
  ASSUME BABInv, BAB!Reset
  PROVE  BABInv' /\ BABTodo' \subseteq tree.solved
<1>1. /\ cur' \in {<<>>, NoSpace} /\ path' = <<>> /\ d' = 0 /\ pc = "user" /\ curBound' = NoSpace
      /\ mark' = 0 /\ best' = NoSpace
      /\ UNCHANGED <<tree, opt, stopped, pc, ret>>
  BY DEF BAB!Reset, BAB!Root, BAB!ProblemUnchanged
<1>2. /\ PathAssumption(Reached(tree), Offers(tree), BABEdges) /\ IsTree(tree, BABNode)
      /\ <<>> \in Reached(tree) /\ opt.nogoods_limit \in Nat /\ Near_c_d \in Nat /\ Near_c_d > 0
  BY BABFacts, TreeIs
<1>3. BABPath(path', cur', d')
  BY <1>1, <1>2, SeqEmpty DEF BABPath
<1>4. BABTodo' \subseteq tree.solved
  BY <1>1 DEF BABTodo, Todo, SolvedBelow
<1>5. Marked(path', mark', best', tree.value)
  BY <1>1 DEF Marked
<1> QED BY <1>1, <1>3, <1>4, <1>5, BABKeeps DEF BABInv, Solutions

(* constrain() *)
LEMMA BABConstrains ==
  ASSUME BABInv, NEW s \in tree.solved, BAB!Constrain(s)
  PROVE  /\ BABInv' /\ UNCHANGED <<tree, stopped, pc, ret>> /\ pc = "user"
         /\ BABTodo' = BABTodo \/ BABTodo' = {t \in BABTodo : tree.value[t] < tree.value[s]}
<1>1. /\ UNCHANGED <<tree, opt, cur, path, d, stopped, pc, ret>> /\ pc = "user"
      /\ IF best # NoSpace /\ BAB!Better(best, s)
         THEN UNCHANGED <<best, curBound, mark>>
         ELSE best' = s /\ curBound' = (IF cur # NoSpace THEN s ELSE curBound) /\ mark' = Len(path)
  BY DEF BAB!Constrain, BAB!ProblemUnchanged
<1>2. /\ BABPath(path, cur, d) /\ best \in Solutions /\ mark \in Nat /\ Marked(path, mark, best, tree.value)
      /\ curBound \in Solutions
  BY DEF BABInv
<1>3. path \in Seq(BABEdges) /\ Len(path) \in Nat
  BY <1>2 DEF BABPath, SeqOK, WorkerOK, ShapeOK
<1>4. \A t \in tree.solved : tree.value[t] \in Int /\ t # NoSpace
  BY BABFacts
<1>5. CASE best # NoSpace /\ BAB!Better(best, s)
  <2>1. BABTodo' = BABTodo
    BY <1>1, <1>5 DEF BABTodo, BAB!Better
  <2> QED BY <1>1, <1>2, <1>5, <2>1, BABKeeps DEF BABInv
<1>6. CASE ~(best # NoSpace /\ BAB!Better(best, s))
  <2>1. best' = s /\ curBound' = (IF cur # NoSpace THEN s ELSE curBound) /\ mark' = Len(path) /\ s # NoSpace
    BY <1>1, <1>4, <1>6
  <2>2. best # NoSpace => best \in tree.solved /\ tree.value[best] \in Int /\ tree.value[s] <= tree.value[best]
    BY <1>2, <1>4, <1>6 DEF BAB!Better, Solutions
  <2>3. Marked(path, mark', s, tree.value)
    <3> SUFFICES ASSUME NEW i \in 1 .. Len(path), path[i].space # NoSpace
                 PROVE  /\ i > mark' => path[i].bound = s
                        /\ path[i].bound # NoSpace => s # NoSpace /\ tree.value[s] <= tree.value[path[i].bound]
      BY DEF Marked
    <3>1. ~(i > mark')
      BY <1>3, <2>1
    <3>2. ASSUME path[i].bound # NoSpace PROVE tree.value[s] <= tree.value[path[i].bound]
      <4>1. best # NoSpace /\ tree.value[best] <= tree.value[path[i].bound]
        BY <1>2, <3>2 DEF Marked
      <4>2. path[i].bound \in Solutions
        <5> DEFINE e == path[i]
        <5>1. e \in BABEdges
          BY <1>3
        <5> HIDE DEF e
        <5>2. e.bound \in Solutions
          BY <5>1 DEF BABEdges, BoundedEdges
        <5> QED BY <5>2 DEF e
      <4>3. tree.value[path[i].bound] \in Int /\ tree.value[s] \in Int
        BY <1>4, <3>2, <4>2 DEF Solutions
      <4> QED BY <2>2, <4>1, <4>3
    <3> QED BY <2>1, <3>1, <3>2
  <2>4. BABInv'
    <3>1. s \in Solutions
      BY DEF Solutions
    <3> QED BY <1>1, <1>2, <1>3, <2>1, <2>3, <3>1, BABKeeps DEF BABInv
  <2>5. BABTodo' = {t \in BABTodo : tree.value[t] < tree.value[s]}
    <3> DEFINE F == Todo(tree, Own(path, cur))
    <3>1. \A t \in F : t \in tree.solved /\ tree.value[t] \in Int
      BY <1>4, TodoIs
    <3>2. BABTodo' = {t \in F : tree.value[t] < tree.value[s]}
      BY <1>1, <2>1 DEF BABTodo, BAB!Better
    <3>3. BABTodo = {t \in F : BAB!Better(t, best)}
      BY DEF BABTodo
    <3>4. tree.value[s] \in Int
      BY <1>4
    <3>5. \A t \in F : tree.value[t] < tree.value[s] => BAB!Better(t, best)
      BY <2>2, <3>1, <3>4 DEF BAB!Better
    <3> HIDE DEF F
    <3> QED BY <3>2, <3>3, <3>5
  <2> QED BY <1>1, <2>4, <2>5
<1> QED BY <1>5, <1>6

LEMMA PushMarked ==
  ASSUME NEW T, NEW p \in Seq(T), NEW e \in T, NEW m, NEW V, NEW b, Marked(p, m, b, V),
         e.bound = b, b # NoSpace => V[b] \in Int
  PROVE  Marked(Push(p, e), m, b, V)
<1> DEFINE q == Push(p, e)
<1>1. Pushed(T, p, e, q)
  BY PushIs
<1> HIDE DEF q
<1>2. /\ q[Len(q)] = e /\ \A i \in 1 .. Len(q) : i # Len(q) => i \in 1 .. Len(p) /\ q[i] = p[i]
  BY <1>1 DEF Pushed
<1>3. Marked(q, m, b, V)
  <2> SUFFICES ASSUME NEW i \in 1 .. Len(q), q[i].space # NoSpace
               PROVE  /\ i > m => q[i].bound = b
                      /\ q[i].bound # NoSpace => b # NoSpace /\ V[b] <= V[q[i].bound]
    BY DEF Marked
  <2>1. CASE i = Len(q)
    BY <1>2, <2>1
  <2>2. CASE i # Len(q)
    BY <1>2, <2>2 DEF Marked
  <2> QED BY <2>1, <2>2
<1> QED BY <1>3 DEF q

LEMMA BABBranches ==
  ASSUME BABInv, BAB!StatusBranch
  PROVE  BABInv' /\ BABTodo' = BABTodo
<1> DEFINE n == tree.alternatives[cur]
           copy == IF d = 0 \/ d >= opt.c_d THEN cur ELSE NoSpace
           e == BAB!BoundedEdge(cur, copy, curBound, n)
           q == Push(path, e)
           y == IF d = 0 \/ d >= opt.c_d THEN 1 ELSE d + 1
<1>1. /\ n > 0 /\ path' = q /\ d' = y /\ cur' = Child(cur, 0) /\ pc = "status" /\ pc' = "stop"
      /\ UNCHANGED <<tree, opt, curBound, mark, best, stopped, ret>>
  BY BABPush, BABChild DEF BAB!StatusBranch, BAB!Goto, BAB!ProblemUnchanged
<1>2. cur # NoSpace /\ BABPath(path, cur, d) /\ curBound = best /\ best \in Solutions /\ Marked(path, mark, best, tree.value)
  BY <1>1 DEF BABInv
<1>3. /\ PathAssumption(Reached(tree), Offers(tree), BABEdges) /\ NoSpace \notin Reached(tree)
      /\ IsTree(tree, BABNode) /\ NoSpace \notin BABNode /\ Reached(tree) \subseteq BABNode
      /\ opt.c_d \in Nat /\ \A s \in tree.solved : tree.value[s] \in Int
  BY BABFacts
<1>4. cur \in Reached(tree) /\ d \in Nat /\ path \in Seq(BABEdges)
  BY <1>2 DEF BABPath, SeqOK, WorkerOK, ShapeOK
<1>5. n = Offers(tree)[cur] /\ n \in Nat
  BY <1>3, <1>4, BABFacts, TreeIs
<1> HIDE DEF n
<1>6. copy \in {cur, NoSpace} /\ (copy = NoSpace => d # 0 /\ d < Near_c_d) /\ y = IF copy = cur THEN 1 ELSE d + 1
  BY <1>2, <1>3, <1>4 DEF Near_c_d
<1> HIDE DEF copy, y
<1>7. /\ e \in BABEdges /\ e.node = cur /\ e.space = copy /\ e.alt = 0
      /\ e.altMax = n - 1 /\ e.alternatives = n /\ e.bound = best
  BY <1>1, <1>2, <1>4, <1>5, <1>6 DEF BAB!BoundedEdge, BABEdges, BoundedEdges
<1> HIDE DEF e
<1>8. q = Push(path, e)
  OBVIOUS
<1> HIDE DEF q
<1>9. /\ BABPath(q, Child(cur, 0), y)
      /\ Own(q, Child(cur, 0)) = Split(Own(path, cur), cur, Offers(tree)[cur])
  <2> DEFINE N == Reached(tree)
             A == Offers(tree)
             E == BABEdges
             ng == opt.nogoods_limit
             w == Near_c_d
  <2>1. /\ PathAssumption(N, A, E) /\ cur \in N /\ SeqOK(N, A, E, path, cur, d, ng, w)
        /\ A[cur] > 0 /\ copy \in {cur, NoSpace} /\ (copy = NoSpace => d # 0 /\ d < w)
        /\ e \in E /\ e.node = cur /\ e.space = copy /\ e.alt = 0
        /\ e.altMax = A[cur] - 1 /\ e.alternatives = A[cur]
        /\ y = IF copy = cur THEN 1 ELSE d + 1
    BY <1>1, <1>2, <1>3, <1>4, <1>5, <1>6, <1>7 DEF BABPath
  <2>2. BABPath(q, Child(cur, 0), y) <=> SeqOK(N, A, E, q, Child(cur, 0), y, ng, w)
    BY DEF BABPath
  <2> HIDE DEF N, A, E, ng, w
  <2>3. SeqOK(N, A, E, q, Child(cur, 0), y, ng, w)
    BY <1>8, <2>1, SeqBranch
  <2>4. Own(q, Child(cur, 0)) = Split(Own(path, cur), cur, A[cur])
    BY <1>8, <2>1, SeqBranch
  <2> QED BY <2>2, <2>3, <2>4 DEF A
<1>10. BABTodo' = BABTodo
  <2> DEFINE F == Own(path, cur)
             G == Todo(tree, Split(F, cur, Offers(tree)[cur]))
  <2>1. cur \in F
    BY <1>2 DEF Own
  <2>2. BABTodo' = {s \in G : BAB!Better(s, best)}
    BY <1>1, <1>9 DEF BABTodo, BAB!Better
  <2>3. BABTodo = {s \in Todo(tree, F) : BAB!Better(s, best)}
    BY DEF BABTodo
  <2>4. Offers(tree)[cur] > 0
    BY <1>1, <1>5
  <2>5. G = Todo(tree, F)
    <3> HIDE DEF F
    <3> QED BY <1>3, <1>4, <2>1, <2>4, TodoBranch
  <2> HIDE DEF F, G
  <2> QED BY <2>2, <2>3, <2>5
<1>11. BABPath(path', cur', d')
  BY <1>1, <1>9
<1>12. Marked(path', mark, best, tree.value)
  BY <1>1, <1>2, <1>3, <1>4, <1>7, <1>8, PushMarked DEF Solutions
<1> QED BY <1>1, <1>2, <1>10, <1>11, <1>12, BABKeeps DEF BABInv

LEMMA BABHolds ==
  ASSUME BABInv
  PROVE  BAB!BoundsOK
<1> DEFINE N == Reached(tree)
           E == BABEdges
<1>1. /\ PathAssumption(N, Offers(tree), E) /\ N \subseteq BABNode /\ tree.solved \subseteq N
      /\ \A s \in tree.solved : tree.value[s] \in Int /\ s # NoSpace
  BY BABFacts
<1>2. /\ path \in Seq(E) /\ d \in Nat /\ cur \in N \cup {NoSpace}
  BY DEF BABInv, BABPath, SeqOK, WorkerOK, ShapeOK
<1>3. path \in Seq(BAB!EdgeType)
  <2>1. E \subseteq BAB!EdgeType
    BY <1>1 DEF BABEdges, BoundedEdges, BAB!EdgeType, Solutions
  <2> HIDE DEF E
  <2>2. Len(path) \in Nat /\ path \in [1 .. Len(path) -> E]
    BY <1>2
  <2>3. path \in [1 .. Len(path) -> BAB!EdgeType]
    BY <2>1, <2>2
  <2> QED BY <2>2, <2>3
<1>4. BAB!TypeOK
  BY <1>1, <1>2, <1>3 DEF BABInv, BAB!TypeOK, Solutions
<1>5. BAB!MarkOK
  <2>1. ASSUME NEW i \in DOMAIN path, path[i].space # NoSpace
        PROVE  /\ i > mark => path[i].bound = best
               /\ path[i].bound # NoSpace => ~(best # NoSpace /\ BAB!Better(path[i].bound, best))
    <3>1. i \in 1 .. Len(path)
      BY <1>2
    <3>2. /\ i > mark => path[i].bound = best
          /\ path[i].bound # NoSpace => best # NoSpace /\ tree.value[best] <= tree.value[path[i].bound]
      BY <2>1, <3>1 DEF BABInv, Marked
    <3>3. ASSUME path[i].bound # NoSpace PROVE ~(best # NoSpace /\ BAB!Better(path[i].bound, best))
      <4>1. path[i].bound \in Solutions
        <5> DEFINE e == path[i]
        <5>1. e \in BABEdges
          BY <1>2, <3>1
        <5> HIDE DEF e
        <5>2. e.bound \in Solutions
          BY <5>1 DEF BABEdges, BoundedEdges
        <5> QED BY <5>2 DEF e
      <4>2. tree.value[path[i].bound] \in Int /\ (best # NoSpace => tree.value[best] \in Int)
        BY <1>1, <3>3, <4>1 DEF Solutions, BABInv
      <4> QED BY <3>2, <3>3, <4>2 DEF BAB!Better
    <3> QED BY <3>2, <3>3
  <2> QED BY <2>1 DEF BAB!MarkOK, BABInv
<1> QED BY <1>4, <1>5 DEF BAB!BoundsOK

LEMMA BABStep ==
  ASSUME BABInv, BAB!Next
  PROVE  BABInv'
BY BABQuiet, BABReuses, BABRecomputes, BABUnwinds, BABFails, BABSolves, BABBranches, BABResets, BABConstrains
   DEF BAB!Next, BAB!Loop

ValuedAll(S) == {BAB!Valued(s) : s \in S}

LEMMA BABTodoIs ==
  {BAB!Valued(s) : s \in {t \in UNION {BAB!SolvedBelow(tree, n) : n \in BAB!Frontier} : BAB!Better(t, best)}} = ValuedAll(BABTodo)
<1>1. UNION {BAB!SolvedBelow(tree, n) : n \in BAB!Frontier} = Todo(tree, Own(path, cur))
  BY Zenon, BABFrontier, BABSolvedBelow DEF Todo
<1> DEFINE X == UNION {BAB!SolvedBelow(tree, n) : n \in BAB!Frontier}
<1>2. X = Todo(tree, Own(path, cur))
  BY <1>1
<1> HIDE DEF X
<1>3. {t \in X : BAB!Better(t, best)} = BABTodo
  BY <1>2 DEF BABTodo
<1> DEFINE Y == {t \in X : BAB!Better(t, best)}
<1> HIDE DEF Y
<1>4. {BAB!Valued(s) : s \in Y} = ValuedAll(BABTodo)
  BY Zenon, <1>3 DEF Y, ValuedAll
<1> QED BY Zenon, <1>4 DEF Y, X

LEMMA BABTodoNext ==
  ({BAB!Valued(s) : s \in {t \in UNION {BAB!SolvedBelow(tree, n) : n \in BAB!Frontier} : BAB!Better(t, best)}} = ValuedAll(BABTodo))'
BY BABTodoIs, PTL

LEMMA ValuedIs ==
  ASSUME BABInv, NEW S, S \subseteq tree.solved
  PROVE  /\ ValuedAll(S) \in SUBSET [node : BABNode, value : BABValue]
         /\ \A s \in S : /\ BAB!Valued(s) \in ValuedAll(S) /\ BAB!Valued(s).value = tree.value[s]
                         /\ BAB!Valued(s) \in [node : BABNode, value : BABValue]
         /\ \A c \in S : ValuedAll({s \in S : tree.value[s] < tree.value[c]})
                           = {t \in ValuedAll(S) : t.value < BAB!Valued(c).value}
         /\ \A c \in tree.solved : ValuedAll({s \in S : tree.value[s] < tree.value[c]}) \in SUBSET [node : BABNode, value : BABValue]
<1>1. tree.value \in [tree.solved -> BABValue] /\ tree.solved \subseteq BABNode /\ NoSpace \notin BABNode
  BY BABFacts DEF BABInv
<1>2. \A s \in tree.solved : /\ BAB!Valued(s) = [node |-> s, value |-> tree.value[s]]
                             /\ BAB!Valued(s) \in [node : BABNode, value : BABValue]
                             /\ BAB!Valued(s).value = tree.value[s]
  BY <1>1 DEF BAB!Valued
<1>3. \A x, R : x \in ValuedAll(R) <=> \E s \in R : x = BAB!Valued(s)
  BY Zenon DEF ValuedAll
<1>4. \A R : R \subseteq tree.solved => ValuedAll(R) \in SUBSET [node : BABNode, value : BABValue]
  BY <1>2, <1>3
<1>5. ASSUME NEW c \in S
      PROVE  ValuedAll({s \in S : tree.value[s] < tree.value[c]}) = {t \in ValuedAll(S) : t.value < BAB!Valued(c).value}
  <2> DEFINE R == {s \in S : tree.value[s] < tree.value[c]}
             X == ValuedAll(R)
             Y == {t \in ValuedAll(S) : t.value < BAB!Valued(c).value}
  <2>1. ASSUME NEW x, x \in X PROVE x \in Y
    <3>1. PICK s \in R : x = BAB!Valued(s)
      BY <1>3, <2>1
    <3>2. s \in S /\ s \in tree.solved /\ c \in tree.solved /\ tree.value[s] < tree.value[c]
      OBVIOUS
    <3>3. x.value = tree.value[s] /\ BAB!Valued(c).value = tree.value[c] /\ x \in ValuedAll(S)
      BY <1>2, <1>3, <3>1, <3>2
    <3> QED BY <3>2, <3>3
  <2>2. ASSUME NEW x, x \in Y PROVE x \in X
    <3>1. x \in ValuedAll(S) /\ x.value < BAB!Valued(c).value
      BY <2>2
    <3>2. PICK s \in S : x = BAB!Valued(s)
      BY <1>3, <3>1
    <3>3. s \in tree.solved /\ c \in tree.solved
      OBVIOUS
    <3>4. s \in R
      BY <1>2, <3>1, <3>2, <3>3
    <3> QED BY <1>3, <3>2, <3>4
  <2> HIDE DEF X, Y
  <2>3. X = Y
    BY <2>1, <2>2
  <2> QED BY <2>3 DEF X, Y
<1>6. \A c : {s \in S : tree.value[s] < tree.value[c]} \subseteq tree.solved
  OBVIOUS
<1>7. \A s \in S : s \in tree.solved
  OBVIOUS
<1>8. \A s \in S : BAB!Valued(s) \in ValuedAll(S)
  BY <1>3
<1> QED BY <1>2, <1>4, <1>5, <1>6, <1>7, <1>8

LEMMA BABTodoSolved == BABTodo \subseteq tree.solved
BY TodoIs DEF BABTodo

LEMMA BABStreamInit == BAB!Init => BAB!Stream!Init
<1> SUFFICES ASSUME BAB!Init PROVE BAB!Stream!Init
  OBVIOUS
<1>1. BABInv
  BY BABInit
<1>2. ValuedAll(BABTodo) \in SUBSET [node : BABNode, value : BABValue]
  BY <1>1, BABTodoSolved, ValuedIs
<1> DEFINE todo == {BAB!Valued(s) : s \in {t \in UNION {BAB!SolvedBelow(tree, n) : n \in BAB!Frontier} : BAB!Better(t, best)}}
<1>3. todo = ValuedAll(BABTodo)
  BY BABTodoIs
<1>4. todo \in SUBSET [node : BABNode, value : BABValue]
  BY <1>2, <1>3
<1>5. pc = "user" /\ ret = NoSpace /\ stopped = FALSE
  BY DEF BAB!Init
<1>6. BAB!Valued(ret) = NoSpace
  BY <1>5 DEF BAB!Valued
<1> QED BY <1>4, <1>5, <1>6 DEF BAB!Stream!Init

LEMMA BABStreamStep ==
  ASSUME BABInv, [BAB!Next]_(BAB!vars)
  PROVE  [BAB!Stream!Next]_(BAB!Stream!vars)
<1> DEFINE todo == {BAB!Valued(s) : s \in {t \in UNION {BAB!SolvedBelow(tree, n) : n \in BAB!Frontier} : BAB!Better(t, best)}}
           T == [node : BABNode, value : BABValue]
           r == BAB!Valued(ret)
<1>0. todo = ValuedAll(BABTodo) /\ todo' = ValuedAll(BABTodo)'
  BY BABTodoIs, BABTodoNext
<1>00. tree' = tree
  BY DEF BAB!Next, BAB!Loop, BAB!NextCall, BAB!Stop, BAB!Exhausted, BAB!RecomputeReuse, BAB!RecomputeClone,
         BAB!RecomputeFails, BAB!StatusFailed, BAB!StatusSolved, BAB!StatusBranch, BAB!Constrain, BAB!Reset,
         BAB!ProblemUnchanged, BAB!vars
<1>a. \A R, S : BABTodo' = R /\ ValuedAll(R) = S => todo' = S
  BY Zenon, <1>0, <1>00 DEF ValuedAll, BAB!Valued
<1>b. BABTodo' = BABTodo => todo' = todo
  BY <1>0, <1>a
<1>c. ret' = ret => r' = r
  BY <1>00 DEF BAB!Valued
<1>d. ret' = NoSpace => r' = NoSpace
  BY DEF BAB!Valued
<1>1. CASE BAB!NextCall
  <2>1. todo' = todo
    BY <1>b, <1>1, BABQuiet
  <2>2. pc = "user" /\ pc' = "stop" /\ stopped' = FALSE /\ r' = r
    BY <1>1, <1>c DEF BAB!NextCall, BAB!Goto
  <2>3. BAB!Stream!Call
    BY <2>1, <2>2 DEF BAB!Stream!Call
  <2> QED BY <2>3 DEF BAB!Stream!Next
<1>2. CASE BAB!Stop
  <2>1. todo' = todo
    BY <1>b, <1>2, BABQuiet
  <2>2. CASE pc' = "user" /\ stopped' = TRUE /\ ret' = NoSpace
    <3>1. r' = NoSpace
      BY <1>d, <2>2
    <3>2. BAB!Stream!Stop
      BY <1>2, <2>1, <2>2, <3>1 DEF BAB!Stream!Stop, BAB!Stop
    <3> QED BY <3>2 DEF BAB!Stream!Next
  <2>3. CASE ~(pc' = "user" /\ stopped' = TRUE /\ ret' = NoSpace)
    <3>1. pc = "stop" /\ pc' \in {"recompute", "status"} /\ UNCHANGED <<stopped, ret>>
      BY <1>2, <2>3 DEF BAB!Stop
    <3>2. r' = r
      BY <1>c, <3>1
    <3> QED BY <2>1, <3>1, <3>2 DEF BAB!Stream!vars
  <2> QED BY <2>2, <2>3
<1>3. CASE BAB!Exhausted
  <2>1. todo' = todo /\ BABTodo = {}
    BY <1>b, <1>3, BABQuiet
  <2>2. todo = {}
    BY <1>0, <2>1 DEF ValuedAll
  <2>3. pc # "user" /\ pc' = "user" /\ stopped' = stopped /\ r' = NoSpace
    BY <1>3, <1>d DEF BAB!Exhausted, BAB!Goto
  <2>4. BAB!Stream!NoneLeft
    BY <2>1, <2>2, <2>3 DEF BAB!Stream!NoneLeft
  <2> QED BY <2>4 DEF BAB!Stream!Next
<1>4. CASE BAB!RecomputeReuse \/ BAB!RecomputeClone \/ BAB!RecomputeFails \/ BAB!StatusFailed \/ BAB!StatusBranch
  <2>1. todo' = todo
    BY <1>b, <1>4, BABReuses, BABRecomputes, BABUnwinds, BABFails, BABBranches
  <2>2. pc # "user" /\ pc' # "user" /\ UNCHANGED <<stopped, ret>>
    BY <1>4 DEF BAB!RecomputeReuse, BAB!RecomputeClone, BAB!RecomputeFails, BAB!StatusFailed, BAB!StatusBranch, BAB!Goto
  <2>3. r' = r
    BY <1>c, <2>2
  <2> QED BY <2>1, <2>2, <2>3 DEF BAB!Stream!vars
<1>5. CASE BAB!StatusSolved
  <2> DEFINE s == BAB!Valued(cur)
  <2>1. cur \in BABTodo /\ cur # NoSpace /\ BABTodo' = {t \in BABTodo : tree.value[t] < tree.value[cur]}
    BY <1>5, BABSolves
  <2>2. s \in todo /\ s \in T
    BY <1>0, <2>1, BABTodoSolved, ValuedIs
  <2>3. todo' = {t \in todo : t.value < s.value}
    <3>1. ValuedAll({t \in BABTodo : tree.value[t] < tree.value[cur]}) = {t \in ValuedAll(BABTodo) : t.value < s.value}
      BY <2>1, BABTodoSolved, ValuedIs
    <3>2. {t \in ValuedAll(BABTodo) : t.value < s.value} = {t \in todo : t.value < s.value}
      BY Zenon, <1>0
    <3> QED BY Zenon, <1>a, <2>1, <3>1, <3>2
  <2>4. pc # "user" /\ pc' = "user" /\ stopped' = stopped /\ ret' = cur
    BY <1>5 DEF BAB!StatusSolved, BAB!Goto
  <2>5. r' = s
    BY <1>00, <2>4 DEF BAB!Valued
  <2>6. BAB!Stream!Deliver(s)
    BY <2>2, <2>3, <2>4, <2>5 DEF BAB!Stream!Deliver
  <2> QED BY <2>2, <2>6 DEF BAB!Stream!Next
<1>6. CASE BAB!Reset
  <2>1. pc = "user" /\ UNCHANGED <<stopped, pc, ret>> /\ BABTodo' \subseteq tree.solved
    BY <1>6, BABResets DEF BAB!Reset
  <2>2. ValuedAll(BABTodo') \in SUBSET T
    BY <2>1, ValuedIs
  <2>3. todo' \in SUBSET T
    BY Zenon, <1>a, <2>2
  <2>4. BAB!Stream!Replace
    BY <1>c, <2>1, <2>3 DEF BAB!Stream!Replace
  <2> QED BY <2>4 DEF BAB!Stream!Next
<1>7. ASSUME NEW b \in tree.solved, BAB!Constrain(b) PROVE BAB!Stream!Next
  <2>1. /\ pc = "user" /\ UNCHANGED <<stopped, pc, ret>>
        /\ BABTodo' = BABTodo \/ BABTodo' = {t \in BABTodo : tree.value[t] < tree.value[b]}
    BY <1>7, BABConstrains
  <2>2. /\ ValuedAll(BABTodo) \in SUBSET T
        /\ ValuedAll({t \in BABTodo : tree.value[t] < tree.value[b]}) \in SUBSET T
    BY BABTodoSolved, ValuedIs
  <2>3. todo' \in SUBSET T
    BY Zenon, <1>a, <2>1, <2>2
  <2>4. BAB!Stream!Replace
    BY <1>c, <2>1, <2>3 DEF BAB!Stream!Replace
  <2> QED BY <2>4 DEF BAB!Stream!Next
<1>8. CASE UNCHANGED BAB!vars
  <2>1. UNCHANGED <<tree, cur, path, best, stopped, pc, ret>>
    BY <1>8 DEF BAB!vars
  <2>2. BABTodo' = BABTodo
    BY <2>1 DEF BABTodo, BAB!Better
  <2> QED BY <1>b, <1>c, <2>1, <2>2 DEF BAB!Stream!vars
<1> QED BY <1>1, <1>2, <1>3, <1>4, <1>5, <1>6, <1>7, <1>8 DEF BAB!Next, BAB!Loop

(***************************************************************************)
(* Limited discrepancy search: a probe takes the same number of            *)
(* discrepancies along its stack and its current space, and has found      *)
(* every solution with fewer.                                              *)
(***************************************************************************)
LEMMA LDSAssumed ==
  /\ \A t \in LDSTrees : LD!IsTree(t, LDSNode)
  /\ Discrepancies(<<>>) = 0
  /\ \A t \in LDSTrees : \A n \in LDSNode : \A a \in 0 .. t.alternatives[n] - 1 :
       Discrepancies(LD!Child(n, a)) = Discrepancies(n) + a
  /\ LDSLimits \subseteq Nat /\ NoSpace \notin LDSNode
BY LDSAssumption
   DEF LDSAssumption, LD!TreesAssumption, LD!DiscrepanciesAssumption, LD!LimitsAssumption, LD!NoSpaceAssumption

LEMMA LDSChild == \A n, a : LD!Child(n, a) = Child(n, a)
BY Zenon DEF LD!Child, Child
LEMMA LDSBelow == \A n, m : LD!Below(n, m) <=> Below(n, m)
BY Zenon DEF LD!Below, Below, LD!IsPrefix, IsPrefix
LEMMA LDSLast == \A p : LD!Last(p) = Last(p)
BY Zenon DEF LD!Last, Last
LEMMA LDSFront == \A p : LD!Front(p) = Front(p)
BY Zenon DEF LD!Front, Front
LEMMA LDSFailed == \A t, n : LD!FailedIn(t, n) <=> FailedIn(t, n)
BY Zenon DEF LD!FailedIn, FailedIn
LEMMA LDSIsTree == \A t, S : LD!IsTree(t, S) <=> IsTree(t, S)
<1>1. \A t, n : LD!InTree(t, n) <=> InTree(t, n)
  BY Zenon DEF LD!InTree, InTree
<1> QED BY Zenon, <1>1, LDSChild DEF LD!IsTree, IsTree

Disc(t) == [n \in Reached(t) |-> Discrepancies(n)]

LEMMA LDSTree ==
  ASSUME NEW t \in LDSTrees
  PROVE  /\ PathAssumption(Reached(t), Offers(t), {}) /\ DiscOK(Reached(t), Offers(t), Disc(t))
         /\ t.solved \subseteq Reached(t) /\ Reached(t) \subseteq LDSNode /\ NoSpace \notin LDSNode
         /\ \A n \in Reached(t) : Offers(t)[n] = t.alternatives[n] /\ Disc(t)[n] = Discrepancies(n)
         /\ \A s \in t.solved : Offers(t)[s] = 0
<1>1. IsTree(t, LDSNode) /\ NoSpace \notin LDSNode
  BY LDSAssumed, LDSIsTree
<1>2. PathAssumption(Reached(t), Offers(t), {}) /\ t.solved \subseteq Reached(t) /\ Reached(t) \subseteq LDSNode
  BY <1>1, TreeAssumed DEF PathAssumption, EdgeFacts
<1>3. \A n \in Reached(t) : Offers(t)[n] = t.alternatives[n] /\ Disc(t)[n] = Discrepancies(n)
  BY DEF Offers, Disc
<1>4. \A s \in t.solved : Offers(t)[s] = 0
  BY <1>1, TreeSolvedIs
<1>5. DiscOK(Reached(t), Offers(t), Disc(t))
  <2>1. Disc(t)[<<>>] = 0
    BY <1>2, <1>3, LDSAssumed, TreeIs
  <2>2. ASSUME NEW n \in Reached(t), NEW a \in 0 .. Offers(t)[n] - 1 PROVE Disc(t)[Child(n, a)] = Disc(t)[n] + a
    <3>1. Child(n, a) \in Reached(t)
      BY <1>2, TreeIs
    <3>2. a \in 0 .. t.alternatives[n] - 1 /\ n \in LDSNode
      BY <1>2, <1>3
    <3>3. Discrepancies(Child(n, a)) = Discrepancies(n) + a
      BY <3>2, LDSAssumed, LDSChild
    <3> QED BY <1>3, <3>1, <3>3
  <2> QED BY <2>1, <2>2 DEF DiscOK
<1> QED BY <1>1, <1>2, <1>3, <1>4, <1>5

(***************************************************************************)
(* The invariant.                                                          *)
(***************************************************************************)
Total == IF dLDS < dl THEN dLDS ELSE dl

LDSTypes ==
  /\ tree \in LDSTrees /\ dl \in LDSLimits /\ dl \in Nat /\ root \in {<<>>, NoSpace}
  /\ dLDS \in 0 .. dl + 1 /\ d \in 0 .. dl /\ found \subseteq tree.solved
  /\ ret \in LDSNode \cup {NoSpace} /\ exhausted \in BOOLEAN /\ stopped \in BOOLEAN
LDSControl ==
  /\ pc \in {"user", "backtrack", "check", "ended"}
  /\ pc = "check" => cur # NoSpace
  /\ pc = "backtrack" => cur = NoSpace
  /\ pc \in {"backtrack", "check"} => ~stopped
  /\ pc = "ended" /\ ~stopped => cur = NoSpace /\ ds = <<>>
LDSProbe ==
  /\ StackOK(Reached(tree), Offers(tree), ds, cur)
  /\ AccountOK(Disc(tree), ds, cur, d, Total)
  /\ FoundOK(tree.solved, Disc(tree), ds, cur, found, exhausted, Total)
LDSRoot == root = NoSpace /\ dLDS < dl => exhausted /\ cur = NoSpace /\ ds = <<>>

LDSInv == LDSTypes /\ LDSControl /\ LDSProbe /\ LDSRoot

LEMMA TotalIs == LDSTypes => Total \in Nat /\ Total <= dl /\ d \in Nat
BY DEF LDSTypes, Total

(* a probe from the root of a tree, or none *)
LEMMA LDSFresh ==
  ASSUME NEW t \in LDSTrees, NEW T \in Nat
  PROVE  /\ StackOK(Reached(t), Offers(t), <<>>, <<>>) /\ StackOK(Reached(t), Offers(t), <<>>, NoSpace)
         /\ AccountOK(Disc(t), <<>>, <<>>, T, T) /\ \A x : AccountOK(Disc(t), <<>>, NoSpace, x, T)
         /\ LD!Root(t) \in {<<>>, NoSpace}
         /\ LD!Root(t) = NoSpace => t.solved = {}
         /\ NoSpace # <<>>
<1>1. <<>> \in Reached(t) /\ NoSpace \notin Reached(t) /\ Disc(t)[<<>>] = 0
  BY LDSTree, TreeIs DEF DiscOK
<1>2. LD!Root(t) \in {<<>>, NoSpace} /\ (LD!Root(t) = NoSpace => FailedIn(t, <<>>))
  BY <1>1, LDSFailed DEF LD!Root
<1>3. ASSUME FailedIn(t, <<>>) PROVE t.solved = {}
  <2>1. IsTree(t, LDSNode) /\ NoSpace \notin LDSNode
    BY LDSAssumed, LDSIsTree
  <2>2. SolvedBelow(t, <<>>) = {}
    BY <1>1, <1>3, <2>1, TreeFailedIs
  <2>3. \A s \in t.solved : Below(<<>>, s)
    BY LDSTree, BelowOrder
  <2> QED BY <2>2, <2>3 DEF SolvedBelow
<1>4. StackOK(Reached(t), Offers(t), <<>>, <<>>) /\ StackOK(Reached(t), Offers(t), <<>>, NoSpace)
  BY <1>1 DEF StackOK
<1>5. AccountOK(Disc(t), <<>>, <<>>, T, T) /\ \A x : AccountOK(Disc(t), <<>>, NoSpace, x, T)
  BY <1>1 DEF AccountOK
<1> QED BY <1>1, <1>2, <1>3, <1>4, <1>5

LEMMA LDSInit == LD!Init => LDSInv
<1> SUFFICES ASSUME LD!Init PROVE LDSInv
  OBVIOUS
<1>1. tree \in LDSTrees /\ dl \in LDSLimits /\ dl \in Nat /\ dLDS = 0 /\ d = 0 /\ ds = <<>> /\ exhausted = TRUE
      /\ stopped = FALSE /\ pc = "user" /\ ret = NoSpace /\ found = {} /\ cur = LD!Root(tree)
  BY LDSAssumed DEF LD!Init
<1>2. root = IF dl > 0 THEN LD!Root(tree) ELSE NoSpace
  BY DEF LD!Init, LD!RootFor
<1>3. LD!Root(tree) \in {<<>>, NoSpace} /\ (cur = NoSpace => tree.solved = {}) /\ NoSpace # <<>>
  BY <1>1, LDSFresh
<1>4. Total = 0
  BY <1>1 DEF Total
<1>5. LDSTypes
  <2>1. 0 \in 0 .. dl + 1 /\ 0 \in 0 .. dl
    BY <1>1
  <2>2. dLDS \in 0 .. dl + 1 /\ d \in 0 .. dl
    BY <1>1, <2>1
  <2>3. root \in {<<>>, NoSpace}
    BY <1>2, <1>3
  <2>4. found \subseteq tree.solved
    BY <1>1
  <2> QED BY <1>1, <2>2, <2>3, <2>4 DEF LDSTypes
<1>6. LDSControl
  BY <1>1 DEF LDSControl
<1>7. LDSRoot
  BY <1>1, <1>2 DEF LDSRoot
<1>8. LDSProbe
  <2>1. FoundOK(tree.solved, Disc(tree), <<>>, <<>>, {}, TRUE, 0) /\ FoundOK(tree.solved, Disc(tree), <<>>, NoSpace, tree.solved, TRUE, 0)
    BY <1>1, LDSTree, FirstFound
  <2>2. CASE cur = <<>>
    BY <1>1, <1>4, <2>1, <2>2, LDSFresh DEF LDSProbe
  <2>3. CASE cur = NoSpace
    BY <1>1, <1>3, <1>4, <2>1, <2>3, LDSFresh DEF LDSProbe
  <2> QED BY <1>1, <1>3, <2>2, <2>3
<1> QED BY <1>5, <1>6, <1>7, <1>8 DEF LDSInv

(* the step of a probe with the same number of discrepancies *)
LEMMA LDSSame ==
  ASSUME UNCHANGED <<tree, dl, dLDS>>,
         StackOK(Reached(tree), Offers(tree), ds', cur'),
         AccountOK(Disc(tree), ds', cur', d', Total),
         FoundOK(tree.solved, Disc(tree), ds', cur', found', exhausted', Total)
  PROVE  LDSProbe' /\ Total' = Total
<1>1. Total' = Total
  BY DEF Total
<1>2. Reached(tree') = Reached(tree) /\ Offers(tree') = Offers(tree) /\ Disc(tree') = Disc(tree)
  OBVIOUS
<1> QED BY <1>1, <1>2 DEF LDSProbe

LEMMA LDSParts ==
  ASSUME LDSInv
  PROVE  /\ tree \in LDSTrees /\ dl \in Nat /\ Total \in Nat /\ Total <= dl /\ d \in Nat /\ d <= dl
         /\ PathAssumption(Reached(tree), Offers(tree), {}) /\ DiscOK(Reached(tree), Offers(tree), Disc(tree))
         /\ tree.solved \subseteq Reached(tree) /\ Reached(tree) \subseteq LDSNode /\ NoSpace \notin LDSNode
         /\ \A n \in Reached(tree) : Offers(tree)[n] = tree.alternatives[n] /\ Disc(tree)[n] = Discrepancies(n)
         /\ \A s \in tree.solved : Offers(tree)[s] = 0
         /\ StackOK(Reached(tree), Offers(tree), ds, cur)
         /\ AccountOK(Disc(tree), ds, cur, d, Total)
         /\ FoundOK(tree.solved, Disc(tree), ds, cur, found, exhausted, Total)
         /\ cur # NoSpace => cur \in Reached(tree) /\ Disc(tree)[cur] + d = Total /\ Disc(tree)[cur] \in Nat
<1>1. tree \in LDSTrees /\ dl \in Nat /\ d \in 0 .. dl
  BY DEF LDSInv, LDSTypes
<1>2. Total \in Nat /\ Total <= dl /\ d \in Nat /\ d <= dl
  BY <1>1, TotalIs DEF LDSInv
<1>3. /\ PathAssumption(Reached(tree), Offers(tree), {}) /\ DiscOK(Reached(tree), Offers(tree), Disc(tree))
      /\ tree.solved \subseteq Reached(tree) /\ Reached(tree) \subseteq LDSNode /\ NoSpace \notin LDSNode
      /\ \A n \in Reached(tree) : Offers(tree)[n] = tree.alternatives[n] /\ Disc(tree)[n] = Discrepancies(n)
      /\ \A s \in tree.solved : Offers(tree)[s] = 0
  BY <1>1, LDSTree
<1>4. /\ StackOK(Reached(tree), Offers(tree), ds, cur)
      /\ AccountOK(Disc(tree), ds, cur, d, Total)
      /\ FoundOK(tree.solved, Disc(tree), ds, cur, found, exhausted, Total)
  BY DEF LDSInv, LDSProbe
<1>5. cur # NoSpace => cur \in Reached(tree) /\ Disc(tree)[cur] + d = Total
  BY <1>4 DEF StackOK, AccountOK
<1>6. cur # NoSpace => Disc(tree)[cur] \in Nat
  BY <1>3, <1>5, DiscNat
<1> QED BY <1>1, <1>2, <1>3, <1>4, <1>5, <1>6

LEMMA LDSBacktrack == ASSUME LDSInv, LD!Backtrack PROVE LDSInv'
<1>1. pc = "backtrack" /\ ds # <<>> /\ pc' = "check" /\ d' = d + 1 /\ UNCHANGED <<tree, dl, root, dLDS, exhausted, stopped, ret, found>>
  BY DEF LD!Backtrack, LD!ProblemUnchanged, LD!ldsVars
<1>2. cur' = Child(Last(ds).space, Last(ds).alt) /\ ds' = Popped(ds)
  BY LDSLast, LDSFront, LDSChild DEF LD!Backtrack, Popped
<1>3. cur = NoSpace /\ ~stopped
  BY <1>1 DEF LDSInv, LDSControl
<1> DEFINE N == Reached(tree)
           A == Offers(tree)
           D == Disc(tree)
<1>4. /\ PathAssumption(N, A, {}) /\ DiscOK(N, A, D) /\ NoSpace \notin N
      /\ StackOK(N, A, ds, NoSpace) /\ AccountOK(D, ds, NoSpace, d, Total)
      /\ FoundOK(tree.solved, D, ds, NoSpace, found, exhausted, Total)
      /\ Total \in Nat /\ Total <= dl /\ d \in Nat /\ dl \in Nat
  BY <1>3, LDSParts
<1> HIDE DEF N, A, D
<1>5. StackOK(N, A, ds', cur')
  BY <1>1, <1>2, <1>4, PopStack
<1>6. AccountOK(D, ds', cur', d', Total) /\ d + 1 <= Total
  <2>1. AccountOK(D, Popped(ds), Child(Last(ds).space, Last(ds).alt), d + 1, Total) /\ d + 1 <= Total
    BY <1>1, <1>4, PopAccount
  <2> QED BY <1>1, <1>2, <2>1
<1>7. FoundOK(tree.solved, D, ds', cur', found', exhausted', Total)
  <2>1. FoundOK(tree.solved, D, Popped(ds), Child(Last(ds).space, Last(ds).alt), found, exhausted, Total)
    BY <1>1, <1>4, PopFound
  <2> QED BY <1>1, <1>2, <2>1
<1>8. LDSProbe'
  BY <1>1, <1>5, <1>6, <1>7, LDSSame DEF N, A, D
<1>9. LDSTypes'
  <2>1. d' \in 0 .. dl
    BY <1>1, <1>4, <1>6
  <2> QED BY <1>1, <2>1 DEF LDSInv, LDSTypes
<1>10. cur' # NoSpace
  <2>1. cur' \in N
    <3> DEFINE o == Len(ds)
    <3>1. ds \in Seq(Choice(N))
      BY <1>4 DEF StackOK
    <3>2. Last(ds) = ds[o] /\ o \in 1 .. Len(ds)
      BY <1>1, <3>1, PopDone
    <3>3. ds[o].alt \in Nat
      BY <1>4, <3>2, StackIs
    <3>4. ds[o].alt \in 0 .. ds[o].alt + 1
      BY <3>3
    <3>5. Child(ds[o].space, ds[o].alt) \in N
      BY <1>4, <3>2, <3>4, StackIs
    <3> QED BY <1>2, <3>2, <3>5
  <2> QED BY <1>4, <2>1
<1>11. LDSControl'
  BY <1>1, <1>3, <1>10 DEF LDSControl
<1>12. LDSRoot'
  BY <1>1 DEF LDSInv, LDSRoot
<1> QED BY <1>8, <1>9, <1>11, <1>12 DEF LDSInv

(* the probe goes on from cur to its alternative a *)
LEMMA LDSDescends ==
  ASSUME LDSInv, pc = "check", pc' = "check", UNCHANGED <<tree, dl, root, dLDS, stopped, ret, found>>,
         tree.alternatives[cur] > 0,
         NEW a \in 0 .. tree.alternatives[cur] - 1, a <= d, a = tree.alternatives[cur] - 1 \/ a = d,
         cur' = Child(cur, a), ds' = Took(ds, cur, a), d' = d - a,
         exhausted' \in BOOLEAN, exhausted' => exhausted /\ a = tree.alternatives[cur] - 1
  PROVE  LDSInv'
<1>1. cur # NoSpace /\ ~stopped
  BY DEF LDSInv, LDSControl
<1> DEFINE N == Reached(tree)
           A == Offers(tree)
           D == Disc(tree)
<1>2. /\ PathAssumption(N, A, {}) /\ DiscOK(N, A, D) /\ NoSpace \notin N
      /\ StackOK(N, A, ds, cur) /\ AccountOK(D, ds, cur, d, Total)
      /\ FoundOK(tree.solved, D, ds, cur, found, exhausted, Total)
      /\ Total \in Nat /\ d \in Nat /\ dl \in Nat /\ d <= dl
      /\ cur \in N /\ D[cur] + d = Total /\ A[cur] = tree.alternatives[cur]
      /\ tree.solved \in SUBSET N /\ \A s \in tree.solved : A[s] = 0
  <2>1. cur \in N
    BY <1>1, LDSParts
  <2> QED BY <1>1, <2>1, LDSParts
<1> HIDE DEF N, A, D
<1>3. a \in 0 .. A[cur] - 1 /\ a \in Nat
  BY <1>2
<1>4. StackOK(N, A, ds', cur') /\ cur' \in N
  BY <1>2, <1>3, DescendStack
<1>5. AccountOK(D, ds', cur', d', Total)
  BY <1>2, <1>3, DescendAccount
<1>6. FoundOK(tree.solved, D, ds', cur', found', exhausted', Total)
  <2>1. FoundOK(tree.solved, D, ds', Child(cur, a), found, exhausted', Total)
    BY <1>2, <1>3, DescendFound
  <2> QED BY <2>1
<1>7. LDSProbe'
  BY <1>4, <1>5, <1>6, LDSSame DEF N, A, D
<1>8. LDSTypes'
  <2>1. d' \in 0 .. dl
    BY <1>2, <1>3
  <2> QED BY <2>1 DEF LDSInv, LDSTypes
<1>9. LDSControl'
  <2>1. cur' # NoSpace
    BY <1>2, <1>4
  <2> QED BY <1>1, <2>1 DEF LDSControl
<1>10. LDSRoot'
  BY <1>1 DEF LDSInv, LDSRoot
<1> QED BY <1>7, <1>8, <1>9, <1>10 DEF LDSInv

LEMMA LDSLeftmost == ASSUME LDSInv, LD!Leftmost PROVE LDSInv'
<1>1. /\ pc = "check" /\ d = 0 /\ tree.alternatives[cur] > 0 /\ cur' = Child(cur, 0)
      /\ exhausted' = (exhausted /\ tree.alternatives[cur] = 1)
      /\ UNCHANGED <<tree, dl, root, dLDS, d, ds, stopped, pc, ret, found>>
  BY LDSChild DEF LD!Leftmost, LD!ProblemUnchanged, LD!ldsVars
<1>2. cur # NoSpace
  BY <1>1 DEF LDSInv, LDSControl
<1>3. cur \in Reached(tree)
  BY <1>2, LDSParts
<1>4. tree.alternatives[cur] \in Nat
  BY <1>3, LDSParts, TreeIs
<1>5. 0 \in 0 .. tree.alternatives[cur] - 1 /\ (tree.alternatives[cur] = 1 => 0 = tree.alternatives[cur] - 1)
  BY <1>1, <1>4
<1>6. ds' = Took(ds, cur, 0)
  BY <1>1 DEF Took
<1>7. 0 <= d /\ d' = d - 0 /\ exhausted' \in BOOLEAN
  BY <1>1
<1> QED BY <1>1, <1>5, <1>6, <1>7, LDSDescends

LEMMA LDSBranch == ASSUME LDSInv, LD!Branch PROVE LDSInv'
<1> DEFINE n == tree.alternatives[cur]
           a == IF d >= n - 1 THEN n - 1 ELSE d
<1>1. /\ pc = "check" /\ d > 0 /\ n > 0 /\ cur' = Child(cur, a) /\ d' = d - a
      /\ exhausted' = (exhausted /\ d >= n - 1)
      /\ ds' = IF n > 1 THEN Append(ds, [space |-> cur, alt |-> a - 1]) ELSE ds
      /\ UNCHANGED <<tree, dl, root, dLDS, stopped, pc, ret, found>>
  BY LDSChild DEF LD!Branch, LD!ProblemUnchanged, LD!ldsVars
<1>2. cur # NoSpace
  BY <1>1 DEF LDSInv, LDSControl
<1>3. cur \in Reached(tree)
  BY <1>2, LDSParts
<1>4. n \in Nat /\ d \in Nat
  BY <1>3, LDSParts, TreeIs
<1> HIDE DEF n
<1>5. a \in 0 .. n - 1 /\ a <= d /\ (a = n - 1 \/ a = d) /\ (d >= n - 1 => a = n - 1) /\ (n > 1 <=> a > 0)
  BY <1>1, <1>4
<1> HIDE DEF a
<1>6. ds' = Took(ds, cur, a)
  BY <1>1, <1>5 DEF Took
<1>7. exhausted' \in BOOLEAN /\ (exhausted' => exhausted /\ a = n - 1)
  BY <1>1, <1>5
<1> QED BY <1>1, <1>5, <1>6, <1>7, LDSDescends DEF n

LEMMA LDSSolvedIs ==
  ASSUME LDSInv, LD!Solved
  PROVE  /\ pc = "check" /\ d = 0 /\ cur \in tree.solved /\ cur \in Reached(tree) /\ cur \in LDSNode /\ cur # NoSpace
         /\ cur \notin found /\ Disc(tree)[cur] = Total /\ Total <= dl /\ ~stopped
         /\ \A s \in tree.solved : s \notin found => Disc(tree)[s] >= Disc(tree)[cur]
         /\ ret' = cur /\ found' = found \cup {cur} /\ cur' = NoSpace /\ pc' = "user"
         /\ UNCHANGED <<tree, dl, root, dLDS, d, ds, exhausted, stopped>>
<1>1. /\ pc = "check" /\ d = 0 /\ cur \in tree.solved
      /\ ret' = cur /\ found' = found \cup {cur} /\ cur' = NoSpace /\ pc' = "user"
      /\ UNCHANGED <<tree, dl, root, dLDS, d, ds, exhausted, stopped>>
  BY DEF LD!Solved, LD!ProblemUnchanged, LD!ldsVars
<1>2. cur # NoSpace /\ ~stopped
  BY <1>1 DEF LDSInv, LDSControl
<1>3. /\ cur \in Reached(tree) /\ cur \in LDSNode /\ Disc(tree)[cur] + d = Total /\ Disc(tree)[cur] \in Nat
      /\ PathAssumption(Reached(tree), Offers(tree), {}) /\ DiscOK(Reached(tree), Offers(tree), Disc(tree))
      /\ tree.solved \subseteq Reached(tree) /\ Total <= dl
      /\ FoundOK(tree.solved, Disc(tree), ds, cur, found, exhausted, Total)
  BY <1>2, LDSParts
<1>4. Disc(tree)[cur] = Total
  BY <1>1, <1>3
<1>5. StillCovers(ds, cur, cur)
  BY <1>2, <1>3, BelowOrder DEF StillCovers
<1>6. cur \notin found
  BY <1>1, <1>3, <1>4, <1>5 DEF FoundOK
<1>7. \A s \in tree.solved : s \notin found => Disc(tree)[s] >= Disc(tree)[cur]
  <2> TAKE s \in tree.solved
  <2>1. Disc(tree)[s] \in Nat
    BY <1>3, DiscNat
  <2>2. Disc(tree)[s] < Total => s \in found
    BY <1>3 DEF FoundOK
  <2> QED BY <1>3, <1>4, <2>1, <2>2
<1> QED BY <1>1, <1>2, <1>3, <1>4, <1>6, <1>7

LEMMA LDSDrops ==
  ASSUME LDSInv, pc = "check", cur' = NoSpace, UNCHANGED <<tree, dl, root, dLDS, d, ds, exhausted, stopped>>,
         pc' \in {"user", "backtrack"}, tree.alternatives[cur] = 0,
         ret' \in LDSNode \cup {NoSpace}, found' \subseteq tree.solved,
         \A s \in tree.solved : s \in found' <=> s \in found \/ s = cur
  PROVE  LDSInv'
<1>1. cur # NoSpace /\ ~stopped
  BY DEF LDSInv, LDSControl
<1> DEFINE N == Reached(tree)
           A == Offers(tree)
           D == Disc(tree)
<1>2. /\ PathAssumption(N, A, {}) /\ DiscOK(N, A, D)
      /\ StackOK(N, A, ds, cur) /\ AccountOK(D, ds, cur, d, Total)
      /\ FoundOK(tree.solved, D, ds, cur, found, exhausted, Total)
      /\ Total \in Nat /\ d \in Nat
      /\ cur \in N /\ D[cur] + d = Total /\ A[cur] = 0
      /\ tree.solved \in SUBSET N
  BY <1>1, LDSParts
<1> HIDE DEF N, A, D
<1>3. FoundOK(tree.solved, D, ds, NoSpace, found', exhausted, Total)
  BY <1>2, DropFound
<1>4. StackOK(N, A, ds, NoSpace) /\ AccountOK(D, ds, NoSpace, d, Total)
  BY <1>2 DEF StackOK, AccountOK
<1>5. LDSProbe'
  BY <1>3, <1>4, LDSSame DEF N, A, D
<1>6. LDSTypes' /\ LDSControl' /\ LDSRoot'
  BY <1>1 DEF LDSInv, LDSTypes, LDSControl, LDSRoot
<1> QED BY <1>5, <1>6 DEF LDSInv

LEMMA LDSSolved == ASSUME LDSInv, LD!Solved PROVE LDSInv'
<1>1. tree.alternatives[cur] = 0
  BY LDSSolvedIs, LDSParts
<1>2. /\ pc = "check" /\ cur \in tree.solved /\ cur \in LDSNode
      /\ ret' = cur /\ found' = found \cup {cur} /\ cur' = NoSpace /\ pc' = "user"
      /\ UNCHANGED <<tree, dl, root, dLDS, d, ds, exhausted, stopped>>
  BY LDSSolvedIs
<1>3. found' \subseteq tree.solved
  BY <1>2 DEF LDSInv, LDSTypes
<1> QED BY <1>1, <1>2, <1>3, LDSDrops

LEMMA LDSDiscard == ASSUME LDSInv, LD!Discard PROVE LDSInv'
<1>1. /\ pc = "check" /\ pc' = "backtrack" /\ cur' = NoSpace
      /\ UNCHANGED <<tree, dl, root, dLDS, d, ds, exhausted, stopped, ret, found>>
      /\ FailedIn(tree, cur) \/ (d > 0 /\ cur \in tree.solved)
  BY LDSFailed DEF LD!Discard, LD!ProblemUnchanged, LD!ldsVars
<1>2. cur # NoSpace
  BY <1>1 DEF LDSInv, LDSControl
<1>3. tree.alternatives[cur] = 0
  BY <1>1, <1>2, LDSParts DEF FailedIn
<1>4. cur \in tree.solved => cur \in found
  <2> SUFFICES ASSUME cur \in tree.solved PROVE cur \in found
    OBVIOUS
  <2>1. d > 0
    BY <1>1 DEF FailedIn
  <2>2. Disc(tree)[cur] + d = Total /\ Disc(tree)[cur] \in Nat /\ d \in Nat /\ Total \in Nat
    BY <1>2, LDSParts
  <2>3. Disc(tree)[cur] < Total
    BY <2>1, <2>2
  <2>4. FoundOK(tree.solved, Disc(tree), ds, cur, found, exhausted, Total)
    BY LDSParts
  <2> QED BY <2>3, <2>4 DEF FoundOK
<1>5. ret' \in LDSNode \cup {NoSpace} /\ found' \subseteq tree.solved
  BY <1>1 DEF LDSInv, LDSTypes
<1> QED BY <1>1, <1>3, <1>4, <1>5, LDSDrops

(* no step of the probe *)
LEMMA LDSIdle ==
  ASSUME LDSInv, UNCHANGED <<tree, dl, root, dLDS, cur, d, ds, exhausted, found>>,
         ret' \in LDSNode \cup {NoSpace}, stopped' \in BOOLEAN, LDSControl'
  PROVE  LDSInv'
<1>1. LDSProbe'
  <2>1. /\ StackOK(Reached(tree), Offers(tree), ds, cur)
        /\ AccountOK(Disc(tree), ds, cur, d, Total)
        /\ FoundOK(tree.solved, Disc(tree), ds, cur, found, exhausted, Total)
    BY LDSParts
  <2> QED BY <2>1, LDSSame
<1>2. LDSTypes' /\ LDSRoot'
  BY DEF LDSInv, LDSTypes, LDSRoot
<1> QED BY <1>1, <1>2 DEF LDSInv

LEMMA LDSNextCall == ASSUME LDSInv, LD!NextCall PROVE LDSInv'
<1>1. /\ pc = "user" /\ pc' = (IF cur = NoSpace THEN "backtrack" ELSE "check") /\ stopped' = FALSE
      /\ UNCHANGED <<tree, dl, root, dLDS, cur, d, ds, exhausted, ret, found>>
  BY DEF LD!NextCall, LD!Start, LD!ProblemUnchanged, LD!ldsVars, LD!probeVars
<1>2. LDSControl'
  BY <1>1 DEF LDSControl
<1>3. ret' \in LDSNode \cup {NoSpace} /\ stopped' \in BOOLEAN
  BY <1>1 DEF LDSInv, LDSTypes
<1> QED BY <1>1, <1>2, <1>3, LDSIdle

LEMMA LDSProbeEnds == ASSUME LDSInv, LD!ProbeEnds PROVE LDSInv'
<1>1. /\ \/ pc = "backtrack" /\ ds = <<>> /\ UNCHANGED stopped
         \/ stopped' = TRUE
      /\ pc' = "ended"
      /\ UNCHANGED <<tree, dl, root, dLDS, cur, d, ds, exhausted, ret, found>>
  BY DEF LD!ProbeEnds, LD!ProblemUnchanged, LD!ldsVars, LD!probeVars
<1>2. LDSControl'
  BY <1>1 DEF LDSInv, LDSControl
<1>3. ret' \in LDSNode \cup {NoSpace} /\ stopped' \in BOOLEAN
  BY <1>1 DEF LDSInv, LDSTypes
<1> QED BY <1>1, <1>2, <1>3, LDSIdle

(* between two probes *)
LEMMA LDSEnded ==
  ASSUME LDSInv, pc = "ended", ~stopped
  PROVE  /\ cur = NoSpace /\ ds = <<>>
         /\ \A s \in tree.solved : /\ Disc(tree)[s] < Total \/ Disc(tree)[s] = Total \/ exhausted => s \in found
                                   /\ Disc(tree)[s] \in Nat
<1>1. cur = NoSpace /\ ds = <<>>
  BY DEF LDSInv, LDSControl
<1>2. FoundOK(tree.solved, Disc(tree), <<>>, NoSpace, found, exhausted, Total)
  BY <1>1, LDSParts
<1>3. \A s \in tree.solved : Disc(tree)[s] \in Nat
  BY LDSParts, DiscNat
<1> QED BY <1>1, <1>2, <1>3, EndFound

LEMMA LDSNew ==
  ASSUME LDSInv
  PROVE  /\ LD!DNew \in 0 .. dl + 1
         /\ dLDS < dl <=> LD!DNew <= dl
         /\ dLDS < dl => LD!DNew = dLDS + 1
         /\ dLDS' = LD!DNew /\ dl' = dl => Total' = IF dLDS < dl THEN Total + 1 ELSE Total
         /\ dLDS \in Nat /\ dl \in Nat
<1>1. dl \in Nat /\ dLDS \in 0 .. dl + 1
  BY DEF LDSInv, LDSTypes
<1>2. dLDS \in Nat /\ dLDS <= dl + 1
  BY <1>1
<1>3. LD!DNew = IF dLDS > dl THEN dLDS ELSE dLDS + 1
  BY DEF LD!DNew
<1>4. LD!DNew \in 0 .. dl + 1 /\ (dLDS < dl <=> LD!DNew <= dl) /\ (dLDS < dl => LD!DNew = dLDS + 1)
  BY <1>1, <1>2, <1>3
<1>5. ASSUME dLDS' = LD!DNew, dl' = dl PROVE Total' = IF dLDS < dl THEN Total + 1 ELSE Total
  <2>1. Total' = IF LD!DNew < dl THEN LD!DNew ELSE dl
    BY <1>5 DEF Total
  <2>2. Total = IF dLDS < dl THEN dLDS ELSE dl
    BY DEF Total
  <2> QED BY <1>1, <1>2, <1>3, <2>1, <2>2
<1> QED BY <1>1, <1>2, <1>4, <1>5

LEMMA LDSGiveUp == ASSUME LDSInv, LD!GiveUp PROVE LDSInv'
<1>1. /\ pc = "ended" /\ pc' = "user" /\ ret' = NoSpace
      /\ \/ stopped /\ UNCHANGED dLDS
         \/ ~stopped /\ (LD!DNew > dl \/ exhausted) /\ dLDS' = LD!DNew
      /\ UNCHANGED <<tree, dl, root, cur, d, ds, exhausted, stopped, found>>
  BY DEF LD!GiveUp, LD!ProblemUnchanged, LD!probeVars
<1>2. LDSControl' /\ ret' \in LDSNode \cup {NoSpace} /\ stopped' \in BOOLEAN
  BY <1>1 DEF LDSInv, LDSControl, LDSTypes
<1>3. CASE stopped /\ UNCHANGED dLDS
  BY <1>1, <1>2, <1>3, LDSIdle
<1>4. CASE ~stopped /\ (LD!DNew > dl \/ exhausted) /\ dLDS' = LD!DNew
  <2>1. cur = NoSpace /\ ds = <<>>
    BY <1>1, <1>4, LDSEnded
  <2>2. /\ PathAssumption(Reached(tree), Offers(tree), {}) /\ DiscOK(Reached(tree), Offers(tree), Disc(tree))
        /\ FoundOK(tree.solved, Disc(tree), <<>>, NoSpace, found, exhausted, Total)
        /\ Total \in Nat /\ tree.solved \in SUBSET Reached(tree) /\ tree \in LDSTrees
    BY <2>1, LDSParts
  <2>3. /\ LD!DNew \in 0 .. dl + 1 /\ (dLDS < dl <=> LD!DNew <= dl)
        /\ Total' = (IF dLDS < dl THEN Total + 1 ELSE Total) /\ dLDS \in Nat /\ dl \in Nat
    BY <1>1, <1>4, LDSNew
  <2>4. FoundOK(tree.solved, Disc(tree), <<>>, NoSpace, found, exhausted, Total')
    <3>1. CASE dLDS < dl
      <4>1. exhausted
        BY <1>4, <2>3, <3>1
      <4> QED BY <2>2, <2>3, <3>1, <4>1, NextFound
    <3>2. CASE ~(dLDS < dl)
      BY <2>2, <2>3, <3>2
    <3> QED BY <3>1, <3>2
  <2>5. Total' \in Nat
    BY <2>2, <2>3
  <2>6. StackOK(Reached(tree), Offers(tree), <<>>, NoSpace) /\ AccountOK(Disc(tree), <<>>, NoSpace, d, Total')
    BY <2>2, <2>5, LDSFresh
  <2>7. LDSProbe'
    BY <1>1, <2>1, <2>4, <2>6 DEF LDSProbe
  <2>8. LDSTypes'
    BY <1>1, <1>4, <1>2, <2>3 DEF LDSInv, LDSTypes
  <2>9. LDSRoot'
    <3>1. root' = NoSpace /\ dLDS' < dl => exhausted
      <4> SUFFICES ASSUME dLDS' < dl PROVE exhausted
        OBVIOUS
      <4>1. LD!DNew < dl /\ LD!DNew \in Nat
        BY <1>4, <2>3
      <4>2. ~(LD!DNew > dl)
        BY <2>3, <4>1
      <4> QED BY <1>4, <4>2
    <3> QED BY <1>1, <2>1, <3>1 DEF LDSRoot
  <2> QED BY <1>2, <2>7, <2>8, <2>9 DEF LDSInv
<1> QED BY <1>1, <1>3, <1>4

LEMMA LDSNextProbe == ASSUME LDSInv, LD!NextProbe PROVE LDSInv'
<1>1. /\ pc = "ended" /\ ~stopped /\ LD!DNew <= dl /\ ~exhausted /\ dLDS' = LD!DNew
      /\ pc' = (IF cur' = NoSpace THEN "backtrack" ELSE "check")
      /\ UNCHANGED <<tree, dl, stopped, ret, found>>
  BY DEF LD!NextProbe, LD!ProblemUnchanged
<1>2. /\ LD!DNew \in 0 .. dl + 1 /\ dLDS < dl /\ LD!DNew = dLDS + 1
      /\ Total' = Total + 1 /\ dLDS \in Nat /\ dl \in Nat
  BY <1>1, LDSNew
<1>3. root = <<>> /\ NoSpace # <<>>
  <2>1. root # NoSpace
    BY <1>1, <1>2 DEF LDSInv, LDSRoot
  <2> QED BY <2>1 DEF LDSInv, LDSTypes
<1>4. /\ cur' = <<>> /\ ds' = <<>> /\ d' = LD!DNew /\ exhausted' = TRUE
      /\ root' = IF LD!DNew = dl THEN NoSpace ELSE root
  BY <1>3 DEF LD!NextProbe
<1>5. Total = dLDS /\ Total' = LD!DNew
  BY <1>2 DEF Total
<1>6. cur = NoSpace /\ ds = <<>>
  BY <1>1, LDSEnded
<1>7. /\ PathAssumption(Reached(tree), Offers(tree), {}) /\ DiscOK(Reached(tree), Offers(tree), Disc(tree))
      /\ FoundOK(tree.solved, Disc(tree), <<>>, NoSpace, found, exhausted, Total)
      /\ Total \in Nat /\ tree.solved \in SUBSET Reached(tree) /\ tree \in LDSTrees
  BY <1>6, LDSParts
<1>8. FoundOK(tree.solved, Disc(tree), <<>>, <<>>, found, TRUE, Total')
  <2>1. exhausted = FALSE
    BY <1>1 DEF LDSInv, LDSTypes
  <2> DEFINE N == Reached(tree)
             A == Offers(tree)
             D == Disc(tree)
             S == tree.solved
             T == Total
  <2>2. /\ PathAssumption(N, A, {}) /\ DiscOK(N, A, D) /\ S \in SUBSET N /\ T \in Nat
        /\ FoundOK(S, D, <<>>, NoSpace, found, FALSE, T)
    BY <1>7, <2>1
  <2> HIDE DEF N, A, D, S, T
  <2>3. FoundOK(S, D, <<>>, <<>>, found, TRUE, T + 1)
    BY <2>2, NextFound
  <2> QED BY <1>2, <2>3 DEF D, S, T
<1>9. Total' \in Nat
  BY <1>2, <1>7
<1>10. StackOK(Reached(tree), Offers(tree), <<>>, <<>>) /\ AccountOK(Disc(tree), <<>>, <<>>, Total', Total')
  BY <1>7, <1>9, LDSFresh
<1>11. LDSProbe'
  BY <1>1, <1>4, <1>5, <1>8, <1>10 DEF LDSProbe
<1>12. LDSTypes'
  <2>1. d' \in 0 .. dl
    BY <1>1, <1>2, <1>4
  <2>2. root' \in {<<>>, NoSpace} /\ dLDS' \in 0 .. dl + 1
    BY <1>1, <1>2, <1>3, <1>4
  <2> QED BY <1>1, <1>4, <2>1, <2>2 DEF LDSInv, LDSTypes
<1>13. LDSControl'
  BY <1>1, <1>3, <1>4 DEF LDSControl
<1>14. LDSRoot'
  <2>1. ASSUME root' = NoSpace, dLDS' < dl PROVE FALSE
    BY <1>1, <1>2, <1>3, <1>4, <2>1
  <2> QED BY <1>1, <2>1 DEF LDSRoot
<1> QED BY <1>11, <1>12, <1>13, <1>14 DEF LDSInv

LEMMA LDSReset == ASSUME LDSInv, LD!Reset PROVE LDSInv'
<1>1. PICK s \in {LD!Root(tree), NoSpace} :
        /\ cur' = s /\ root' = IF dl > 0 THEN s ELSE NoSpace
        /\ found' = IF s = NoSpace THEN tree.solved ELSE {}
  BY DEF LD!Reset
<1>2. pc = "user" /\ dLDS' = 0 /\ d' = 0 /\ ds' = <<>> /\ exhausted' = TRUE /\ UNCHANGED <<tree, dl, stopped, pc, ret>>
  BY DEF LD!Reset, LD!ProblemUnchanged
<1>3. tree \in LDSTrees /\ dl \in Nat
  BY DEF LDSInv, LDSTypes
<1>4. s \in {<<>>, NoSpace} /\ NoSpace # <<>>
  BY <1>1, <1>3, LDSFresh
<1>5. Total' = 0
  BY <1>2, <1>3 DEF Total
<1>6. FoundOK(tree.solved, Disc(tree), <<>>, s, found', TRUE, 0)
  <2>1. /\ FoundOK(tree.solved, Disc(tree), <<>>, <<>>, {}, TRUE, 0)
        /\ FoundOK(tree.solved, Disc(tree), <<>>, NoSpace, tree.solved, TRUE, 0)
    BY <1>3, LDSTree, FirstFound
  <2> QED BY <1>1, <1>4, <2>1
<1>7. StackOK(Reached(tree), Offers(tree), <<>>, s) /\ AccountOK(Disc(tree), <<>>, s, 0, 0)
  BY <1>3, <1>4, LDSFresh
<1>8. LDSProbe'
  BY <1>1, <1>2, <1>5, <1>6, <1>7 DEF LDSProbe
<1>9. LDSTypes'
  <2>1. 0 \in 0 .. dl + 1 /\ 0 \in 0 .. dl
    BY <1>3
  <2>2. root' \in {<<>>, NoSpace} /\ dLDS' \in 0 .. dl + 1 /\ d' \in 0 .. dl /\ found' \subseteq tree.solved
    BY <1>1, <1>2, <1>4, <2>1
  <2> QED BY <1>2, <2>2 DEF LDSInv, LDSTypes
<1>10. LDSControl' /\ LDSRoot'
  BY <1>1, <1>2, <1>3 DEF LDSInv, LDSControl, LDSRoot
<1> QED BY <1>8, <1>9, <1>10 DEF LDSInv

LEMMA LDSStep == ASSUME LDSInv, [LD!Next]_(LD!vars) PROVE LDSInv'
<1>1. CASE UNCHANGED LD!vars
  <2>1. UNCHANGED <<tree, dl, root, dLDS, cur, d, ds, exhausted, stopped, pc, ret, found>>
    BY <1>1 DEF LD!vars, LD!ldsVars, LD!probeVars
  <2>2. LDSControl' /\ ret' \in LDSNode \cup {NoSpace} /\ stopped' \in BOOLEAN
    BY <2>1 DEF LDSInv, LDSControl, LDSTypes
  <2> QED BY <2>1, <2>2, LDSIdle
<1> QED BY <1>1, LDSNextCall, LDSBacktrack, LDSProbeEnds, LDSLeftmost, LDSSolved, LDSDiscard, LDSBranch,
           LDSGiveUp, LDSNextProbe, LDSReset DEF LD!Next, LD!Loop, LD!Probe

LEMMA LDSHolds == LDSInv => LD!ProbeOK
<1> SUFFICES ASSUME LDSInv PROVE LD!ProbeOK
  OBVIOUS
<1> DEFINE N == Reached(tree)
           D == Disc(tree)
<1>1. /\ StackOK(N, Offers(tree), ds, cur) /\ AccountOK(D, ds, cur, d, Total)
      /\ PathAssumption(N, Offers(tree), {}) /\ N \subseteq LDSNode /\ \A n \in N : D[n] = Discrepancies(n)
      /\ Total \in Nat /\ d \in Nat
  BY LDSParts
<1> HIDE DEF N, D
<1>2. ds \in Seq(Choice(N)) /\ cur \in N \cup {NoSpace} /\ Len(ds) \in Nat
  BY <1>1 DEF StackOK
<1>3. ds \in Seq([space : LDSNode, alt : Nat])
  <2>1. Choice(N) \subseteq [space : LDSNode, alt : Nat]
    BY <1>1 DEF Choice
  <2> DEFINE X == Choice(N)
             Y == [space : LDSNode, alt : Nat]
  <2>2. ds \in Seq(X) /\ X \subseteq Y
    BY <1>2, <2>1
  <2> HIDE DEF X, Y
  <2>3. ds \in Seq(Y)
    BY <2>2
  <2> QED BY <2>3 DEF Y
<1>4. root \in LDSNode \cup {NoSpace}
  <2>1. <<>> \in LDSNode
    BY <1>1, TreeIs
  <2> QED BY <2>1 DEF LDSInv, LDSTypes
<1>5. LD!TypeOK
  <2>1. cur \in LDSNode \cup {NoSpace} /\ ret \in LDSNode \cup {NoSpace}
    BY <1>1, <1>2 DEF LDSInv, LDSTypes
  <2>2. found \subseteq tree.solved /\ dLDS \in 0 .. dl + 1 /\ d \in 0 .. dl /\ exhausted \in BOOLEAN /\ stopped \in BOOLEAN
    BY DEF LDSInv, LDSTypes
  <2>3. /\ pc \in {"user", "backtrack", "check", "ended"}
        /\ pc = "check" => cur # NoSpace
        /\ pc = "backtrack" => cur = NoSpace
    BY DEF LDSInv, LDSControl
  <2> QED BY <1>3, <1>4, <2>1, <2>2, <2>3 DEF LD!TypeOK
<1>6. LD!DiscrepancyAccount
  <2>1. cur # NoSpace => Discrepancies(cur) + d = Total
    BY <1>1, <1>2 DEF AccountOK
  <2>2. ASSUME ds # <<>> PROVE Discrepancies(LD!Last(ds).space) + LD!Last(ds).alt + d + 1 = Total
    <3>1. LD!Last(ds) = ds[Len(ds)] /\ Len(ds) \in 1 .. Len(ds)
      BY <1>2, <2>2, LDSLast, PopDone
    <3>2. ds[Len(ds)].space \in N /\ ds[Len(ds)].alt \in Nat
      BY <1>1, <3>1, StackIs
    <3>3. D[ds[Len(ds)].space] + ds[Len(ds)].alt + 1 + d = Total
      BY <1>1, <2>2 DEF AccountOK
    <3>4. D[ds[Len(ds)].space] = Discrepancies(ds[Len(ds)].space) /\ D[ds[Len(ds)].space] \in Nat
      <4>1. D[ds[Len(ds)].space] \in Nat
        BY <3>2, LDSParts, DiscNat DEF N, D
      <4> QED BY <1>1, <3>2, <4>1
    <3> DEFINE u == Discrepancies(ds[Len(ds)].space)
               v == ds[Len(ds)].alt
    <3>5. u \in Nat /\ v \in Nat /\ u + v + 1 + d = Total
      BY <3>2, <3>3, <3>4
    <3> HIDE DEF u, v
    <3>6. u + v + d + 1 = Total
      BY <1>1, <3>5
    <3> QED BY <3>1, <3>6 DEF u, v
  <2>3. \A i \in 1 .. Len(ds) - 1 : LD!Below(LD!Child(ds[i].space, ds[i].alt + 1), ds[i + 1].space)
    <3> TAKE i \in 1 .. Len(ds) - 1
    <3>1. i \in 1 .. Len(ds) /\ i + 1 \in 1 .. Len(ds) /\ i < i + 1
      BY <1>2
    <3>2. Below(Child(ds[i].space, ds[i].alt + 1), ds[i + 1].space)
      BY <1>1, <3>1 DEF StackOK
    <3> QED BY <3>2, LDSBelow, LDSChild
  <2> QED BY <2>1, <2>2, <2>3 DEF LD!DiscrepancyAccount, Total
<1> QED BY <1>5, <1>6 DEF LD!ProbeOK

(* the solutions still to come *)
Coming == {s \in tree.solved : Discrepancies(s) <= dl} \ found

LEMMA LDSComing ==
  /\ LDSInv => Coming \subseteq LDSNode
  /\ UNCHANGED <<tree, dl, found>> => Coming' = Coming
<1>1. LDSInv => Coming \subseteq LDSNode
  BY LDSParts DEF Coming
<1>2. ASSUME UNCHANGED <<tree, dl, found>> PROVE Coming' = Coming
  BY <1>2 DEF Coming
<1> QED BY <1>1, <1>2

LEMMA LDSStreamInit == LD!Init => LD!Stream!Init
<1> SUFFICES ASSUME LD!Init PROVE LD!Stream!Init
  OBVIOUS
<1>1. Coming \subseteq LDSNode
  BY LDSInit, LDSComing
<1>2. pc = "user" /\ ret = NoSpace /\ stopped = FALSE
  BY DEF LD!Init
<1> QED BY <1>1, <1>2 DEF LD!Stream!Init, Coming

LEMMA LDSStreamStep ==
  ASSUME LDSInv, [LD!Next]_(LD!vars)
  PROVE  [LD!Stream!Next]_(LD!Stream!vars)
<1> DEFINE quiet == /\ Coming' = Coming
                    /\ (pc # "user")' = (pc # "user")
                    /\ ret' = ret
                    /\ (stopped /\ pc # "ended")' = (stopped /\ pc # "ended")
<1>0. quiet => UNCHANGED LD!Stream!vars
  BY DEF LD!Stream!vars, Coming
<1>1. CASE LD!NextCall
  <2>1. pc = "user" /\ pc' \in {"backtrack", "check"} /\ stopped' = FALSE /\ ret' = ret
        /\ UNCHANGED <<tree, dl, found>>
    BY <1>1 DEF LD!NextCall, LD!Start, LD!ProblemUnchanged
  <2>2. Coming' = Coming
    BY <2>1, LDSComing
  <2>3. LD!Stream!Call
    BY <2>1, <2>2 DEF LD!Stream!Call, Coming
  <2> QED BY <2>3 DEF LD!Stream!Next
<1>2. CASE LD!Backtrack \/ LD!Leftmost \/ LD!Discard \/ LD!Branch
  <2>1. pc \in {"backtrack", "check"} /\ pc' \in {"backtrack", "check"} /\ UNCHANGED <<tree, dl, found, ret, stopped>>
    BY <1>2 DEF LD!Backtrack, LD!Leftmost, LD!Discard, LD!Branch, LD!ProblemUnchanged
  <2>2. quiet
    BY <2>1, LDSComing
  <2> QED BY <1>0, <2>2
<1>3. CASE LD!ProbeEnds
  <2>1. pc \in {"backtrack", "check"} /\ pc' = "ended" /\ UNCHANGED <<tree, dl, found, ret>>
    BY <1>3 DEF LD!ProbeEnds, LD!ProblemUnchanged
  <2>2. ~stopped
    BY <2>1 DEF LDSInv, LDSControl
  <2>3. quiet
    BY <2>1, <2>2, LDSComing
  <2> QED BY <1>0, <2>3
<1>4. CASE LD!Solved
  <2>1. /\ pc = "check" /\ cur \in tree.solved /\ cur \in Reached(tree) /\ cur \in LDSNode
        /\ cur \notin found /\ Disc(tree)[cur] = Total /\ Total <= dl /\ ~stopped
        /\ \A s \in tree.solved : s \notin found => Disc(tree)[s] >= Disc(tree)[cur]
        /\ ret' = cur /\ found' = found \cup {cur} /\ pc' = "user" /\ UNCHANGED <<tree, dl, stopped>>
    BY <1>4, LDSSolvedIs
  <2>2. \A s \in tree.solved : Disc(tree)[s] = Discrepancies(s) /\ Disc(tree)[s] \in Nat
    BY LDSParts, DiscNat
  <2>3. cur \in Coming
    BY <2>1, <2>2 DEF Coming
  <2>4. \A t \in Coming : ~(Discrepancies(t) < Discrepancies(cur))
    <3> TAKE t \in Coming
    <3>1. t \in tree.solved /\ t \notin found
      BY DEF Coming
    <3>2. Disc(tree)[t] >= Disc(tree)[cur]
      BY <2>1, <3>1
    <3> QED BY <2>1, <2>2, <3>1, <3>2
  <2>5. Coming' = Coming \ {cur}
    BY <2>1 DEF Coming
  <2>6. PICK s \in LDSNode : s = cur
    BY <2>1
  <2>7. LD!Stream!Deliver(s)
    BY <2>1, <2>3, <2>4, <2>5, <2>6 DEF LD!Stream!Deliver, Coming
  <2> QED BY <2>7 DEF LD!Stream!Next
<1>5. CASE LD!GiveUp
  <2>1. /\ pc = "ended" /\ pc' = "user" /\ ret' = NoSpace
        /\ stopped \/ (~stopped /\ (LD!DNew > dl \/ exhausted))
        /\ UNCHANGED <<tree, dl, stopped, found>>
    BY <1>5 DEF LD!GiveUp, LD!ProblemUnchanged
  <2>2. Coming' = Coming
    BY <2>1, LDSComing
  <2>3. CASE stopped
    <3>1. LD!Stream!Stop
      BY <2>1, <2>2, <2>3 DEF LD!Stream!Stop, Coming
    <3> QED BY <3>1 DEF LD!Stream!Next
  <2>4. CASE ~stopped
    <3>1. \A s \in tree.solved : /\ Disc(tree)[s] < Total \/ Disc(tree)[s] = Total \/ exhausted => s \in found
                                 /\ Disc(tree)[s] \in Nat
      BY <2>1, <2>4, LDSEnded
    <3>2. Total \in Nat /\ \A s \in tree.solved : Disc(tree)[s] = Discrepancies(s)
      BY LDSParts
    <3>3. ~exhausted => Total = dl
      <4>1. LD!DNew \in 0 .. dl + 1 /\ (dLDS < dl <=> LD!DNew <= dl) /\ dl \in Nat
        BY LDSNew
      <4>2. LD!DNew > dl => Total = dl
        BY <4>1 DEF Total
      <4> QED BY <2>1, <2>4, <4>2
    <3>4. dl \in Nat
      BY LDSParts
    <3>5. Coming = {}
      <4> SUFFICES ASSUME NEW s \in tree.solved, Discrepancies(s) <= dl, s \notin found PROVE FALSE
        BY DEF Coming
      <4>1. ~exhausted /\ Total = dl /\ Disc(tree)[s] <= Total /\ Disc(tree)[s] \in Nat
        BY <3>1, <3>2, <3>3
      <4>2. Disc(tree)[s] < Total \/ Disc(tree)[s] = Total
        BY <3>2, <4>1
      <4> QED BY <3>1, <4>2
    <3>6. LD!Stream!NoneLeft
      BY <2>1, <2>2, <2>4, <3>5 DEF LD!Stream!NoneLeft, Coming
    <3> QED BY <3>6 DEF LD!Stream!Next
  <2> QED BY <2>3, <2>4
<1>6. CASE LD!NextProbe
  <2>1. pc = "ended" /\ ~stopped /\ UNCHANGED <<tree, dl, found, ret, stopped>> /\ pc' \in {"backtrack", "check"}
    BY <1>6 DEF LD!NextProbe, LD!ProblemUnchanged
  <2>2. quiet
    BY <2>1, LDSComing
  <2> QED BY <1>0, <2>2
<1>7. CASE LD!Reset
  <2>1. pc = "user" /\ UNCHANGED <<pc, ret, stopped>>
    BY <1>7 DEF LD!Reset
  <2>2. Coming' \subseteq LDSNode
    <3>1. tree' = tree /\ tree.solved \subseteq LDSNode
      BY <1>7, LDSParts DEF LD!Reset, LD!ProblemUnchanged
    <3> QED BY <3>1 DEF Coming
  <2>3. LD!Stream!Replace
    BY <2>1, <2>2 DEF LD!Stream!Replace, Coming
  <2> QED BY <2>3 DEF LD!Stream!Next
<1>8. CASE UNCHANGED LD!vars
  <2>1. UNCHANGED <<tree, dl, found, ret, stopped, pc>>
    BY <1>8 DEF LD!vars
  <2>2. quiet
    BY <2>1, LDSComing
  <2> QED BY <1>0, <2>2
<1> QED BY <1>1, <1>2, <1>3, <1>4, <1>5, <1>6, <1>7, <1>8 DEF LD!Next, LD!Loop, LD!Probe

(***************************************************************************)
(* Sequential portfolio.                                                   *)
(***************************************************************************)
SomeSlave == {slaves[j] : j \in 1 .. Len(slaves)}
PBSSlaves ==
  /\ slaves \in Seq(Slave)
  /\ \A j, i \in 1 .. Len(slaves) : slaves[j] = slaves[i] => j = i
PBSNumbers ==
  /\ slice \in 1 .. MaxLimit /\ l \in 0 .. MaxLimit /\ n_exhausted \in 0 .. Len(slaves)
  /\ cur \in 0 .. Len(slaves) - 1 \/ (Len(slaves) = 0 /\ cur = 0)
PBSEngines ==
  /\ leaves \in [Slave -> Seq(problem \cup {Failure})] /\ fail \in [Slave -> Nat]
  /\ bound \in [Slave -> problem \cup {NoSpace}] /\ slaveStopped \in [Slave -> BOOLEAN]
PBSResults ==
  /\ problem \subseteq PBSSolution /\ searchesBest \in BOOLEAN /\ done \in BOOLEAN /\ slave_stop \in BOOLEAN
  /\ pc \in {"user", "slave", "no slave", "slave returned"}
  /\ ret \in problem \cup {NoSpace} /\ best \in problem \cup {NoSpace} /\ delivered \subseteq problem
PBSTypes == PBSSlaves /\ PBSNumbers /\ PBSEngines /\ PBSResults
(* while a slave runs there is one, and not all have exhausted their slice *)
PBSTurns ==
  /\ pc \in {"slave", "slave returned"} => Len(slaves) > 0 /\ n_exhausted < Len(slaves)
  /\ pc = "no slave" => Len(slaves) = 0
(* every slave has all that remains still before it *)
PBSLeft ==
  /\ \A i \in Slave : \A s \in PB!Remaining : \E j \in 1 .. Len(leaves[i]) : leaves[i][j] = s
  /\ searchesBest => \A j \in 1 .. Len(slaves) : bound[slaves[j]] = best
  /\ Len(slaves) = 0 => PB!Remaining = {}
  /\ pc = "slave returned" /\ ~slaveStopped[slaves[cur + 1]] => leaves[slaves[cur + 1]] = <<>>
PBSInv == PBSTypes /\ PBSTurns /\ PBSLeft

LEMMA PBSAssumed ==
  /\ PBSSolution \subseteq Int /\ Failure \notin PBSSolution /\ NoSpace \notin PBSSolution
  /\ MaxLimit \in Nat /\ Slices \subseteq 1 .. MaxLimit /\ IsFiniteSet(Slave)
  /\ \A f \in Portfolios :
       /\ f \in [Slave -> Seq(PBSSolution \cup {Failure})]
       /\ \A i, j \in Slave : PB!Range(f[i]) \ {Failure} = PB!Range(f[j]) \ {Failure}
<1>1. \A S : PB!IsFiniteSet(S) <=> IsFiniteSet(S)
  BY DEF PB!IsFiniteSet, IsFiniteSet
<1> QED BY <1>1, PBSAssumption
   DEF PB!SolutionAssumption, PB!PortfoliosAssumption, PB!NumbersAssumption, PB!SlaveAssumption

LEMMA PBSInit == PB!Init => PBSInv
<1> SUFFICES ASSUME PB!Init PROVE PBSInv
  OBVIOUS
<1>1. /\ slice \in Slices /\ leaves \in Portfolios /\ searchesBest \in BOOLEAN
      /\ problem = (UNION {PB!Range(leaves[i]) : i \in Slave}) \ {Failure}
      /\ slaves = PB!SetToSeq(Slave) /\ cur = 0 /\ l = slice /\ done = FALSE
      /\ slave_stop = FALSE /\ n_exhausted = 0
      /\ fail = [i \in Slave |-> 0] /\ bound = [i \in Slave |-> NoSpace]
      /\ slaveStopped = [i \in Slave |-> FALSE]
      /\ pc = "user" /\ ret = NoSpace /\ best = NoSpace /\ delivered = {}
  BY DEF PB!Init
<1>2. /\ slaves \in [1 .. Cardinality(Slave) -> Slave] /\ PB!IsInjective(slaves) /\ Cardinality(Slave) \in Nat
      /\ Cardinality(Slave) = 0 => Slave = {}
  <2>1. IsFiniteSet(Slave)
    BY PBSAssumed
  <2>2. Cardinality(Slave) \in Nat /\ ExistsBijection(1 .. Cardinality(Slave), Slave)
    BY <2>1, FS_CardinalityType
  <2>3. \E f \in [1 .. Cardinality(Slave) -> Slave] : PB!IsInjective(f)
    <3>1. PICK f \in Bijection(1 .. Cardinality(Slave), Slave) : TRUE
      BY Zenon, <2>2 DEF ExistsBijection
    <3>2. f \in Injection(1 .. Cardinality(Slave), Slave)
      BY <3>1 DEF Bijection
    <3>3. f \in [1 .. Cardinality(Slave) -> Slave] /\ \A a, b \in 1 .. Cardinality(Slave) : f[a] = f[b] => a = b
      BY <3>2 DEF Injection, IsInjective
    <3>4. DOMAIN f = 1 .. Cardinality(Slave)
      BY <3>3
    <3> QED BY <3>3, <3>4 DEF PB!IsInjective
  <2>4. PB!Cardinality(Slave) = Cardinality(Slave)
    BY Zenon DEF PB!Cardinality, Cardinality, PB!IsFiniteSet, IsFiniteSet
  <2>5. slaves = CHOOSE f \in [1 .. Cardinality(Slave) -> Slave] : PB!IsInjective(f)
    BY <1>1, <2>4 DEF PB!SetToSeq
  <2>6. slaves \in [1 .. Cardinality(Slave) -> Slave] /\ PB!IsInjective(slaves)
    BY <2>3, <2>5
  <2>7. Cardinality(Slave) = 0 => Slave = {}
    BY <2>1, FS_EmptySet
  <2> QED BY <2>2, <2>6, <2>7
<1>3. slaves \in Seq(Slave) /\ Len(slaves) = Cardinality(Slave)
  BY <1>2
<1>4. leaves \in [Slave -> Seq(PBSSolution \cup {Failure})]
  BY <1>1, PBSAssumed
<1>5. ASSUME NEW i \in Slave
      PROVE  /\ PB!Range(leaves[i]) = {leaves[i][j] : j \in 1 .. Len(leaves[i])}
             /\ leaves[i] \in Seq(problem \cup {Failure}) /\ problem \subseteq PB!Range(leaves[i])
             /\ PB!Range(leaves[i]) \subseteq PBSSolution \cup {Failure}
  <2>1. leaves[i] \in Seq(PBSSolution \cup {Failure}) /\ DOMAIN leaves[i] = 1 .. Len(leaves[i]) /\ Len(leaves[i]) \in Nat
    BY <1>4
  <2>2. PB!Range(leaves[i]) = {leaves[i][j] : j \in 1 .. Len(leaves[i])}
    BY <2>1 DEF PB!Range
  <2>3. PB!Range(leaves[i]) \subseteq PBSSolution \cup {Failure}
    BY <2>1, <2>2
  <2>4. PB!Range(leaves[i]) \subseteq problem \cup {Failure}
    BY <1>1
  <2>5. problem \subseteq PB!Range(leaves[i])
    <3> SUFFICES ASSUME NEW s \in problem PROVE s \in PB!Range(leaves[i])
      OBVIOUS
    <3>1. PICK j \in Slave : s \in PB!Range(leaves[j]) /\ s # Failure
      BY <1>1
    <3> QED BY <1>1, <3>1, PBSAssumed
  <2>6. \A j \in 1 .. Len(leaves[i]) : leaves[i][j] \in problem \cup {Failure}
    BY <2>2, <2>4
  <2>7. leaves[i] \in [1 .. Len(leaves[i]) -> problem \cup {Failure}]
    BY <2>1, <2>6
  <2> QED BY <2>1, <2>2, <2>3, <2>5, <2>7
<1>6. problem \subseteq PBSSolution
  <2> SUFFICES ASSUME NEW s \in problem PROVE s \in PBSSolution
    OBVIOUS
  <2>1. PICK i \in Slave : s \in PB!Range(leaves[i]) /\ s # Failure
    BY <1>1
  <2> QED BY <1>5, <2>1
<1>7. PBSTypes
  <2>1. slice \in 1 .. MaxLimit /\ l \in 0 .. MaxLimit
    BY <1>1, PBSAssumed
  <2>2. leaves \in [Slave -> Seq(problem \cup {Failure})]
    BY <1>4, <1>5
  <2>3. cur \in 0 .. Len(slaves) - 1 \/ (Len(slaves) = 0 /\ cur = 0)
    BY <1>1, <1>2, <1>3
  <2>4. n_exhausted \in 0 .. Len(slaves)
    BY <1>1, <1>2, <1>3
  <2>5. \A j, i \in 1 .. Len(slaves) : slaves[j] = slaves[i] => j = i
    BY <1>2, <1>3 DEF PB!IsInjective
  <2> QED BY <1>1, <1>2, <1>3, <1>6, <2>1, <2>2, <2>3, <2>4, <2>5 DEF PBSTypes, PBSSlaves, PBSNumbers, PBSEngines, PBSResults
<1>8. PB!Remaining \subseteq problem
  BY DEF PB!Remaining
<1>9. PBSLeft
  <2>1. ASSUME NEW i \in Slave, NEW s \in PB!Remaining PROVE \E j \in 1 .. Len(leaves[i]) : leaves[i][j] = s
    BY <1>5, <1>8
  <2>2. \A j \in 1 .. Len(slaves) : bound[slaves[j]] = best
    BY <1>1, <1>2, <1>3
  <2>3. ASSUME Len(slaves) = 0 PROVE PB!Remaining = {}
    <3>1. Slave = {}
      BY <1>2, <1>3, <2>3
    <3>2. problem = {}
      BY <1>1, <3>1
    <3> QED BY <1>8, <3>2
  <2> QED BY <1>1, <2>1, <2>2, <2>3 DEF PBSLeft
<1> QED BY <1>1, <1>7, <1>9 DEF PBSInv, PBSTurns

LEMMA PBSRemaining ==
  /\ \A s : s \in PB!Remaining <=> /\ s \in problem
                                   /\ IF searchesBest THEN best # NoSpace => s < best ELSE s \notin delivered
  /\ PB!Remaining \subseteq problem
<1>1. CASE searchesBest
  BY <1>1 DEF PB!Remaining, PB!Better
<1>2. CASE ~searchesBest
  BY <1>2 DEF PB!Remaining
<1> QED BY <1>1, <1>2

LEMMA PBSRemainingNext ==
  (/\ \A s : s \in PB!Remaining <=> /\ s \in problem
                                    /\ IF searchesBest THEN best # NoSpace => s < best ELSE s \notin delivered
   /\ PB!Remaining \subseteq problem)'
BY PBSRemaining, PTL

(* the slave that is current *)
LEMMA PBSCounts ==
  ASSUME PBSTypes
  PROVE  Len(slaves) \in Nat /\ n_exhausted \in Nat /\ cur \in Nat
<1>1. Len(slaves) \in Nat
  BY DEF PBSTypes, PBSSlaves
<1> QED BY <1>1 DEF PBSTypes, PBSNumbers

LEMMA PBSCurrent ==
  ASSUME PBSTypes, Len(slaves) > 0
  PROVE  /\ cur + 1 \in 1 .. Len(slaves) /\ Len(slaves) \in Nat /\ cur \in Nat
         /\ PB!Current = slaves[cur + 1] /\ slaves[cur + 1] \in Slave
         /\ leaves[slaves[cur + 1]] \in Seq(problem \cup {Failure})
         /\ fail[slaves[cur + 1]] \in Nat
         /\ slaveStopped[slaves[cur + 1]] \in BOOLEAN
<1>1. Len(slaves) \in Nat /\ cur \in Nat /\ cur + 1 \in 1 .. Len(slaves) /\ PB!Current = slaves[cur + 1]
  BY PBSCounts DEF PBSTypes, PBSNumbers, PB!Current
<1>2. slaves[cur + 1] \in Slave
  BY <1>1 DEF PBSTypes, PBSSlaves
<1> QED BY <1>1, <1>2 DEF PBSTypes, PBSEngines

LEMMA PBSRest ==
  ASSUME NEW S, NEW q \in Seq(S), q # <<>>
  PROVE  /\ Head(q) \in S /\ Tail(q) \in Seq(S)
         /\ \A j \in 1 .. Len(q) : q[j] = Head(q) \/ \E i \in 1 .. Len(Tail(q)) : Tail(q)[i] = q[j]
<1>1. Len(q) \in Nat /\ Len(q) > 0 /\ Head(q) = q[1] /\ Head(q) \in S
  OBVIOUS
<1>2. Tail(q) \in Seq(S) /\ Len(Tail(q)) = Len(q) - 1 /\ \A i \in 1 .. Len(q) - 1 : Tail(q)[i] = q[i + 1]
  BY <1>1
<1>3. ASSUME NEW j \in 1 .. Len(q), j # 1 PROVE \E i \in 1 .. Len(Tail(q)) : Tail(q)[i] = q[j]
  <2>1. j - 1 \in 1 .. Len(q) - 1 /\ (j - 1) + 1 = j
    BY <1>1, <1>3
  <2>2. Tail(q)[j - 1] = q[j]
    BY <1>2, <2>1
  <2> QED BY <1>2, <2>1, <2>2
<1> QED BY <1>1, <1>2, <1>3

LEMMA PBSCalls ==
  ASSUME PBSInv, PB!NextCall
  PROVE  PBSInv' /\ PB!Remaining' = PB!Remaining
<1>0. (Len(slaves) > 0 => pc' = "slave") /\ (~(Len(slaves) > 0) => pc' = "no slave")
  BY Zenon DEF PB!NextCall, PB!n_slaves
<1>1. /\ slave_stop' = FALSE /\ n_exhausted' = 0 /\ pc' \in {"slave", "no slave"}
      /\ UNCHANGED <<slice, problem, searchesBest, slaves, cur, l, done, leaves, fail, bound, slaveStopped,
                     ret, best, delivered>>
  BY <1>0 DEF PB!NextCall, PB!portfolioVars, PB!engineVars
<1>2. PB!Remaining' = PB!Remaining
  BY <1>1, PBSRemaining, PBSRemainingNext
<1>3. Len(slaves) \in Nat
  BY PBSCounts DEF PBSInv
<1>4. PBSTypes'
  <2>1. PBSSlaves'
    BY <1>1 DEF PBSInv, PBSTypes, PBSSlaves
  <2>2. PBSNumbers'
    <3>1. n_exhausted' \in 0 .. Len(slaves)
      <4>1. n_exhausted' = 0
        BY <1>1
      <4>2. 0 \in 0 .. Len(slaves)
        BY <1>3
      <4> QED BY <4>1, <4>2
    <3>2. UNCHANGED <<slice, l, cur, slaves>>
      BY <1>1
    <3>3. PBSNumbers
      BY DEF PBSInv, PBSTypes
    <3> QED BY <3>1, <3>2, <3>3 DEF PBSNumbers
  <2>3. PBSEngines'
    BY <1>1, <1>3 DEF PBSInv, PBSTypes, PBSEngines
  <2>4. PBSResults'
    BY <1>1, <1>3 DEF PBSInv, PBSTypes, PBSResults
  <2> QED BY <2>1, <2>2, <2>3, <2>4 DEF PBSTypes
<1>5. PBSTurns'
  <2>1. CASE Len(slaves) > 0
    BY <1>0, <1>1, <1>3, <2>1 DEF PBSTurns
  <2>2. CASE Len(slaves) = 0
    BY <1>0, <1>1, <1>3, <2>2 DEF PBSTurns
  <2> QED BY <1>3, <2>1, <2>2
<1>6. PBSLeft'
  BY <1>1, <1>2 DEF PBSInv, PBSLeft
<1> QED BY <1>2, <1>4, <1>5, <1>6 DEF PBSInv

LEMMA PBSReturns ==
  ASSUME PBSInv, (\E b \in BOOLEAN : PB!SlaveStopped(b)) \/ PB!SlaveExhausted
  PROVE  PBSInv' /\ PB!Remaining' = PB!Remaining
<1> DEFINE c == slaves[cur + 1]
<1>1. /\ pc = "slave" /\ pc' = "slave returned" /\ done' \in BOOLEAN
      /\ UNCHANGED <<slice, problem, searchesBest, slaves, cur, l, slave_stop, n_exhausted, leaves, fail, bound,
                     ret, best, delivered>>
      /\ \/ slaveStopped' = [slaveStopped EXCEPT ![c] = TRUE]
         \/ slaveStopped' = [slaveStopped EXCEPT ![c] = FALSE] /\ leaves[c] = <<>>
  BY DEF PBSInv, PBSTypes, PBSResults, PB!SlaveStopped, PB!SlaveExhausted, PB!Searching, PB!Current, PB!portfolioVars
<1>2. PB!Remaining' = PB!Remaining
  BY <1>1, PBSRemaining, PBSRemainingNext
<1>3. Len(slaves) \in Nat /\ Len(slaves) > 0 /\ n_exhausted < Len(slaves) /\ c \in Slave
  BY <1>1, PBSCurrent DEF PBSInv, PBSTurns
<1>4. slaveStopped \in [Slave -> BOOLEAN]
  BY DEF PBSInv, PBSTypes, PBSSlaves, PBSNumbers, PBSEngines, PBSResults
<1> HIDE DEF c
<1>5. slaveStopped' \in [Slave -> BOOLEAN] /\ (~slaveStopped'[c] => leaves[c] = <<>>)
  BY <1>1, <1>3, <1>4
<1>6. PBSTypes'
  <2>1. PBSSlaves'
    BY <1>1 DEF PBSInv, PBSTypes, PBSSlaves
  <2>2. PBSNumbers'
    BY <1>1, <1>5, PBSCounts DEF PBSInv, PBSTypes, PBSNumbers
  <2>3. PBSEngines'
    BY <1>1, <1>5 DEF PBSInv, PBSTypes, PBSEngines
  <2>4. PBSResults'
    BY <1>1, <1>5 DEF PBSInv, PBSTypes, PBSResults
  <2> QED BY <2>1, <2>2, <2>3, <2>4 DEF PBSTypes
<1>7. PBSTurns'
  BY <1>1, <1>3 DEF PBSTurns
<1>8. PBSLeft'
  BY <1>1, <1>2, <1>5 DEF PBSInv, PBSLeft, c
<1> QED BY <1>2, <1>6, <1>7, <1>8 DEF PBSInv

LEMMA PBSFails ==
  ASSUME PBSInv, PB!SlaveFails
  PROVE  PBSInv' /\ PB!Remaining' = PB!Remaining
<1> DEFINE c == slaves[cur + 1]
<1>1. /\ pc = "slave" /\ leaves[c] # <<>> /\ ~PB!Solved(Head(leaves[c]), bound[c])
      /\ leaves' = [leaves EXCEPT ![c] = Tail(leaves[c])] /\ fail' = [fail EXCEPT ![c] = fail[c] + 1]
      /\ UNCHANGED <<slice, problem, searchesBest, slaves, cur, l, done, slave_stop, n_exhausted, bound, slaveStopped,
                     pc, ret, best, delivered>>
  BY DEF PB!SlaveFails, PB!Searching, PB!Current, PB!portfolioVars
<1>2. PB!Remaining' = PB!Remaining
  BY <1>1, PBSRemaining, PBSRemainingNext
<1>3. /\ Len(slaves) \in Nat /\ Len(slaves) > 0 /\ n_exhausted < Len(slaves) /\ c \in Slave
      /\ leaves[c] \in Seq(problem \cup {Failure}) /\ fail[c] \in Nat /\ cur + 1 \in 1 .. Len(slaves)
  BY <1>1, PBSCurrent DEF PBSInv, PBSTurns
<1>4. searchesBest => bound[c] = best
  BY <1>3 DEF PBSInv, PBSLeft
<1> HIDE DEF c
<1>5. Head(leaves[c]) \notin PB!Remaining
  <2>1. Head(leaves[c]) = Failure \/ (searchesBest /\ best # NoSpace /\ ~(Head(leaves[c]) < best))
    BY <1>1, <1>4 DEF PB!Solved, PB!Better
  <2>2. problem \subseteq PBSSolution /\ Failure \notin PBSSolution
    BY PBSAssumed DEF PBSInv, PBSTypes, PBSSlaves, PBSNumbers, PBSEngines, PBSResults
  <2> QED BY <2>1, <2>2, PBSRemaining
<1>6. leaves \in [Slave -> Seq(problem \cup {Failure})] /\ fail \in [Slave -> Nat]
  BY DEF PBSInv, PBSTypes, PBSSlaves, PBSNumbers, PBSEngines, PBSResults
<1>7. Tail(leaves[c]) \in Seq(problem \cup {Failure})
  BY <1>1, <1>3, PBSRest
<1>8. leaves' \in [Slave -> Seq(problem \cup {Failure})] /\ fail' \in [Slave -> Nat]
      /\ leaves'[c] = Tail(leaves[c]) /\ \A i \in Slave : i # c => leaves'[i] = leaves[i]
  BY <1>1, <1>3, <1>6, <1>7
<1>9. \A i \in Slave : \A s \in PB!Remaining : \E j \in 1 .. Len(leaves'[i]) : leaves'[i][j] = s
  <2> SUFFICES ASSUME NEW i \in Slave, NEW s \in PB!Remaining PROVE \E j \in 1 .. Len(leaves'[i]) : leaves'[i][j] = s
    OBVIOUS
  <2>1. PICK j \in 1 .. Len(leaves[i]) : leaves[i][j] = s
    BY DEF PBSInv, PBSLeft
  <2>2. CASE i # c
    BY <1>8, <2>1, <2>2
  <2>3. CASE i = c
    <3>1. s # Head(leaves[c])
      BY <1>5
    <3>2. \E k1 \in 1 .. Len(Tail(leaves[c])) : Tail(leaves[c])[k1] = s
      BY <1>1, <1>3, <2>1, <2>3, <3>1, PBSRest
    <3> QED BY <1>8, <2>3, <3>2
  <2> QED BY <2>2, <2>3
<1>10. PBSTypes'
  <2>1. PBSSlaves'
    BY <1>1 DEF PBSInv, PBSTypes, PBSSlaves
  <2>2. PBSNumbers'
    BY <1>1, <1>8, PBSCounts DEF PBSInv, PBSTypes, PBSNumbers
  <2>3. PBSEngines'
    BY <1>1, <1>8 DEF PBSInv, PBSTypes, PBSEngines
  <2>4. PBSResults'
    BY <1>1, <1>8 DEF PBSInv, PBSTypes, PBSResults
  <2> QED BY <2>1, <2>2, <2>3, <2>4 DEF PBSTypes
<1>11. PBSTurns'
  BY <1>1 DEF PBSInv, PBSTurns
<1>12. PBSLeft'
  BY <1>1, <1>2, <1>9 DEF PBSInv, PBSLeft
<1> QED BY <1>2, <1>10, <1>11, <1>12 DEF PBSInv

LEMMA PBSSolves ==
  ASSUME PBSInv, PB!SlaveSolves
  PROVE  /\ PBSInv'
         /\ \E s \in PBSSolution :
              /\ ret' = s /\ (searchesBest => s \in PB!Remaining)
              /\ searchesBest => PB!Remaining' = {t \in PB!Remaining : t < s}
<1> DEFINE c == slaves[cur + 1]
           s == Head(leaves[c])
<1>1. /\ pc = "slave" /\ pc' = "user" /\ leaves[c] # <<>> /\ PB!Solved(s, bound[c])
      /\ leaves' = [leaves EXCEPT ![c] = Tail(leaves[c])]
      /\ bound' = IF searchesBest THEN [i \in Slave |-> IF i \in PB!Range(slaves) THEN s ELSE bound[i]] ELSE bound
      /\ slaveStopped' = [slaveStopped EXCEPT ![c] = FALSE]
      /\ ret' = s /\ best' = s /\ delivered' = delivered \cup {s}
      /\ UNCHANGED <<slice, problem, searchesBest, slaves, cur, l, done, slave_stop, n_exhausted, fail>>
  BY DEF PB!SlaveSolves, PB!Searching, PB!Current, PB!portfolioVars, PB!Return
<1>2. /\ Len(slaves) \in Nat /\ Len(slaves) > 0 /\ n_exhausted < Len(slaves) /\ c \in Slave
      /\ leaves[c] \in Seq(problem \cup {Failure}) /\ cur + 1 \in 1 .. Len(slaves)
  BY <1>1, PBSCurrent DEF PBSInv, PBSTurns
<1>3. searchesBest => bound[c] = best
  BY <1>2 DEF PBSInv, PBSLeft
<1> HIDE DEF c
<1>4. s \in problem \cup {Failure} /\ Tail(leaves[c]) \in Seq(problem \cup {Failure})
  BY <1>1, <1>2, PBSRest
<1>5. \A j \in 1 .. Len(leaves[c]) : leaves[c][j] = s \/ \E i \in 1 .. Len(Tail(leaves[c])) : Tail(leaves[c])[i] = leaves[c][j]
  BY <1>1, <1>2, PBSRest
<1> HIDE DEF s
<1>6. s \in problem /\ (searchesBest /\ best # NoSpace => s < best)
  BY <1>1, <1>3, <1>4 DEF PB!Solved, PB!Better
<1>7. problem \subseteq PBSSolution /\ PBSSolution \subseteq Int /\ NoSpace \notin PBSSolution
  BY PBSAssumed DEF PBSInv, PBSTypes, PBSSlaves, PBSNumbers, PBSEngines, PBSResults
<1>8. best \in problem \cup {NoSpace}
  BY DEF PBSInv, PBSTypes, PBSSlaves, PBSNumbers, PBSEngines, PBSResults
<1>9. searchesBest => s \in PB!Remaining /\ PB!Remaining' = {t \in PB!Remaining : t < s}
  <2> HAVE searchesBest
  <2>1. s \in PB!Remaining
    BY <1>6, PBSRemaining
  <2>2. \A t : t \in PB!Remaining' <=> t \in problem /\ t < s
    BY <1>1, <1>6, <1>7, PBSRemainingNext
  <2>3. \A t \in problem : t < s /\ best # NoSpace => t < best
    BY <1>6, <1>7, <1>8
  <2>4. \A t : t \in PB!Remaining' <=> t \in PB!Remaining /\ t < s
    BY <2>2, <2>3, PBSRemaining
  <2> QED BY <2>1, <2>4
<1>10. PB!Remaining' \subseteq PB!Remaining \ {s}
  <2>1. CASE searchesBest
    <3>1. ~(s < s)
      BY <1>6, <1>7
    <3> QED BY <1>9, <2>1, <3>1
  <2>2. CASE ~searchesBest
    BY <1>1, <2>2, PBSRemaining, PBSRemainingNext
  <2> QED BY <2>1, <2>2
<1>11. leaves \in [Slave -> Seq(problem \cup {Failure})] /\ bound \in [Slave -> problem \cup {NoSpace}]
       /\ slaveStopped \in [Slave -> BOOLEAN] /\ slaves \in Seq(Slave)
  BY DEF PBSInv, PBSTypes, PBSSlaves, PBSNumbers, PBSEngines, PBSResults
<1>12. leaves' \in [Slave -> Seq(problem \cup {Failure})] /\ slaveStopped' \in [Slave -> BOOLEAN]
      /\ leaves'[c] = Tail(leaves[c]) /\ \A i \in Slave : i # c => leaves'[i] = leaves[i]
  BY <1>1, <1>2, <1>4, <1>11
<1>13. bound' \in [Slave -> problem \cup {NoSpace}] /\ (searchesBest => \A j \in 1 .. Len(slaves) : bound'[slaves[j]] = s)
  <2>1. CASE searchesBest
    <3>1. bound' = [i \in Slave |-> IF i \in PB!Range(slaves) THEN s ELSE bound[i]]
      BY <1>1, <2>1
    <3>2. \A j \in 1 .. Len(slaves) : slaves[j] \in Slave /\ slaves[j] \in PB!Range(slaves)
      BY <1>11 DEF PB!Range
    <3> QED BY <1>6, <1>11, <3>1, <3>2
  <2>2. CASE ~searchesBest
    BY <1>1, <1>11, <2>2
  <2> QED BY <2>1, <2>2
<1>14. \A i \in Slave : \A t \in PB!Remaining' : \E j \in 1 .. Len(leaves'[i]) : leaves'[i][j] = t
  <2> SUFFICES ASSUME NEW i \in Slave, NEW t \in PB!Remaining' PROVE \E j \in 1 .. Len(leaves'[i]) : leaves'[i][j] = t
    OBVIOUS
  <2>1. PICK j \in 1 .. Len(leaves[i]) : leaves[i][j] = t
    BY <1>10 DEF PBSInv, PBSLeft
  <2>2. CASE i # c
    BY <1>12, <2>1, <2>2
  <2>3. CASE i = c
    <3>1. \E k1 \in 1 .. Len(Tail(leaves[c])) : Tail(leaves[c])[k1] = t
      BY <1>5, <1>10, <2>1, <2>3
    <3> QED BY <1>12, <2>3, <3>1
  <2> QED BY <2>2, <2>3
<1>15. PBSTypes'
  <2>1. PBSSlaves'
    BY <1>1 DEF PBSInv, PBSTypes, PBSSlaves
  <2>2. PBSNumbers'
    BY <1>1, <1>6, <1>12, <1>13, PBSCounts DEF PBSInv, PBSTypes, PBSNumbers
  <2>3. PBSEngines'
    BY <1>1, <1>6, <1>12, <1>13 DEF PBSInv, PBSTypes, PBSEngines
  <2>4. PBSResults'
    BY <1>1, <1>6, <1>12, <1>13 DEF PBSInv, PBSTypes, PBSResults
  <2> QED BY <2>1, <2>2, <2>3, <2>4 DEF PBSTypes
<1>16. PBSTurns'
  BY <1>1 DEF PBSInv, PBSTurns
<1>17. PBSLeft'
  <2>1. Len(slaves) = 0 => PB!Remaining' = {}
    BY <1>2
  <2> QED BY <1>1, <1>13, <1>14, <2>1 DEF PBSLeft
<1>18. s \in PBSSolution
  BY <1>6, <1>7
<1> QED BY <1>1, <1>9, <1>15, <1>16, <1>17, <1>18 DEF PBSInv

LEMMA PBSWraps == \A a \in Nat : \A b \in Nat \ {0} : a % b \in Nat /\ a % b < b
OBVIOUS

LEMMA PBSTurned ==
  ASSUME PBSTypes, NEW limit \in 0 .. MaxLimit, NEW spent \in Nat, NEW slave \in Nat,
         PB!NextTurn(limit, spent, slave),
         Len(slaves') \in Nat, spent <= Len(slaves'), slave <= Len(slaves')
  PROVE  /\ l' \in 0 .. MaxLimit /\ n_exhausted' \in 0 .. Len(slaves')
         /\ cur' \in 0 .. Len(slaves') - 1 \/ (Len(slaves') = 0 /\ cur' = 0)
         /\ Len(slaves') > 0 => pc' = "slave" /\ n_exhausted' < Len(slaves') /\ ret' = ret
         /\ Len(slaves') = 0 => pc' = "user" /\ ret' = NoSpace
<1>1. PB!n_slaves' = Len(slaves')
  BY DEF PB!n_slaves
<1> DEFINE n == Len(slaves')
<1>2. n \in Nat /\ spent <= n /\ slave <= n
  OBVIOUS
<1>3. /\ spent = n => n_exhausted' = 0 /\ l' = (limit + slice) % (MaxLimit + 1)
      /\ spent # n => n_exhausted' = spent /\ l' = limit
      /\ slave = n => cur' = 0
      /\ slave # n => cur' = slave
      /\ n > 0 => pc' = "slave" /\ ret' = ret
      /\ ~(n > 0) => pc' = "user" /\ ret' = NoSpace
  BY Zenon, <1>1 DEF PB!NextTurn, PB!Return
<1> HIDE DEF n
<1>4. (limit + slice) % (MaxLimit + 1) \in 0 .. MaxLimit
  <2>1. slice \in Nat /\ MaxLimit \in Nat /\ limit \in Nat
    BY PBSAssumed DEF PBSTypes, PBSNumbers
  <2>2. limit + slice \in Nat /\ MaxLimit + 1 \in Nat \ {0}
    BY <2>1
  <2> DEFINE x == limit + slice
             y == MaxLimit + 1
             z == x % y
  <2>3. z \in Nat /\ z < y
    BY <2>2, PBSWraps
  <2> HIDE DEF z
  <2>4. z \in 0 .. MaxLimit
    BY <2>1, <2>3
  <2> QED BY <2>4 DEF z
<1>5. l' \in 0 .. MaxLimit
  BY <1>3, <1>4
<1>6. n_exhausted' \in 0 .. n /\ (n > 0 => n_exhausted' < n)
  BY <1>2, <1>3
<1>7. cur' \in 0 .. n - 1 \/ (n = 0 /\ cur' = 0)
  BY <1>2, <1>3
<1>8. n = 0 => pc' = "user" /\ ret' = NoSpace
  BY <1>2, <1>3
<1> QED BY <1>3, <1>5, <1>6, <1>7, <1>8 DEF n

LEMMA PBSNothing ==
  ASSUME PBSInv, PB!NoSlave
  PROVE  PBSInv' /\ PB!Remaining' = PB!Remaining /\ PB!Remaining = {}
<1>1. /\ pc = "no slave" /\ pc' = "user" /\ ret' = NoSpace
      /\ UNCHANGED <<slice, problem, searchesBest, slaves, cur, l, done, slave_stop, n_exhausted, leaves, fail, bound,
                     slaveStopped, best, delivered>>
  BY DEF PB!NoSlave, PB!Return, PB!portfolioVars, PB!engineVars
<1>2. PB!Remaining' = PB!Remaining
  BY <1>1, PBSRemaining, PBSRemainingNext
<1>3. PB!Remaining = {}
  BY <1>1 DEF PBSInv, PBSTurns, PBSLeft
<1>4. PBSTypes'
  <2>1. PBSSlaves'
    BY <1>1 DEF PBSInv, PBSTypes, PBSSlaves
  <2>2. PBSNumbers'
    BY <1>1 DEF PBSInv, PBSTypes, PBSNumbers
  <2>3. PBSEngines'
    BY <1>1 DEF PBSInv, PBSTypes, PBSEngines
  <2>4. PBSResults'
    BY <1>1 DEF PBSInv, PBSTypes, PBSResults
  <2> QED BY <2>1, <2>2, <2>3, <2>4 DEF PBSTypes
<1>5. PBSTurns' /\ PBSLeft'
  BY <1>1, <1>2 DEF PBSInv, PBSTurns, PBSLeft
<1> QED BY <1>2, <1>3, <1>4, <1>5 DEF PBSInv

LEMMA PBSStops ==
  ASSUME PBSInv, PB!Stopped
  PROVE  PBSInv' /\ PB!Remaining' = PB!Remaining
<1>1. /\ pc = "slave returned" /\ pc' = "user" /\ ret' = NoSpace /\ slave_stop' = TRUE
      /\ UNCHANGED <<slice, problem, searchesBest, slaves, cur, l, done, n_exhausted, leaves, fail, bound,
                     slaveStopped, best, delivered>>
  BY DEF PB!Stopped, PB!Return, PB!portfolioVars, PB!engineVars
<1>2. PB!Remaining' = PB!Remaining
  BY <1>1, PBSRemaining, PBSRemainingNext
<1>4. PBSTypes'
  <2>1. PBSSlaves'
    BY <1>1 DEF PBSInv, PBSTypes, PBSSlaves
  <2>2. PBSNumbers'
    BY <1>1 DEF PBSInv, PBSTypes, PBSNumbers
  <2>3. PBSEngines'
    BY <1>1 DEF PBSInv, PBSTypes, PBSEngines
  <2>4. PBSResults'
    BY <1>1 DEF PBSInv, PBSTypes, PBSResults
  <2> QED BY <2>1, <2>2, <2>3, <2>4 DEF PBSTypes
<1>5. PBSTurns' /\ PBSLeft'
  BY <1>1, <1>2 DEF PBSInv, PBSTurns, PBSLeft
<1> QED BY <1>2, <1>4, <1>5 DEF PBSInv

LEMMA PBSTakesTurns ==
  ASSUME PBSInv, PB!SliceOver
  PROVE  PBSInv' /\ PB!Remaining' = PB!Remaining /\ pc' = "slave" /\ ret' = ret
<1>1. /\ pc = "slave returned" /\ PB!NextTurn(l, n_exhausted + 1, cur + 1)
      /\ UNCHANGED <<slice, problem, searchesBest, slaves, done, slave_stop, leaves, fail, bound,
                     slaveStopped, best, delivered>>
  BY DEF PB!SliceOver, PB!engineVars
<1>2. PB!Remaining' = PB!Remaining
  BY <1>1, PBSRemaining, PBSRemainingNext
<1>3. /\ Len(slaves) \in Nat /\ Len(slaves) > 0 /\ n_exhausted < Len(slaves) /\ n_exhausted \in Nat
      /\ cur + 1 \in 1 .. Len(slaves) /\ slaves' = slaves
  BY <1>1, PBSCurrent, PBSCounts DEF PBSInv, PBSTurns
<1>4. l \in 0 .. MaxLimit
  BY DEF PBSInv, PBSTypes, PBSNumbers
<1>5. n_exhausted + 1 \in Nat /\ n_exhausted + 1 <= Len(slaves') /\ cur + 1 \in Nat /\ cur + 1 <= Len(slaves')
  BY <1>3
<1>6. /\ l' \in 0 .. MaxLimit /\ n_exhausted' \in 0 .. Len(slaves')
      /\ cur' \in 0 .. Len(slaves') - 1 \/ (Len(slaves') = 0 /\ cur' = 0)
      /\ pc' = "slave" /\ n_exhausted' < Len(slaves') /\ ret' = ret
  BY <1>1, <1>3, <1>4, <1>5, PBSTurned DEF PBSInv
<1>7. PBSTypes'
  <2>1. PBSSlaves'
    BY <1>1 DEF PBSInv, PBSTypes, PBSSlaves
  <2>2. PBSNumbers'
    <3>1. slice' \in 1 .. MaxLimit
      BY <1>1 DEF PBSInv, PBSTypes, PBSNumbers
    <3> QED BY <1>6, <3>1 DEF PBSNumbers
  <2>3. PBSEngines'
    BY <1>1 DEF PBSInv, PBSTypes, PBSEngines
  <2>4. PBSResults'
    BY <1>1, <1>6 DEF PBSInv, PBSTypes, PBSResults
  <2> QED BY <2>1, <2>2, <2>3, <2>4 DEF PBSTypes
<1>8. PBSTurns'
  BY <1>3, <1>6 DEF PBSTurns
<1>9. PBSLeft'
  BY <1>1, <1>2, <1>6 DEF PBSInv, PBSLeft
<1> QED BY <1>2, <1>6, <1>7, <1>8, <1>9 DEF PBSInv

LEMMA PBSConstrains ==
  ASSUME PBSInv, NEW b \in problem, PB!Constrain(b)
  PROVE  PBSInv' /\ PB!Remaining' \subseteq PB!Remaining
<1>1. /\ pc = "user" /\ searchesBest
      /\ bound' = [i \in Slave |-> IF i \in PB!Range(slaves) /\ PB!Better(b, bound[i]) THEN b ELSE bound[i]]
      /\ best' = IF PB!Better(b, best) THEN b ELSE best
      /\ UNCHANGED <<slice, problem, searchesBest, slaves, cur, l, done, slave_stop, n_exhausted, leaves, fail,
                     slaveStopped, pc, ret, delivered>>
  BY DEF PB!Constrain, PB!portfolioVars
<1>2. best \in problem \cup {NoSpace} /\ problem \subseteq Int /\ NoSpace \notin problem
  BY PBSAssumed DEF PBSInv, PBSTypes, PBSResults
<1>3. best' \in problem \cup {NoSpace} /\ (best # NoSpace => best' # NoSpace /\ best' <= best)
  BY <1>1, <1>2 DEF PB!Better
<1>4. PB!Remaining' \subseteq PB!Remaining
  <2>1. \A s \in problem : (best' # NoSpace => s < best') => (best # NoSpace => s < best)
    BY <1>2, <1>3
  <2> QED BY <1>1, <2>1, PBSRemaining, PBSRemainingNext
<1>5. /\ bound \in [Slave -> problem \cup {NoSpace}] /\ slaves \in Seq(Slave)
      /\ \A j \in 1 .. Len(slaves) : bound[slaves[j]] = best
  BY <1>1 DEF PBSInv, PBSTypes, PBSEngines, PBSSlaves, PBSLeft
<1>6. bound' \in [Slave -> problem \cup {NoSpace}] /\ \A j \in 1 .. Len(slaves) : bound'[slaves[j]] = best'
  <2>1. \A j \in 1 .. Len(slaves) : slaves[j] \in Slave /\ slaves[j] \in PB!Range(slaves)
    BY <1>5 DEF PB!Range
  <2>2. ASSUME NEW j \in 1 .. Len(slaves) PROVE bound'[slaves[j]] = best'
    <3>1. bound'[slaves[j]] = IF PB!Better(b, best) THEN b ELSE best
      BY <1>1, <1>5, <2>1
    <3> QED BY <1>1, <3>1
  <2>3. bound' \in [Slave -> problem \cup {NoSpace}]
    BY <1>1, <1>5
  <2> QED BY <2>2, <2>3
<1>7. PBSTypes'
  <2>1. PBSSlaves'
    BY <1>1 DEF PBSInv, PBSTypes, PBSSlaves
  <2>2. PBSNumbers'
    BY <1>1 DEF PBSInv, PBSTypes, PBSNumbers
  <2>3. PBSEngines'
    BY <1>1, <1>6 DEF PBSInv, PBSTypes, PBSEngines
  <2>4. PBSResults'
    BY <1>1, <1>3 DEF PBSInv, PBSTypes, PBSResults
  <2> QED BY <2>1, <2>2, <2>3, <2>4 DEF PBSTypes
<1>8. PBSTurns'
  BY <1>1 DEF PBSInv, PBSTurns
<1>9. PBSLeft'
  <2>1. \A i \in Slave : \A s \in PB!Remaining' : \E j \in 1 .. Len(leaves'[i]) : leaves'[i][j] = s
    BY <1>1, <1>4 DEF PBSInv, PBSLeft
  <2>2. Len(slaves) = 0 => PB!Remaining' = {}
    BY <1>4 DEF PBSInv, PBSLeft
  <2> QED BY <1>1, <1>6, <2>1, <2>2 DEF PBSLeft
<1> QED BY <1>4, <1>7, <1>8, <1>9 DEF PBSInv

(* the sequence without its i-th element: the last one takes its place *)
Removed(q, i) == PB!Front([q EXCEPT ![i] = PB!Last(q)])

LEMMA PBSRemoved ==
  ASSUME NEW S, NEW q \in Seq(S), NEW i \in 1 .. Len(q)
  PROVE  /\ Removed(q, i) \in Seq(S) /\ Len(Removed(q, i)) = Len(q) - 1 /\ Len(q) \in Nat
         /\ \A j \in 1 .. Len(q) - 1 : Removed(q, i)[j] = IF j = i THEN q[Len(q)] ELSE q[j]
<1>1. Len(q) \in Nat /\ Len(q) > 0 /\ q \in [1 .. Len(q) -> S] /\ q[Len(q)] \in S
  OBVIOUS
<1> DEFINE r == [q EXCEPT ![i] = q[Len(q)]]
           m == Len(q) - 1
<1>2. r \in [1 .. Len(q) -> S] /\ \A j \in 1 .. Len(q) : r[j] = IF j = i THEN q[Len(q)] ELSE q[j]
  BY <1>1
<1> HIDE DEF r
<1>3. r \in Seq(S) /\ Len(r) = Len(q)
  BY <1>1, <1>2
<1>4. m \in 0 .. Len(r) /\ m \in Nat
  BY <1>1, <1>3
<1>5. Removed(q, i) = SubSeq(r, 1, m)
  BY <1>3 DEF Removed, PB!Front, PB!Last, r
<1> HIDE DEF m
<1>6. SubSeq(r, 1, m) \in Seq(S) /\ Len(SubSeq(r, 1, m)) = m /\ \A j \in 1 .. m : SubSeq(r, 1, m)[j] = r[j]
  BY <1>3, <1>4
<1>7. \A j \in 1 .. m : j \in 1 .. Len(q)
  BY <1>1, <1>3, <1>4
<1> QED BY <1>1, <1>2, <1>5, <1>6, <1>7 DEF m

LEMMA PBSDrops ==
  ASSUME PBSInv, PB!SlaveDone
  PROVE  /\ PBSInv' /\ PB!Remaining' = PB!Remaining /\ PB!Remaining = {}
         /\ \/ pc' = "slave" /\ ret' = ret
            \/ pc' = "user" /\ ret' = NoSpace
<1> DEFINE i == cur + 1
           q == Removed(slaves, i)
<1>1. /\ pc = "slave returned" /\ ~slaveStopped[slaves[i]] /\ slaves' = q
      /\ PB!NextTurn(IF PB!n_slaves' = 1 THEN MaxLimit ELSE l, n_exhausted, cur)
      /\ UNCHANGED <<slice, problem, searchesBest, done, slave_stop, leaves, fail, bound,
                     slaveStopped, best, delivered>>
  BY DEF PB!SlaveDone, PB!engineVars, PB!Current, Removed
<1>2. PB!Remaining' = PB!Remaining
  BY <1>1, PBSRemaining, PBSRemainingNext
<1>3. /\ Len(slaves) \in Nat /\ Len(slaves) > 0 /\ n_exhausted < Len(slaves) /\ n_exhausted \in Nat
      /\ cur \in Nat /\ i \in 1 .. Len(slaves) /\ slaves[i] \in Slave
  BY <1>1, PBSCurrent, PBSCounts DEF PBSInv, PBSTurns
<1>4. PBSSlaves
  BY DEF PBSInv, PBSTypes
<1>5. PB!Remaining = {}
  <2>1. leaves[slaves[i]] = <<>>
    BY <1>1 DEF PBSInv, PBSLeft
  <2>2. Len(leaves[slaves[i]]) = 0
    BY <2>1
  <2>3. \A s \in PB!Remaining : \E j \in 1 .. Len(leaves[slaves[i]]) : leaves[slaves[i]][j] = s
    BY <1>3 DEF PBSInv, PBSLeft
  <2> HIDE DEF i
  <2>4. \A s \in PB!Remaining : \E j \in 1 .. 0 : TRUE
    BY <2>2, <2>3
  <2> QED BY <2>4
<1>6. /\ q \in Seq(Slave) /\ Len(q) = Len(slaves) - 1
      /\ \A j \in 1 .. Len(slaves) - 1 : q[j] = IF j = i THEN slaves[Len(slaves)] ELSE slaves[j]
  <2> HIDE DEF i
  <2>1. slaves \in Seq(Slave)
    BY <1>4 DEF PBSSlaves
  <2> QED BY <1>3, <2>1, PBSRemoved
<1>7. \A j \in 1 .. Len(q) : \E x \in 1 .. Len(slaves) : q[j] = slaves[x]
  <2> SUFFICES ASSUME NEW j \in 1 .. Len(q) PROVE \E x \in 1 .. Len(slaves) : q[j] = slaves[x]
    OBVIOUS
  <2> HIDE DEF q, i
  <2>1. j \in 1 .. Len(slaves) - 1 /\ j \in 1 .. Len(slaves) /\ Len(slaves) \in 1 .. Len(slaves)
    BY <1>3, <1>6
  <2> QED BY <1>6, <2>1
<1>8. \A j, x \in 1 .. Len(q) : q[j] = q[x] => j = x
  <2> SUFFICES ASSUME NEW j \in 1 .. Len(q), NEW x \in 1 .. Len(q), q[j] = q[x] PROVE j = x
    OBVIOUS
  <2> HIDE DEF q, i
  <2>1. /\ j \in 1 .. Len(slaves) - 1 /\ j \in 1 .. Len(slaves) /\ Len(slaves) \in 1 .. Len(slaves)
        /\ x \in 1 .. Len(slaves) - 1 /\ x \in 1 .. Len(slaves) /\ j # Len(slaves) /\ x # Len(slaves)
    BY <1>3, <1>6
  <2>2. \A y, z \in 1 .. Len(slaves) : slaves[y] = slaves[z] => y = z
    BY <1>4 DEF PBSSlaves
  <2>3. q[j] = IF j = i THEN slaves[Len(slaves)] ELSE slaves[j]
    BY <1>6, <2>1
  <2>4. q[x] = IF x = i THEN slaves[Len(slaves)] ELSE slaves[x]
    BY <1>6, <2>1
  <2> QED BY <2>1, <2>2, <2>3, <2>4
<1> DEFINE limit == IF PB!n_slaves' = 1 THEN MaxLimit ELSE l
<1>9. limit \in 0 .. MaxLimit
  <2>1. l \in 0 .. MaxLimit /\ MaxLimit \in 0 .. MaxLimit
    BY PBSAssumed DEF PBSInv, PBSTypes, PBSNumbers
  <2> QED BY <2>1
<1>10. Len(slaves') \in Nat /\ Len(slaves') = Len(slaves) - 1 /\ n_exhausted <= Len(slaves') /\ cur <= Len(slaves')
  <2> HIDE DEF q, i
  <2>1. Len(slaves') = Len(slaves) - 1 /\ Len(slaves) \in Nat /\ Len(slaves) > 0
    BY <1>1, <1>3, <1>6
  <2>2. cur + 1 <= Len(slaves)
    BY <1>3 DEF i
  <2>3. n_exhausted \in Nat /\ cur \in Nat /\ n_exhausted < Len(slaves)
    BY <1>3
  <2> QED BY <2>1, <2>2, <2>3
<1>11. PB!NextTurn(limit, n_exhausted, cur)
  BY <1>1
<1> HIDE DEF limit, q
<1>12. /\ l' \in 0 .. MaxLimit /\ n_exhausted' \in 0 .. Len(slaves')
       /\ cur' \in 0 .. Len(slaves') - 1 \/ (Len(slaves') = 0 /\ cur' = 0)
       /\ Len(slaves') > 0 => pc' = "slave" /\ n_exhausted' < Len(slaves') /\ ret' = ret
       /\ Len(slaves') = 0 => pc' = "user" /\ ret' = NoSpace
  BY <1>3, <1>9, <1>10, <1>11, PBSTurned DEF PBSInv
<1>13. (pc' = "slave" /\ ret' = ret /\ Len(slaves') > 0) \/ (pc' = "user" /\ ret' = NoSpace /\ Len(slaves') = 0)
  BY <1>10, <1>12
<1>14. PBSTypes'
  <2>1. PBSSlaves'
    BY <1>1, <1>6, <1>8 DEF PBSSlaves
  <2>2. PBSNumbers'
    <3>1. slice' \in 1 .. MaxLimit
      BY <1>1 DEF PBSInv, PBSTypes, PBSNumbers
    <3> QED BY <1>12, <3>1 DEF PBSNumbers
  <2>3. PBSEngines'
    BY <1>1 DEF PBSInv, PBSTypes, PBSEngines
  <2>4. PBSResults'
    BY <1>1, <1>13 DEF PBSInv, PBSTypes, PBSResults
  <2> QED BY <2>1, <2>2, <2>3, <2>4 DEF PBSTypes
<1>15. PBSTurns'
  BY <1>12, <1>13 DEF PBSTurns
<1>16. PBSLeft'
  <2>1. PB!Remaining' = {}
    BY <1>2, <1>5
  <2>2. searchesBest' => \A j \in 1 .. Len(slaves') : bound'[slaves'[j]] = best'
    <3> SUFFICES ASSUME searchesBest', NEW j \in 1 .. Len(slaves') PROVE bound'[slaves'[j]] = best'
      OBVIOUS
    <3>1. searchesBest /\ j \in 1 .. Len(q) /\ slaves' = q /\ bound' = bound /\ best' = best
      BY <1>1
    <3>2. PICK x \in 1 .. Len(slaves) : q[j] = slaves[x]
      BY <1>7, <3>1
    <3>3. bound[slaves[x]] = best
      BY <3>1 DEF PBSInv, PBSLeft
    <3> QED BY <3>1, <3>2, <3>3
  <2>3. pc' # "slave returned"
    BY <1>13
  <2> QED BY <2>1, <2>2, <2>3 DEF PBSLeft
<1> QED BY <1>2, <1>5, <1>13, <1>14, <1>15, <1>16 DEF PBSInv

LEMMA PBSHolds == PBSInv => PB!TypeOK
<1> SUFFICES ASSUME PBSInv PROVE PB!TypeOK
  OBVIOUS
<1>1. PBSSlaves /\ PBSNumbers /\ PBSEngines /\ PBSResults
  BY DEF PBSInv, PBSTypes
<1>2. slaves \in Seq(Slave) /\ PB!IsInjective(slaves)
  <2>1. slaves \in Seq(Slave) /\ \A j, i \in 1 .. Len(slaves) : slaves[j] = slaves[i] => j = i
    BY <1>1 DEF PBSSlaves
  <2>2. DOMAIN slaves = 1 .. Len(slaves)
    BY <2>1
  <2> QED BY <2>1, <2>2 DEF PB!IsInjective
<1>3. /\ cur \in 0 .. PB!n_slaves - 1 \/ (PB!n_slaves = 0 /\ cur = 0)
      /\ l \in 0 .. MaxLimit /\ n_exhausted \in 0 .. PB!n_slaves
  BY <1>1 DEF PBSNumbers, PB!n_slaves
<1>4. /\ {searchesBest, done, slave_stop} \subseteq BOOLEAN
      /\ {ret, best} \subseteq problem \cup {NoSpace} /\ delivered \subseteq problem
  BY <1>1 DEF PBSResults
<1>5. fail \in [Slave -> Nat] /\ slaveStopped \in [Slave -> BOOLEAN]
  BY <1>1 DEF PBSEngines
<1> QED BY <1>2, <1>3, <1>4, <1>5 DEF PB!TypeOK

LEMMA PBSStep ==
  ASSUME PBSInv, PB!Next
  PROVE  PBSInv'
BY PBSCalls, PBSReturns, PBSFails, PBSSolves, PBSNothing, PBSStops, PBSTakesTurns, PBSConstrains, PBSDrops
   DEF PB!Next, PB!Loop

LEMMA PBSStreamInit == PB!Init => PB!Stream!Init
<1> SUFFICES ASSUME PB!Init PROVE PB!Stream!Init
  OBVIOUS
<1>1. PB!Remaining \subseteq PBSSolution
  BY PBSInit, PBSRemaining DEF PBSInv, PBSTypes, PBSResults
<1>2. pc = "user" /\ ret = NoSpace /\ slave_stop = FALSE
  BY DEF PB!Init
<1> DEFINE todo == IF searchesBest THEN PB!Remaining ELSE {}
<1>3. todo \in SUBSET PBSSolution
  BY <1>1
<1> QED BY <1>2, <1>3 DEF PB!Stream!Init

LEMMA PBSStreamStep ==
  ASSUME PBSInv, [PB!Next]_(PB!vars)
  PROVE  [PB!Stream!Next]_(PB!Stream!vars) /\ PB!NullMeansDone
<1> DEFINE todo == IF searchesBest THEN PB!Remaining ELSE {}
           quiet == /\ todo' = todo
                    /\ (searchesBest /\ pc # "user")' = (searchesBest /\ pc # "user")
                    /\ (IF searchesBest THEN ret ELSE NoSpace)' = (IF searchesBest THEN ret ELSE NoSpace)
                    /\ (searchesBest /\ slave_stop)' = (searchesBest /\ slave_stop)
<1>0. quiet => UNCHANGED PB!Stream!vars
  BY DEF PB!Stream!vars
<1>n. NoSpace \notin PBSSolution /\ searchesBest \in BOOLEAN
  BY PBSAssumed DEF PBSInv, PBSTypes, PBSResults
<1>1. CASE PB!NextCall
  <2>1. PB!Remaining' = PB!Remaining
    BY <1>1, PBSCalls
  <2>2. pc = "user" /\ pc' # "user" /\ slave_stop' = FALSE /\ ret' = ret /\ searchesBest' = searchesBest
    BY <1>1 DEF PB!NextCall, PB!portfolioVars
  <2>3. CASE searchesBest
    <3>1. PB!Stream!Call
      BY <2>1, <2>2, <2>3 DEF PB!Stream!Call
    <3> QED BY <2>2, <3>1 DEF PB!Stream!Next, PB!NullMeansDone
  <2>4. CASE ~searchesBest
    <3>1. quiet
      BY <2>1, <2>2, <2>4
    <3> QED BY <1>0, <2>2, <3>1 DEF PB!NullMeansDone
  <2> QED BY <2>3, <2>4
<1>2. CASE (\E b \in BOOLEAN : PB!SlaveStopped(b)) \/ PB!SlaveExhausted \/ PB!SlaveFails \/ PB!SliceOver
  <2>1. PB!Remaining' = PB!Remaining
    BY <1>2, PBSReturns, PBSFails, PBSTakesTurns
  <2>2. pc # "user" /\ pc' # "user" /\ slave_stop' = slave_stop /\ ret' = ret /\ searchesBest' = searchesBest
    <3>1. CASE PB!SliceOver
      BY <3>1, PBSTakesTurns DEF PB!SliceOver
    <3>2. CASE (\E b \in BOOLEAN : PB!SlaveStopped(b)) \/ PB!SlaveExhausted \/ PB!SlaveFails
      BY <3>2 DEF PB!SlaveStopped, PB!SlaveExhausted, PB!SlaveFails, PB!Searching, PB!portfolioVars
    <3> QED BY <1>2, <3>1, <3>2
  <2>3. quiet
    BY <2>1, <2>2
  <2> QED BY <1>0, <2>2, <2>3 DEF PB!NullMeansDone
<1>3. CASE PB!SlaveSolves
  <2>1. PICK s \in PBSSolution :
              /\ ret' = s /\ (searchesBest => s \in PB!Remaining)
              /\ searchesBest => PB!Remaining' = {t \in PB!Remaining : t < s}
    BY <1>3, PBSSolves
  <2>2. pc # "user" /\ pc' = "user" /\ slave_stop' = slave_stop /\ searchesBest' = searchesBest
    BY <1>3 DEF PB!SlaveSolves, PB!Searching, PB!portfolioVars, PB!Return
  <2>3. PB!NullMeansDone
    BY <1>n, <2>1 DEF PB!NullMeansDone
  <2>4. CASE searchesBest
    <3>1. todo = PB!Remaining /\ todo' = {t \in todo : t < s}
      BY <2>1, <2>2, <2>4
    <3>2. PB!Stream!Deliver(s)
      BY <2>1, <2>2, <2>4, <3>1 DEF PB!Stream!Deliver
    <3> QED BY <2>3, <3>2 DEF PB!Stream!Next
  <2>5. CASE ~searchesBest
    <3>1. quiet
      BY <2>2, <2>5
    <3> QED BY <1>0, <2>3, <3>1
  <2> QED BY <2>4, <2>5
<1>4. CASE PB!NoSlave \/ PB!SlaveDone
  <2>1. PB!Remaining' = PB!Remaining /\ PB!Remaining = {}
    BY <1>4, PBSNothing, PBSDrops
  <2>2. /\ pc # "user" /\ slave_stop' = slave_stop /\ searchesBest' = searchesBest
        /\ \/ pc' = "user" /\ ret' = NoSpace
           \/ pc' # "user" /\ ret' = ret
    <3>1. CASE PB!NoSlave
      BY <3>1 DEF PB!NoSlave, PB!Return, PB!portfolioVars
    <3>2. CASE PB!SlaveDone
      <4>1. (pc' = "slave" /\ ret' = ret) \/ (pc' = "user" /\ ret' = NoSpace)
        BY <3>2, PBSDrops
      <4> QED BY <3>2, <4>1 DEF PB!SlaveDone
    <3> QED BY <1>4, <3>1, <3>2
  <2>3. PB!NullMeansDone
    BY <2>1 DEF PB!NullMeansDone
  <2>4. CASE searchesBest /\ pc' = "user"
    <3>1. PB!Stream!NoneLeft
      BY <2>1, <2>2, <2>4 DEF PB!Stream!NoneLeft
    <3> QED BY <2>3, <3>1 DEF PB!Stream!Next
  <2>5. CASE ~(searchesBest /\ pc' = "user")
    <3>1. quiet
      BY <2>1, <2>2, <2>5
    <3> QED BY <1>0, <2>3, <3>1
  <2> QED BY <2>4, <2>5
<1>5. CASE PB!Stopped
  <2>1. PB!Remaining' = PB!Remaining
    BY <1>5, PBSStops
  <2>2. pc # "user" /\ pc' = "user" /\ ret' = NoSpace /\ slave_stop' = TRUE /\ searchesBest' = searchesBest
    BY <1>5 DEF PB!Stopped, PB!Return, PB!portfolioVars
  <2>3. CASE searchesBest
    <3>1. PB!Stream!Stop
      BY <2>1, <2>2, <2>3 DEF PB!Stream!Stop
    <3> QED BY <2>2, <3>1 DEF PB!Stream!Next, PB!NullMeansDone
  <2>4. CASE ~searchesBest
    <3>1. quiet
      BY <2>1, <2>2, <2>4
    <3> QED BY <1>0, <2>2, <3>1 DEF PB!NullMeansDone
  <2> QED BY <2>3, <2>4
<1>6. CASE \E b \in problem : PB!Constrain(b)
  <2>1. PB!Remaining' \subseteq PB!Remaining
    BY <1>6, PBSConstrains
  <2>2. pc = "user" /\ UNCHANGED <<pc, ret, slave_stop, searchesBest>>
    BY <1>6 DEF PB!Constrain, PB!portfolioVars
  <2>3. todo' \in SUBSET PBSSolution
    BY <2>1, PBSRemaining DEF PBSInv, PBSTypes, PBSResults
  <2>4. PB!Stream!Replace
    BY <2>2, <2>3 DEF PB!Stream!Replace
  <2> QED BY <2>2, <2>4 DEF PB!Stream!Next, PB!NullMeansDone
<1>7. CASE UNCHANGED PB!vars
  <2>1. UNCHANGED <<problem, searchesBest, slave_stop, pc, ret, best, delivered>>
    BY <1>7 DEF PB!vars, PB!portfolioVars
  <2>2. PB!Remaining' = PB!Remaining
    BY <2>1, PBSRemaining, PBSRemainingNext
  <2>3. quiet
    BY <2>1, <2>2
  <2> QED BY <1>0, <2>1, <2>3 DEF PB!NullMeansDone
<1> QED BY <1>1, <1>2, <1>3, <1>4, <1>5, <1>6, <1>7 DEF PB!Next, PB!Loop

(***************************************************************************)
(* Restart-based search.                                                   *)
(***************************************************************************)
(* what remains once the solution in the queue has been delivered *)
RBSAhead ==
  IF solutions = <<>> THEN RB!Remaining
  ELSE IF opt.best THEN {t \in RB!Remaining : t < Head(solutions)} ELSE RB!Remaining \ {Head(solutions)}
RBSTypes ==
  /\ opt \in RBSOptions /\ problem \in SUBSET RBSSolution /\ delivered \in SUBSET problem
  /\ master = NoSpace \/ master = FailedSpace \/ master \in SUBSET problem
  /\ last \in problem \cup {NoSpace} /\ ret \in problem \cup {NoSpace}
  /\ eTodo \in SUBSET problem /\ eSeen \in SUBSET problem /\ eTodo \cap eSeen = {}
RBSControl ==
  /\ complete \in BOOLEAN /\ restart \in BOOLEAN /\ eStopped \in BOOLEAN /\ e_stopped \in BOOLEAN
  /\ pc \in {"user", "restart", "engine", "search", "null"}
  /\ solutions = <<>> \/ (pc = "search" /\ \E s \in problem : solutions = <<s>>)
  /\ pc = "search" => ~eStopped
  /\ pc = "null" /\ ~eStopped => eTodo = {}
  /\ opt.complete = {TRUE} => complete
(* the master admits all that remains; it has been deleted only if nothing does *)
RBSMaster ==
  /\ master # NoSpace => RB!Remaining \subseteq RB!Admitted(master)
  /\ master = NoSpace => /\ RB!Remaining = {} /\ eTodo = {} /\ ~restart /\ solutions = <<>>
                         /\ pc # "restart" /\ (pc = "null" /\ eStopped => ~e_stopped)
(* what e does in this round *)
RBSRound ==
  /\ eSeen \cap RBSAhead = {}
  /\ opt.best => eTodo \subseteq RBSAhead
  /\ opt.best /\ solutions # <<>> => Head(solutions) \in RB!Remaining
  /\ complete => RBSAhead \subseteq eTodo
RBSInv == RBSTypes /\ RBSControl /\ RBSMaster /\ RBSRound

LEMMA RBSAssumed ==
  /\ RBSSolution \subseteq Int /\ RBSExternal \subseteq RBSSolution
  /\ \A o \in RBSOptions : /\ o.best \in BOOLEAN /\ o.complete \in SUBSET BOOLEAN /\ o.complete # {}
                           /\ o.first = {TRUE} /\ o.max_queue = 1
  /\ FailedSpace # NoSpace /\ NoSpace \notin RBSSolution
  /\ \A m \in SUBSET RBSSolution : m # NoSpace /\ m # FailedSpace
<1>1. RB!SolutionAssumption /\ RB!OptionsAssumption /\ RB!EngineAssumption /\ RB!SpaceAssumption
  BY RBSAssumption
<1>2. RBSSolution \subseteq Int /\ RBSExternal \subseteq RBSSolution
  BY <1>1 DEF RB!SolutionAssumption
<1>3. /\ FailedSpace # NoSpace /\ NoSpace \notin RBSSolution
      /\ \A m \in SUBSET RBSSolution : m # NoSpace /\ m # FailedSpace
  BY Zenon, <1>1 DEF RB!SpaceAssumption
<1>4. ASSUME NEW o \in RBSOptions
      PROVE /\ o.best \in BOOLEAN /\ o.complete \in SUBSET BOOLEAN /\ o.complete # {}
            /\ o.first = {TRUE} /\ o.max_queue = 1
  <2>1. o \in [best : BOOLEAN, nogoods : BOOLEAN, first : (SUBSET BOOLEAN) \ {{}},
               complete : (SUBSET BOOLEAN) \ {{}}, max_queue : Nat \ {0}]
    BY <1>1 DEF RB!OptionsAssumption
  <2>2. o.first = {TRUE} /\ o.max_queue = 1
    BY <1>1 DEF RB!EngineAssumption
  <2> QED BY <2>1, <2>2
<1> QED BY <1>2, <1>3, <1>4

LEMMA RBSRemaining ==
  /\ \A s : s \in RB!Remaining <=> /\ s \in problem
                                   /\ IF opt.best THEN (last # NoSpace => s < last) ELSE s \notin delivered
  /\ RB!Remaining \subseteq problem
<1>1. CASE opt.best
  BY <1>1 DEF RB!Remaining, RB!BetterThan
<1>2. CASE ~opt.best
  BY <1>2 DEF RB!Remaining
<1> QED BY <1>1, <1>2

LEMMA RBSRemainingNext ==
  (/\ \A s : s \in RB!Remaining <=> /\ s \in problem
                                    /\ IF opt.best THEN (last # NoSpace => s < last) ELSE s \notin delivered
   /\ RB!Remaining \subseteq problem)'
BY RBSRemaining, PTL

LEMMA RBSAheadIs ==
  /\ \A s : s \in RBSAhead <=> /\ s \in RB!Remaining
                               /\ solutions # <<>> => IF opt.best THEN s < Head(solutions) ELSE s # Head(solutions)
  /\ solutions = <<>> => RBSAhead = RB!Remaining
  /\ RBSAhead \subseteq RB!Remaining
<1>1. CASE solutions = <<>>
  BY <1>1 DEF RBSAhead
<1>2. CASE solutions # <<>> /\ opt.best
  BY <1>2 DEF RBSAhead
<1>3. CASE solutions # <<>> /\ ~opt.best
  BY <1>3 DEF RBSAhead
<1> QED BY <1>1, <1>2, <1>3

LEMMA RBSAheadNext ==
  (/\ \A s : s \in RBSAhead <=> /\ s \in RB!Remaining
                                /\ solutions # <<>> => IF opt.best THEN s < Head(solutions) ELSE s # Head(solutions)
   /\ solutions = <<>> => RBSAhead = RB!Remaining
   /\ RBSAhead \subseteq RB!Remaining)'
BY RBSAheadIs, PTL

LEMMA RBSInit == RB!Init => RBSInv
<1> SUFFICES ASSUME RB!Init PROVE RBSInv
  OBVIOUS
<1>1. /\ problem \in SUBSET RBSSolution /\ opt \in RBSOptions
      /\ master = problem /\ last = NoSpace /\ complete = TRUE /\ restart = FALSE
      /\ eSeen = {} /\ solutions = <<>> /\ eStopped = FALSE
      /\ e_stopped = FALSE
      /\ pc = "user" /\ ret = NoSpace /\ delivered = {}
  BY DEF RB!Init
<1>2. opt.first = {TRUE}
  BY <1>1, RBSAssumed
<1>3. eTodo = problem
  BY <1>2 DEF RB!Init, RB!Slaves
<1>4. master # NoSpace /\ master # FailedSpace
  BY <1>1, RBSAssumed
<1>5. RB!Remaining = problem /\ RBSAhead = problem
  BY <1>1, RBSRemaining, RBSAheadIs
<1>6. RBSTypes
  BY <1>1, <1>3 DEF RBSTypes
<1>7. RBSControl
  BY <1>1 DEF RBSControl
<1>8. RBSMaster
  BY <1>1, <1>4, <1>5 DEF RBSMaster, RB!Admitted
<1>9. RBSRound
  BY <1>1, <1>3, <1>5 DEF RBSRound
<1> QED BY <1>6, <1>7, <1>8, <1>9 DEF RBSInv

LEMMA RBSConfigured ==
  ASSUME RBSInv, master # NoSpace, solutions = <<>>, NEW m \in RB!Configured(master)
  PROVE  \/ m = FailedSpace /\ RB!Remaining = {}
         \/ /\ m \in SUBSET problem /\ m # FailedSpace /\ m # NoSpace
            /\ RB!Remaining \subseteq m /\ (opt.best => m \subseteq RB!Remaining)
<1>1. /\ RB!Remaining \subseteq RB!Admitted(master) /\ eSeen \cap RB!Remaining = {}
      /\ problem \in SUBSET RBSSolution
  BY RBSAheadIs DEF RBSInv, RBSMaster, RBSRound, RBSTypes
<1>2. CASE master = FailedSpace
  <2>1. m = FailedSpace
    BY <1>2 DEF RB!Configured
  <2>2. RB!Remaining = {}
    BY <1>1, <1>2 DEF RB!Admitted
  <2> QED BY <2>1, <2>2
<1>3. CASE master # FailedSpace
  <2>1. RB!Admitted(master) = master /\ master \in SUBSET problem
    BY <1>3 DEF RB!Admitted, RBSInv, RBSTypes
  <2> DEFINE base == IF opt.best THEN RB!BetterThan(RB!Admitted(master), last) ELSE RB!Admitted(master)
             after == {base \ ng : ng \in IF opt.nogoods THEN SUBSET eSeen ELSE {{}}}
  <2>2. m \in after \cup (IF {} \in after THEN {FailedSpace} ELSE {})
    BY <1>3 DEF RB!Configured
  <2>3. base \in SUBSET problem /\ RB!Remaining \subseteq base /\ (opt.best => base \subseteq RB!Remaining)
    <3>1. CASE opt.best
      <4>1. \A s : s \in base <=> s \in master /\ (last # NoSpace => s < last)
        BY <2>1, <3>1 DEF RB!BetterThan
      <4> HIDE DEF base
      <4> QED BY <1>1, <2>1, <3>1, <4>1, RBSRemaining
    <3>2. CASE ~opt.best
      BY <1>1, <2>1, <3>2
    <3> QED BY <3>1, <3>2
  <2> HIDE DEF base
  <2>4. \A x \in after : x \in SUBSET problem /\ RB!Remaining \subseteq x /\ (opt.best => x \subseteq RB!Remaining)
    <3> SUFFICES ASSUME NEW x \in after
                 PROVE  x \in SUBSET problem /\ RB!Remaining \subseteq x /\ (opt.best => x \subseteq RB!Remaining)
      OBVIOUS
    <3>1. PICK ng \in SUBSET eSeen : x = base \ ng
      BY SMT
    <3> QED BY <1>1, <2>3, <3>1
  <2> HIDE DEF after
  <2>5. CASE m \in after
    <3>1. m # FailedSpace /\ m # NoSpace
      BY <1>1, <2>4, <2>5, RBSAssumed
    <3> QED BY <2>4, <2>5, <3>1
  <2>6. CASE m \notin after
    <3>1. {} \in after /\ m = FailedSpace
      BY <2>2, <2>6
    <3> QED BY <2>4, <3>1
  <2> QED BY <2>5, <2>6
<1> QED BY <1>2, <1>3

LEMMA RBSQuiet ==
  ASSUME RBSInv,
         RB!NextCall \/ RB!EngineNext \/ (\E limit \in BOOLEAN : RB!EngineStops(limit)) \/ RB!EngineExhausted
           \/ RB!GiveUp
  PROVE  /\ RBSInv' /\ RB!Remaining' = RB!Remaining
         /\ RB!GiveUp /\ ~eStopped => RB!Remaining = {}
<1>1. UNCHANGED <<problem, opt, master, last, complete, restart, eTodo, eSeen, solutions, delivered>>
  BY DEF RB!NextCall, RB!EngineNext, RB!EngineStops, RB!EngineExhausted, RB!GiveUp, RB!engineVars
<1>2. RB!Remaining' = RB!Remaining /\ RBSAhead' = RBSAhead
  <2>1. RB!Remaining' = RB!Remaining
    BY <1>1, RBSRemaining, RBSRemainingNext
  <2> QED BY <1>1, <2>1, RBSAheadIs, RBSAheadNext
<1>3. ret' \in problem \cup {NoSpace}
  BY DEF RBSInv, RBSTypes, RB!NextCall, RB!EngineNext, RB!EngineStops, RB!EngineExhausted, RB!GiveUp, RB!Return
<1>4. RBSTypes'
  BY <1>1, <1>3 DEF RBSInv, RBSTypes
<1>5. RBSRound'
  BY <1>1, <1>2 DEF RBSInv, RBSRound
<1>6. CASE RB!NextCall
  <2>1. pc = "user" /\ pc' \in {"restart", "engine"} /\ (pc' = "restart" => restart) /\ UNCHANGED <<eStopped, e_stopped>>
    BY <1>6 DEF RB!NextCall, RB!engineVars, RBSInv, RBSControl
  <2>2. solutions = <<>>
    BY <2>1 DEF RBSInv, RBSControl
  <2>3. RBSControl'
    BY <1>1, <2>1, <2>2 DEF RBSInv, RBSControl
  <2>4. RBSMaster'
    BY <1>1, <1>2, <2>1, <2>2 DEF RBSInv, RBSMaster, RB!Admitted
  <2>5. ~RB!GiveUp
    BY <2>1 DEF RB!GiveUp
  <2> QED BY <1>2, <1>4, <1>5, <2>3, <2>4, <2>5 DEF RBSInv
<1>7. CASE RB!EngineNext
  <2>1. pc = "engine" /\ pc' = "search" /\ solutions = <<>> /\ eStopped' = FALSE /\ UNCHANGED e_stopped
    BY <1>7 DEF RB!EngineNext
  <2>2. RBSControl'
    BY <1>1, <2>1 DEF RBSInv, RBSControl
  <2>3. RBSMaster'
    BY <1>1, <1>2, <2>1 DEF RBSInv, RBSMaster, RB!Admitted
  <2>4. ~RB!GiveUp
    BY <2>1 DEF RB!GiveUp
  <2> QED BY <1>2, <1>4, <1>5, <2>2, <2>3, <2>4 DEF RBSInv
<1>8. CASE \E limit \in BOOLEAN : RB!EngineStops(limit)
  <2>1. /\ pc = "search" /\ pc' = "null" /\ solutions = <<>> /\ eStopped' = TRUE
        /\ e_stopped' \in BOOLEAN /\ (e_stopped' => master # NoSpace)
    BY <1>8 DEF RB!EngineStops
  <2>2. RBSControl'
    BY <1>1, <2>1 DEF RBSInv, RBSControl
  <2>3. RBSMaster'
    BY <1>1, <1>2, <2>1 DEF RBSInv, RBSMaster, RB!Admitted
  <2>4. ~RB!GiveUp
    BY <2>1 DEF RB!GiveUp
  <2> QED BY <1>2, <1>4, <1>5, <2>2, <2>3, <2>4 DEF RBSInv
<1>9. CASE RB!EngineExhausted
  <2>1. pc = "search" /\ pc' = "null" /\ solutions = <<>> /\ eTodo = {} /\ UNCHANGED <<eStopped, e_stopped>>
    BY <1>9 DEF RB!EngineExhausted, RB!engineVars
  <2>2. ~eStopped
    BY <2>1 DEF RBSInv, RBSControl
  <2>3. RBSControl'
    BY <1>1, <2>1 DEF RBSInv, RBSControl
  <2>4. RBSMaster'
    BY <1>1, <1>2, <2>1, <2>2 DEF RBSInv, RBSMaster, RB!Admitted
  <2>5. ~RB!GiveUp
    BY <2>1 DEF RB!GiveUp
  <2> QED BY <1>2, <1>4, <1>5, <2>3, <2>4, <2>5 DEF RBSInv
<1>10. CASE RB!GiveUp
  <2>1. pc = "null" /\ ~RB!MustRestart /\ pc' = "user" /\ UNCHANGED <<eStopped, e_stopped>>
    BY <1>10 DEF RB!GiveUp, RB!engineVars, RB!Return
  <2>2. solutions = <<>>
    BY <2>1 DEF RBSInv, RBSControl
  <2>3. RBSControl'
    BY <1>1, <2>1, <2>2 DEF RBSInv, RBSControl
  <2>4. RBSMaster'
    BY <1>1, <1>2, <2>1, <2>2 DEF RBSInv, RBSMaster, RB!Admitted
  <2>5. ASSUME ~eStopped PROVE RB!Remaining = {}
    <3>1. complete /\ eTodo = {}
      BY <2>1, <2>5 DEF RB!MustRestart, RBSInv, RBSControl
    <3>2. RBSAhead = RB!Remaining
      BY <2>2, RBSAheadIs
    <3> QED BY <3>1, <3>2 DEF RBSInv, RBSRound
  <2> QED BY <1>2, <1>4, <1>5, <2>3, <2>4, <2>5 DEF RBSInv
<1> QED BY <1>6, <1>7, <1>8, <1>9, <1>10

(* the engine starts a round with this master *)
LEMMA RBSRestarts ==
  ASSUME RBSInv, master # NoSpace, solutions = <<>>, pc \in {"restart", "null"},
         NEW m \in SUBSET problem, m # FailedSpace, m # NoSpace,
         RB!Remaining \subseteq m, opt.best => m \subseteq RB!Remaining,
         RB!StartSlave(m), restart' \in BOOLEAN, e_stopped' \in BOOLEAN,
         UNCHANGED <<problem, opt, last, delivered, ret>>
  PROVE  RBSInv' /\ RB!Remaining' = RB!Remaining
<1>1. PICK c \in opt.complete : \E s \in RB!Slaves(m, c) :
             complete' = c /\ eTodo' = s /\ eSeen' = {} /\ solutions' = solutions
  BY DEF RB!StartSlave, RB!ResetEngine
<1>2. PICK s \in RB!Slaves(m, c) : complete' = c /\ eTodo' = s /\ eSeen' = {} /\ solutions' = solutions
  BY <1>1
<1>3. master' = m /\ pc' = "engine" /\ eStopped' = eStopped
  BY DEF RB!StartSlave
<1>4. opt \in RBSOptions /\ opt.complete \in SUBSET BOOLEAN
  BY RBSAssumed DEF RBSInv, RBSTypes
<1>5. c \in BOOLEAN /\ s \in SUBSET m /\ (c => s = m)
  BY <1>1, <1>2, <1>4 DEF RB!Slaves
<1>6. RB!Remaining' = RB!Remaining
  BY RBSRemaining, RBSRemainingNext
<1>7. RBSAhead' = RB!Remaining
  BY <1>2, <1>6, RBSAheadNext
<1>8. RBSTypes'
  BY <1>2, <1>3, <1>5 DEF RBSInv, RBSTypes
<1>9. RBSControl'
  <2>1. opt.complete = {TRUE} => c
    BY <1>1
  <2> QED BY <1>2, <1>3, <1>5, <2>1 DEF RBSInv, RBSControl
<1>10. RBSMaster'
  BY <1>3, <1>6 DEF RBSMaster, RB!Admitted
<1>11. RBSRound'
  BY <1>2, <1>5, <1>7 DEF RBSRound
<1> QED BY <1>6, <1>8, <1>9, <1>10, <1>11 DEF RBSInv

LEMMA RBSSolutionRestarts ==
  ASSUME RBSInv, RB!SolutionRestart
  PROVE  /\ RBSInv' /\ RB!Remaining' = RB!Remaining
         /\ \/ pc' = "engine" /\ ret' = ret
            \/ pc' = "user" /\ ret' = NoSpace /\ RB!Remaining = {}
<1>1. /\ pc = "restart" /\ master # NoSpace /\ restart' = FALSE
      /\ UNCHANGED <<problem, opt, last, e_stopped, delivered>>
  BY DEF RB!SolutionRestart
<1>2. solutions = <<>>
  BY <1>1 DEF RBSInv, RBSControl
<1>3. PICK m \in RB!Configured(master) :
       \/ /\ m = FailedSpace /\ master' = NoSpace
          /\ RB!ResetEngine({}) /\ RB!Return(NoSpace) /\ UNCHANGED <<complete, eStopped>>
       \/ m # FailedSpace /\ RB!StartSlave(m) /\ UNCHANGED ret
       \/ m # FailedSpace /\ master' = m /\ pc' = "engine" /\ UNCHANGED <<complete, RB!engineVars, ret>>
  BY DEF RB!SolutionRestart
<1>4. \/ m = FailedSpace /\ RB!Remaining = {}
      \/ /\ m \in SUBSET problem /\ m # FailedSpace /\ m # NoSpace
         /\ RB!Remaining \subseteq m /\ (opt.best => m \subseteq RB!Remaining)
  BY <1>1, <1>2, RBSConfigured
<1>5. RB!Remaining' = RB!Remaining
  BY <1>1, RBSRemaining, RBSRemainingNext
<1>6. CASE /\ m = FailedSpace /\ master' = NoSpace
           /\ RB!ResetEngine({}) /\ RB!Return(NoSpace) /\ UNCHANGED <<complete, eStopped>>
  <2>1. eTodo' = {} /\ eSeen' = {} /\ solutions' = <<>> /\ pc' = "user" /\ ret' = NoSpace /\ RB!Remaining = {}
    BY <1>2, <1>4, <1>6 DEF RB!ResetEngine, RB!Return
  <2>2. RBSAhead' = {}
    BY <1>5, <2>1, RBSAheadNext
  <2>3. RBSTypes'
    BY <1>1, <1>6, <2>1 DEF RBSInv, RBSTypes
  <2>4. RBSControl'
    BY <1>1, <1>6, <2>1 DEF RBSInv, RBSControl
  <2>5. RBSMaster'
    BY <1>1, <1>5, <1>6, <2>1 DEF RBSMaster
  <2>6. RBSRound'
    BY <2>1, <2>2 DEF RBSRound
  <2> QED BY <1>5, <2>1, <2>3, <2>4, <2>5, <2>6 DEF RBSInv
<1>7. CASE m # FailedSpace /\ RB!StartSlave(m) /\ UNCHANGED ret
  <2>1. pc' = "engine"
    BY <1>7 DEF RB!StartSlave
  <2>2. RBSInv'
    BY <1>1, <1>2, <1>4, <1>7, RBSRestarts DEF RBSInv, RBSControl
  <2> QED BY <1>5, <1>7, <2>1, <2>2
<1>8. CASE m # FailedSpace /\ master' = m /\ pc' = "engine" /\ UNCHANGED <<complete, RB!engineVars, ret>>
  <2>1. UNCHANGED <<eTodo, eSeen, solutions, eStopped>>
    BY <1>8 DEF RB!engineVars
  <2>2. RBSAhead' = RBSAhead
    BY <1>1, <1>2, <1>5, <2>1, RBSAheadIs, RBSAheadNext
  <2>3. RBSTypes'
    BY <1>1, <1>4, <1>8, <2>1 DEF RBSInv, RBSTypes
  <2>4. RBSControl'
    BY <1>1, <1>2, <1>8, <2>1 DEF RBSInv, RBSControl
  <2>5. RBSMaster'
    BY <1>4, <1>5, <1>8 DEF RBSMaster, RB!Admitted
  <2>6. RBSRound'
    BY <1>1, <1>2, <1>8, <2>1, <2>2 DEF RBSInv, RBSRound
  <2> QED BY <1>5, <1>8, <2>3, <2>4, <2>5, <2>6 DEF RBSInv
<1> QED BY <1>3, <1>6, <1>7, <1>8

LEMMA RBSTrueRestarts ==
  ASSUME RBSInv, RB!TrueRestart
  PROVE  /\ RBSInv' /\ RB!Remaining' = RB!Remaining /\ eStopped' = eStopped
         /\ \/ pc' = "engine" /\ ret' = ret
            \/ pc' = "user" /\ ret' = NoSpace /\ RB!Remaining = {}
<1>1. /\ pc = "null" /\ master # NoSpace /\ e_stopped' = FALSE
      /\ UNCHANGED <<problem, opt, last, restart, delivered>>
  BY DEF RB!TrueRestart
<1>2. solutions = <<>>
  BY <1>1 DEF RBSInv, RBSControl
<1>3. PICK m \in RB!Configured(master) :
       \/ m = FailedSpace /\ master' = m /\ RB!Return(NoSpace) /\ UNCHANGED <<complete, RB!engineVars>>
       \/ m # FailedSpace /\ RB!StartSlave(m) /\ UNCHANGED ret
  BY DEF RB!TrueRestart
<1>4. \/ m = FailedSpace /\ RB!Remaining = {}
      \/ /\ m \in SUBSET problem /\ m # FailedSpace /\ m # NoSpace
         /\ RB!Remaining \subseteq m /\ (opt.best => m \subseteq RB!Remaining)
  BY <1>1, <1>2, RBSConfigured
<1>5. RB!Remaining' = RB!Remaining
  BY <1>1, RBSRemaining, RBSRemainingNext
<1>6. CASE m = FailedSpace /\ master' = m /\ RB!Return(NoSpace) /\ UNCHANGED <<complete, RB!engineVars>>
  <2>1. UNCHANGED <<eTodo, eSeen, solutions, eStopped>> /\ pc' = "user" /\ ret' = NoSpace /\ RB!Remaining = {}
    BY <1>4, <1>6 DEF RB!engineVars, RB!Return
  <2>2. RBSAhead' = RBSAhead /\ FailedSpace # NoSpace
    BY <1>1, <1>2, <1>5, <2>1, RBSAheadIs, RBSAheadNext, RBSAssumed
  <2>3. RBSTypes'
    BY <1>1, <1>6, <2>1 DEF RBSInv, RBSTypes
  <2>4. RBSControl'
    BY <1>1, <1>2, <1>6, <2>1 DEF RBSInv, RBSControl
  <2>5. RBSMaster'
    BY <1>5, <1>6, <2>1, <2>2 DEF RBSMaster
  <2>6. RBSRound'
    BY <1>1, <1>2, <1>6, <2>1, <2>2 DEF RBSInv, RBSRound
  <2> QED BY <1>5, <2>1, <2>3, <2>4, <2>5, <2>6 DEF RBSInv
<1>7. CASE m # FailedSpace /\ RB!StartSlave(m) /\ UNCHANGED ret
  <2>1. pc' = "engine" /\ eStopped' = eStopped
    BY <1>7 DEF RB!StartSlave
  <2>2. RBSInv'
    BY <1>1, <1>2, <1>4, <1>7, RBSRestarts DEF RBSInv, RBSControl
  <2> QED BY <1>5, <1>7, <2>1, <2>2
<1> QED BY <1>3, <1>6, <1>7

LEMMA RBSQueue ==
  \A s : <<s>> # <<>> /\ Head(<<s>>) = s /\ Tail(<<s>>) = <<>> /\ Len(<<s>>) = 1 /\ Append(<<>>, s) = <<s>>
OBVIOUS

LEMMA RBSFinds ==
  ASSUME RBSInv, NEW s \in RBSSolution, RB!EngineFinds(s)
  PROVE  RBSInv' /\ RB!Remaining' = RB!Remaining
<1> DEFINE left == IF opt.best THEN RB!BetterThan(eTodo, s) ELSE eTodo \ {s}
<1>1. /\ pc = "search" /\ s \in eTodo /\ Len(solutions) < opt.max_queue
      /\ solutions' = Append(solutions, s) /\ eTodo' = left /\ eSeen' = eSeen \cup (eTodo \ left)
      /\ UNCHANGED <<problem, opt, master, last, complete, restart, eStopped, e_stopped, pc, ret, delivered>>
  BY DEF RB!EngineFinds
<1>2. opt.max_queue = 1 /\ problem \in SUBSET RBSSolution /\ RBSSolution \subseteq Int /\ NoSpace \notin RBSSolution
      /\ s \in problem
  BY <1>1, RBSAssumed DEF RBSInv, RBSTypes
<1>3. solutions = <<>>
  <2>1. ASSUME NEW x, solutions = <<x>> PROVE FALSE
    BY <1>1, <1>2, <2>1
  <2> QED BY <2>1 DEF RBSInv, RBSControl
<1>4. solutions' = <<s>> /\ solutions' # <<>> /\ Head(solutions') = s
  BY <1>1, <1>3, RBSQueue
<1>5. \A t : t \in left <=> t \in eTodo /\ (IF opt.best THEN t < s ELSE t # s)
  <2>1. CASE opt.best
    BY <1>2, <2>1 DEF RB!BetterThan
  <2>2. CASE ~opt.best
    BY <2>2
  <2> QED BY <2>1, <2>2
<1> HIDE DEF left
<1>6. RB!Remaining' = RB!Remaining
  BY <1>1, RBSRemaining, RBSRemainingNext
<1>7. RBSAhead = RB!Remaining
  BY <1>3, RBSAheadIs
<1>8. \A t : t \in RBSAhead' <=> t \in RB!Remaining /\ (IF opt.best THEN t < s ELSE t # s)
  BY <1>1, <1>4, <1>6, RBSAheadNext
<1>9. /\ eSeen \cap RB!Remaining = {} /\ (opt.best => eTodo \subseteq RB!Remaining)
      /\ (complete => RB!Remaining \subseteq eTodo)
  BY <1>7 DEF RBSInv, RBSRound
<1>10. master # NoSpace
  BY <1>1 DEF RBSInv, RBSMaster
<1>11. RBSTypes'
  <2>1. eTodo' \in SUBSET problem /\ eSeen' \in SUBSET problem /\ eTodo' \cap eSeen' = {}
    BY <1>1, <1>5 DEF RBSInv, RBSTypes
  <2> QED BY <1>1, <2>1 DEF RBSInv, RBSTypes
<1>12. RBSControl'
  BY <1>1, <1>2, <1>4 DEF RBSInv, RBSControl
<1>13. RBSMaster'
  BY <1>1, <1>6, <1>10 DEF RBSInv, RBSMaster, RB!Admitted
<1>14. RBSRound'
  <2>1. eSeen' \cap RBSAhead' = {}
    <3> SUFFICES ASSUME NEW t \in eSeen', t \in RBSAhead' PROVE FALSE
      OBVIOUS
    <3>1. t \in RB!Remaining /\ (IF opt.best THEN t < s ELSE t # s)
      BY <1>8
    <3> QED BY <1>1, <1>5, <1>9, <3>1
  <2>2. opt'.best => eTodo' \subseteq RBSAhead'
    BY <1>1, <1>5, <1>8, <1>9
  <2>3. opt'.best => s \in RB!Remaining'
    BY <1>1, <1>6, <1>9
  <2>4. complete' => RBSAhead' \subseteq eTodo'
    BY <1>1, <1>5, <1>8, <1>9
  <2> QED BY <1>4, <2>1, <2>2, <2>3, <2>4 DEF RBSRound
<1> QED BY <1>6, <1>11, <1>12, <1>13, <1>14 DEF RBSInv

LEMMA RBSDelivers ==
  ASSUME RBSInv, RB!EngineDelivers
  PROVE  /\ RBSInv' /\ pc = "search" /\ pc' = "user" /\ ~eStopped /\ ~eStopped'
         /\ \E s \in RBSSolution :
              /\ ret' = s
              /\ opt.best => s \in RB!Remaining /\ RB!Remaining' = {t \in RB!Remaining : t < s}
<1>1. /\ solutions # <<>> /\ solutions' = Tail(solutions) /\ restart' = TRUE /\ last' = Head(solutions)
      /\ pc' = "user" /\ ret' = Head(solutions) /\ delivered' = delivered \cup {Head(solutions)}
      /\ UNCHANGED <<problem, opt, master, complete, eTodo, eSeen, eStopped, e_stopped>>
  BY DEF RB!EngineDelivers, RB!Return
<1>2. PICK s \in problem : solutions = <<s>>
  BY <1>1 DEF RBSInv, RBSControl
<1>3. pc = "search" /\ ~eStopped /\ Head(solutions) = s /\ solutions' = <<>>
  BY <1>1, <1>2, RBSQueue DEF RBSInv, RBSControl
<1>4. problem \in SUBSET RBSSolution /\ RBSSolution \subseteq Int /\ NoSpace \notin RBSSolution
      /\ last \in problem \cup {NoSpace}
  BY RBSAssumed DEF RBSInv, RBSTypes
<1>5. RB!Remaining' = RBSAhead /\ (opt.best => s \in RB!Remaining /\ RB!Remaining' = {t \in RB!Remaining : t < s})
  <2>1. CASE opt.best
    <3>1. s \in RB!Remaining
      BY <1>1, <1>3, <2>1 DEF RBSInv, RBSRound
    <3>2. \A t : t \in RB!Remaining' <=> t \in problem /\ t < s
      BY <1>1, <1>2, <1>3, <1>4, <2>1, RBSRemainingNext
    <3>3. last # NoSpace => s < last
      BY <2>1, <3>1, RBSRemaining
    <3>4. \A t : t \in RB!Remaining <=> t \in problem /\ (last # NoSpace => t < last)
      BY <2>1, RBSRemaining
    <3>5. \A t \in problem : t < s => (last # NoSpace => t < last)
      BY <1>2, <1>4, <3>3
    <3>6. \A t : t \in RB!Remaining' <=> t \in RB!Remaining /\ t < s
      BY <3>2, <3>4, <3>5
    <3>7. \A t : t \in RBSAhead <=> t \in RB!Remaining /\ t < s
      BY <1>1, <1>3, <2>1, RBSAheadIs
    <3> QED BY <3>1, <3>6, <3>7
  <2>2. CASE ~opt.best
    <3>1. \A t : t \in RB!Remaining' <=> t \in RB!Remaining /\ t # s
      BY <1>1, <1>3, <2>2, RBSRemaining, RBSRemainingNext
    <3>2. \A t : t \in RBSAhead <=> t \in RB!Remaining /\ t # s
      BY <1>1, <1>3, <2>2, RBSAheadIs
    <3> QED BY <2>2, <3>1, <3>2
  <2> QED BY <2>1, <2>2
<1>6. RBSAhead' = RBSAhead /\ RBSAhead \subseteq RB!Remaining
  BY <1>3, <1>5, RBSAheadIs, RBSAheadNext
<1>7. master # NoSpace
  BY <1>1 DEF RBSInv, RBSMaster
<1>8. RBSTypes'
  BY <1>1, <1>2, <1>3 DEF RBSInv, RBSTypes
<1>9. RBSControl'
  BY <1>1, <1>3 DEF RBSInv, RBSControl
<1>10. RBSMaster'
  BY <1>1, <1>5, <1>6, <1>7 DEF RBSInv, RBSMaster, RB!Admitted
<1>11. RBSRound'
  BY <1>1, <1>3, <1>6 DEF RBSInv, RBSRound
<1> QED BY <1>1, <1>2, <1>3, <1>4, <1>5, <1>8, <1>9, <1>10, <1>11 DEF RBSInv

LEMMA RBSConstrains ==
  ASSUME RBSInv, NEW b \in RBSExternal \cap problem, RB!Constrain(b)
  PROVE  RBSInv' /\ RB!Remaining' \subseteq RB!Remaining
<1>1. /\ pc = "user" /\ opt.best /\ master # NoSpace /\ (last # NoSpace => b <= last) /\ last' = b
      /\ master' = IF master = FailedSpace THEN master ELSE RB!BetterThan(master, b)
      /\ eTodo' = RB!BetterThan(eTodo, b) /\ eSeen' = eSeen \cup (eTodo \ RB!BetterThan(eTodo, b))
      /\ UNCHANGED <<problem, opt, complete, restart, solutions, eStopped, e_stopped, pc, ret, delivered>>
  BY DEF RB!Constrain
<1>2. /\ problem \in SUBSET RBSSolution /\ RBSSolution \subseteq Int /\ NoSpace \notin RBSSolution
      /\ last \in problem \cup {NoSpace} /\ b \in problem /\ b # NoSpace
      /\ \A m \in SUBSET RBSSolution : m # NoSpace /\ m # FailedSpace
  BY RBSAssumed DEF RBSInv, RBSTypes
<1>3. solutions = <<>>
  BY <1>1 DEF RBSInv, RBSControl
<1>4. \A S, t : t \in RB!BetterThan(S, b) <=> t \in S /\ t < b
  BY <1>2 DEF RB!BetterThan
<1>5. \A t : t \in RB!Remaining' <=> t \in problem /\ t < b
  BY <1>1, <1>2, RBSRemainingNext
<1>6. \A t \in problem : t < b => (last # NoSpace => t < last)
  <2> SUFFICES ASSUME NEW t \in problem, t < b, last # NoSpace PROVE t < last
    OBVIOUS
  <2>1. b <= last
    BY <1>1
  <2>2. t \in Int /\ b \in Int /\ last \in Int
    BY <1>2
  <2> QED BY <2>1, <2>2
<1>7. RB!Remaining' \subseteq RB!Remaining
  BY <1>1, <1>5, <1>6, RBSRemaining
<1>8. RBSAhead' = RB!Remaining' /\ RBSAhead = RB!Remaining
  BY <1>1, <1>3, RBSAheadIs, RBSAheadNext
<1> DEFINE left == RB!BetterThan(eTodo, b)
<1>9. left \subseteq eTodo /\ eTodo' = left /\ eSeen' = eSeen \cup (eTodo \ left)
      /\ (\A t : t \in left <=> t \in eTodo /\ t < b)
  BY <1>1, <1>4
<1> HIDE DEF left
<1>10. /\ eSeen \cap RB!Remaining = {} /\ eTodo \subseteq RB!Remaining /\ (complete => RB!Remaining \subseteq eTodo)
  BY <1>1, <1>8 DEF RBSInv, RBSRound
<1>11. (master' = FailedSpace /\ master = FailedSpace)
       \/ (master' \in SUBSET problem /\ master' = RB!BetterThan(master, b) /\ master # FailedSpace)
  <2>1. CASE master = FailedSpace
    BY <1>1, <2>1
  <2>2. CASE master # FailedSpace
    <3>1. master \in SUBSET problem
      BY <1>1, <2>2 DEF RBSInv, RBSTypes
    <3> QED BY <1>1, <1>4, <2>2, <3>1
  <2> QED BY <2>1, <2>2
<1>12. RBSTypes'
  BY <1>1, <1>2, <1>9, <1>11 DEF RBSInv, RBSTypes
<1>13. RBSControl'
  BY <1>1, <1>3 DEF RBSInv, RBSControl
<1>14. RBSMaster'
  <2>1. master' # NoSpace
    BY <1>2, <1>11, RBSAssumed
  <2>2. RB!Remaining \subseteq RB!Admitted(master)
    BY <1>1 DEF RBSInv, RBSMaster
  <2>3. CASE master = FailedSpace
    BY <1>1, <1>7, <2>1, <2>2, <2>3 DEF RBSMaster, RB!Admitted
  <2>4. CASE master # FailedSpace
    <3>1. master' = RB!BetterThan(master, b) /\ master' \in SUBSET problem
      BY <1>11, <2>4
    <3>2. master' # FailedSpace
      BY <1>2, <3>1
    <3>3. RB!Remaining' \subseteq master'
      BY <1>4, <1>5, <1>7, <2>2, <2>4, <3>1 DEF RB!Admitted
    <3> QED BY <2>1, <3>2, <3>3 DEF RBSMaster, RB!Admitted
  <2> QED BY <2>3, <2>4
<1>15. RBSRound'
  <2>1. eSeen' \cap RBSAhead' = {}
    <3> SUFFICES ASSUME NEW t \in eSeen', t \in RBSAhead' PROVE FALSE
      OBVIOUS
    <3>1. t \in RB!Remaining /\ t < b
      BY <1>5, <1>7, <1>8
    <3> QED BY <1>9, <1>10, <3>1
  <2>2. eTodo' \subseteq RBSAhead'
    <3> SUFFICES ASSUME NEW t \in eTodo' PROVE t \in RBSAhead'
      OBVIOUS
    <3>1. t \in eTodo /\ t < b
      BY <1>9
    <3> QED BY <1>5, <1>8, <1>10, <3>1, RBSRemaining
  <2>3. complete' => RBSAhead' \subseteq eTodo'
    <3> SUFFICES ASSUME complete', NEW t \in RBSAhead' PROVE t \in eTodo'
      OBVIOUS
    <3>1. t \in RB!Remaining /\ t < b
      BY <1>5, <1>7, <1>8
    <3> QED BY <1>1, <1>9, <1>10, <3>1
  <2>4. solutions' = <<>>
    BY <1>1, <1>3
  <2> QED BY <2>1, <2>2, <2>3, <2>4 DEF RBSRound
<1> QED BY <1>7, <1>12, <1>13, <1>14, <1>15 DEF RBSInv

LEMMA RBSHolds == RBSInv => RB!MasterOK
<1> SUFFICES ASSUME RBSInv PROVE RB!MasterOK
  OBVIOUS
<1>1. RB!TypeOK
  <2>1. solutions \in Seq(problem) /\ Len(solutions) <= opt.max_queue
    <3>1. opt.max_queue = 1
      BY RBSAssumed DEF RBSInv, RBSTypes
    <3>2. CASE solutions = <<>>
      BY <3>1, <3>2
    <3>3. CASE solutions # <<>>
      <4>1. PICK s \in problem : solutions = <<s>>
        BY <3>3 DEF RBSInv, RBSControl
      <4> QED BY <3>1, <4>1
    <3> QED BY <3>2, <3>3
  <2>2. /\ problem \subseteq RBSSolution /\ delivered \subseteq problem
        /\ master = NoSpace \/ master = FailedSpace \/ master \subseteq problem
        /\ {last, ret} \subseteq problem \cup {NoSpace}
        /\ eTodo \subseteq problem /\ eSeen \subseteq problem /\ eTodo \cap eSeen = {}
    BY DEF RBSInv, RBSTypes
  <2>3. /\ {complete, restart, eStopped, e_stopped} \subseteq BOOLEAN
        /\ pc \in {"user", "restart", "engine", "search", "null"}
    BY DEF RBSInv, RBSControl
  <2> QED BY <2>1, <2>2, <2>3 DEF RB!TypeOK
<1>2. RB!MasterKeepsRemaining
  BY DEF RBSInv, RBSMaster, RB!MasterKeepsRemaining
<1>3. RB!NoMasterLost
  BY DEF RBSInv, RBSMaster, RBSControl, RB!NoMasterLost, RB!MustRestart
<1> QED BY <1>1, <1>2, <1>3 DEF RB!MasterOK

LEMMA RBSStep ==
  ASSUME RBSInv, RB!Next
  PROVE  RBSInv'
BY RBSQuiet, RBSSolutionRestarts, RBSTrueRestarts, RBSFinds, RBSDelivers, RBSConstrains DEF RB!Next, RB!Engine

LEMMA RBSStreamInit == RB!Init => RB!Stream!Init
<1> SUFFICES ASSUME RB!Init PROVE RB!Stream!Init
  OBVIOUS
<1>1. RB!Remaining \subseteq RBSSolution
  BY RBSInit, RBSRemaining DEF RBSInv, RBSTypes
<1>2. pc = "user" /\ ret = NoSpace /\ eStopped = FALSE
  BY DEF RB!Init
<1> DEFINE todo == IF opt.best THEN RB!Remaining ELSE {}
<1>3. todo \in SUBSET RBSSolution
  BY <1>1
<1>4. (opt.best /\ pc # "user") = FALSE /\ (opt.best /\ eStopped /\ pc = "user") = FALSE
      /\ (IF opt.best THEN ret ELSE NoSpace) = NoSpace
  BY <1>2
<1> QED BY <1>3, <1>4 DEF RB!Stream!Init

LEMMA RBSStreamStep ==
  ASSUME RBSInv, [RB!Next]_(RB!vars)
  PROVE  [RB!Stream!Next]_(RB!Stream!vars) /\ RB!NullMeansDone
<1> DEFINE todo == IF opt.best THEN RB!Remaining ELSE {}
           quiet == /\ todo' = todo
                    /\ (opt.best /\ pc # "user")' = (opt.best /\ pc # "user")
                    /\ (IF opt.best THEN ret ELSE NoSpace)' = (IF opt.best THEN ret ELSE NoSpace)
                    /\ (opt.best /\ eStopped /\ pc = "user")' = (opt.best /\ eStopped /\ pc = "user")
<1>0. quiet => UNCHANGED RB!Stream!vars
  BY DEF RB!Stream!vars
<1>n. NoSpace \notin RBSSolution /\ opt.best \in BOOLEAN /\ eStopped \in BOOLEAN
  BY RBSAssumed DEF RBSInv, RBSTypes, RBSControl
(* a call returns null: nothing is left, or e has been stopped *)
<1>1. ASSUME RB!Remaining' = RB!Remaining, pc # "user", pc' = "user", ret' = NoSpace, opt' = opt,
             eStopped' = eStopped, ~eStopped => RB!Remaining = {}
      PROVE  [RB!Stream!Next]_(RB!Stream!vars) /\ RB!NullMeansDone
  <2>1. RB!NullMeansDone
    BY <1>1 DEF RB!NullMeansDone
  <2>2. CASE opt.best /\ eStopped
    <3>1. RB!Stream!Stop
      BY <1>1, <2>2 DEF RB!Stream!Stop
    <3> QED BY <2>1, <3>1 DEF RB!Stream!Next
  <2>3. CASE opt.best /\ ~eStopped
    <3>1. RB!Stream!NoneLeft
      BY <1>1, <2>3 DEF RB!Stream!NoneLeft
    <3> QED BY <2>1, <3>1 DEF RB!Stream!Next
  <2>4. CASE ~opt.best
    <3>1. quiet
      BY <1>1, <2>4
    <3> QED BY <1>0, <2>1, <3>1
  <2> QED BY <1>n, <2>2, <2>3, <2>4
(* a call goes on *)
<1>2. ASSUME RB!Remaining' = RB!Remaining, pc # "user", pc' # "user", ret' = ret, opt' = opt
      PROVE  [RB!Stream!Next]_(RB!Stream!vars) /\ RB!NullMeansDone
  <2>1. quiet
    BY <1>2
  <2> QED BY <1>0, <1>2, <2>1 DEF RB!NullMeansDone
<1>3. CASE RB!NextCall
  <2>1. RB!Remaining' = RB!Remaining
    BY <1>3, RBSQuiet
  <2>2. pc = "user" /\ pc' # "user" /\ ret' = ret /\ opt' = opt
    BY <1>3 DEF RB!NextCall
  <2>3. CASE opt.best
    <3>1. RB!Stream!Call
      BY <2>1, <2>2, <2>3 DEF RB!Stream!Call
    <3> QED BY <2>2, <3>1 DEF RB!Stream!Next, RB!NullMeansDone
  <2>4. CASE ~opt.best
    <3>1. quiet
      BY <2>1, <2>2, <2>4
    <3> QED BY <1>0, <2>2, <3>1 DEF RB!NullMeansDone
  <2> QED BY <2>3, <2>4
<1>4. CASE RB!EngineNext \/ (\E limit \in BOOLEAN : RB!EngineStops(limit)) \/ RB!EngineExhausted
  <2>1. RB!Remaining' = RB!Remaining
    BY <1>4, RBSQuiet
  <2>2. pc # "user" /\ pc' # "user" /\ ret' = ret /\ opt' = opt
    BY <1>4 DEF RB!EngineNext, RB!EngineStops, RB!EngineExhausted
  <2> QED BY <1>2, <2>1, <2>2
<1>5. CASE \E s \in RBSSolution : RB!EngineFinds(s)
  <2>1. RB!Remaining' = RB!Remaining
    BY <1>5, RBSFinds
  <2>2. pc # "user" /\ pc' # "user" /\ ret' = ret /\ opt' = opt
    BY <1>5 DEF RB!EngineFinds
  <2> QED BY <1>2, <2>1, <2>2
<1>6. CASE RB!GiveUp
  <2>1. RB!Remaining' = RB!Remaining /\ (~eStopped => RB!Remaining = {})
    BY <1>6, RBSQuiet
  <2>2. pc # "user" /\ pc' = "user" /\ ret' = NoSpace /\ opt' = opt /\ eStopped' = eStopped
    BY <1>6 DEF RB!GiveUp, RB!Return, RB!engineVars
  <2> QED BY <1>1, <2>1, <2>2
<1>7. CASE RB!TrueRestart
  <2>1. RB!Remaining' = RB!Remaining /\ eStopped' = eStopped
        /\ \/ pc' = "engine" /\ ret' = ret
           \/ pc' = "user" /\ ret' = NoSpace /\ RB!Remaining = {}
    BY <1>7, RBSTrueRestarts
  <2>2. pc # "user" /\ opt' = opt
    BY <1>7 DEF RB!TrueRestart
  <2> QED BY <1>1, <1>2, <2>1, <2>2
<1>8. CASE RB!SolutionRestart
  <2>1. RB!Remaining' = RB!Remaining
        /\ \/ pc' = "engine" /\ ret' = ret
           \/ pc' = "user" /\ ret' = NoSpace /\ RB!Remaining = {}
    BY <1>8, RBSSolutionRestarts
  <2>2. pc # "user" /\ opt' = opt /\ eStopped' = eStopped
    BY <1>8 DEF RB!SolutionRestart, RB!StartSlave, RB!engineVars
  <2> QED BY <1>1, <1>2, <2>1, <2>2
<1>9. CASE RB!EngineDelivers
  <2>1. pc = "search" /\ pc' = "user" /\ ~eStopped /\ ~eStopped'
    BY <1>9, RBSDelivers
  <2>2. PICK s \in RBSSolution :
              /\ ret' = s
              /\ opt.best => s \in RB!Remaining /\ RB!Remaining' = {t \in RB!Remaining : t < s}
    BY <1>9, RBSDelivers
  <2>3. opt' = opt
    BY <1>9 DEF RB!EngineDelivers
  <2>4. RB!NullMeansDone
    BY <1>n, <2>2 DEF RB!NullMeansDone
  <2>5. CASE opt.best
    <3>1. todo = RB!Remaining /\ todo' = {t \in todo : t < s}
      BY <2>2, <2>3, <2>5
    <3>2. RB!Stream!Deliver(s)
      BY <2>1, <2>2, <2>3, <2>5, <3>1 DEF RB!Stream!Deliver
    <3> QED BY <2>4, <3>2 DEF RB!Stream!Next
  <2>6. CASE ~opt.best
    <3>1. quiet
      BY <2>3, <2>6
    <3> QED BY <1>0, <2>4, <3>1
  <2> QED BY <2>5, <2>6
<1>10. CASE \E b \in RBSExternal \cap problem : RB!Constrain(b)
  <2>1. RB!Remaining' \subseteq RB!Remaining
    BY <1>10, RBSConstrains
  <2>2. pc = "user" /\ UNCHANGED <<pc, ret, eStopped, opt>>
    BY <1>10 DEF RB!Constrain
  <2>3. todo' \in SUBSET RBSSolution
    BY <2>1, RBSRemaining DEF RBSInv, RBSTypes
  <2>4. RB!Stream!Replace
    BY <2>2, <2>3 DEF RB!Stream!Replace
  <2> QED BY <2>2, <2>4 DEF RB!Stream!Next, RB!NullMeansDone
<1>11. CASE UNCHANGED RB!vars
  <2>1. UNCHANGED <<problem, opt, last, eStopped, pc, ret, delivered>>
    BY <1>11 DEF RB!vars, RB!engineVars
  <2>2. RB!Remaining' = RB!Remaining
    BY <2>1, RBSRemaining, RBSRemainingNext
  <2>3. quiet
    BY <2>1, <2>2
  <2> QED BY <1>0, <2>1, <2>3 DEF RB!NullMeansDone
<1> QED BY <1>3, <1>4, <1>5, <1>6, <1>7, <1>8, <1>9, <1>10, <1>11 DEF RB!Next, RB!Engine

(***************************************************************************)
(* The engines together: a behaviour is of one of them.                    *)
(***************************************************************************)
SeqInv ==
  /\ part = "dfs" => DFSInv
  /\ part = "bab" => BABInv
  /\ part = "lds" => LDSInv
  /\ part = "rbs" => RBSInv
  /\ part = "pbs" => PBSInv

LEMMA SeqStays ==
  ASSUME UNCHANGED vars
  PROVE  /\ UNCHANGED part /\ UNCHANGED DFS!vars /\ UNCHANGED BAB!vars /\ UNCHANGED LD!vars
         /\ UNCHANGED RB!vars /\ UNCHANGED PB!vars
<1>1. /\ UNCHANGED <<part, opt, cur, path, pc, ret, best>> /\ UNCHANGED <<tree, d, stopped>>
      /\ UNCHANGED <<curBound, mark>> /\ UNCHANGED <<dl, root, dLDS, ds, exhausted, found>>
      /\ UNCHANGED <<problem, delivered>>
      /\ UNCHANGED <<master, last, complete, restart, eTodo, eSeen, solutions, eStopped, e_stopped>>
      /\ UNCHANGED <<slice, searchesBest, slaves, l, done, slave_stop, n_exhausted, leaves, fail, bound,
                     slaveStopped>>
  BY DEF vars, treeVars, boundVars, ldsVars, problemVars, rbsVars, pbsVars
<1>2. UNCHANGED DFS!vars /\ UNCHANGED BAB!vars
  BY <1>1 DEF DFS!vars, BAB!vars
<1>3. UNCHANGED LD!vars
  BY <1>1 DEF LD!vars, LD!ldsVars, LD!probeVars
<1>4. UNCHANGED RB!vars
  BY <1>1 DEF RB!vars, RB!engineVars
<1>5. UNCHANGED PB!vars
  BY <1>1 DEF PB!vars, PB!portfolioVars, PB!engineVars
<1> QED BY <1>1, <1>2, <1>3, <1>4, <1>5

LEMMA DFSStays == ASSUME DFSInv, UNCHANGED DFS!vars PROVE DFSInv'
<1>1. UNCHANGED <<tree, opt, cur, path, d, stopped, pc, ret>>
  BY DEF DFS!vars
<1>2. DFSPath(path, cur, d)'
  BY <1>1 DEF DFSInv, DFSPath, Near_c_d
<1> QED BY <1>1, <1>2 DEF DFSInv

LEMMA BABStays == ASSUME BABInv, UNCHANGED BAB!vars PROVE BABInv'
<1>1. UNCHANGED <<tree, opt, cur, curBound, path, d, mark, best, stopped, pc, ret>>
  BY DEF BAB!vars
<1>2. BABPath(path', cur', d') /\ Marked(path', mark', best', tree.value)
      /\ curBound' \in Solutions /\ best' \in Solutions /\ mark' \in Nat
      /\ (best' = NoSpace => mark' = 0) /\ (cur' # NoSpace => curBound' = best')
  BY <1>1 DEF BABInv
<1>3. /\ ret' \in Solutions /\ stopped' \in BOOLEAN
      /\ pc' \in {"user", "stop", "recompute", "status"}
      /\ pc' = "status" => cur' # NoSpace
      /\ pc' = "recompute" => cur' = NoSpace
  BY <1>1 DEF BABInv
<1> QED BY <1>1, <1>2, <1>3, BABKeeps

LEMMA RBSStays == ASSUME RBSInv, UNCHANGED RB!vars PROVE RBSInv'
<1>1. UNCHANGED <<problem, opt, master, last, complete, restart, eTodo, eSeen, solutions, eStopped, e_stopped,
                  pc, ret, delivered>>
  BY DEF RB!vars, RB!engineVars
<1>2. RB!Remaining' = RB!Remaining
  BY <1>1, RBSRemaining, RBSRemainingNext
<1>3. RBSAhead' = RBSAhead
  BY <1>1, <1>2, RBSAheadIs, RBSAheadNext
<1>4. RB!Admitted(master)' = RB!Admitted(master)
  BY <1>1 DEF RB!Admitted
<1>5. RBSTypes' /\ RBSControl'
  BY <1>1 DEF RBSInv, RBSTypes, RBSControl
<1>6. RBSMaster' /\ RBSRound'
  BY <1>1, <1>2, <1>3, <1>4 DEF RBSInv, RBSMaster, RBSRound
<1> QED BY <1>5, <1>6 DEF RBSInv

LEMMA PBSStays == ASSUME PBSInv, UNCHANGED PB!vars PROVE PBSInv'
<1>1. UNCHANGED <<slice, problem, searchesBest, slaves, cur, l, done, slave_stop, n_exhausted, leaves, fail, bound,
                  slaveStopped, pc, ret, best, delivered>>
  BY DEF PB!vars, PB!portfolioVars, PB!engineVars
<1>2. PB!Remaining' = PB!Remaining
  BY <1>1, PBSRemaining, PBSRemainingNext
<1>3. PBSTypes' /\ PBSTurns'
  BY <1>1 DEF PBSInv, PBSTypes, PBSSlaves, PBSNumbers, PBSEngines, PBSResults, PBSTurns
<1>4. PBSLeft'
  BY <1>1, <1>2 DEF PBSInv, PBSLeft
<1> QED BY <1>3, <1>4 DEF PBSInv

LEMMA SeqInit == Init => SeqInv
<1>1. ASSUME InitDFS PROVE SeqInv
  BY <1>1, DFSInit DEF InitDFS, SeqInv
<1>2. ASSUME InitBAB PROVE SeqInv
  BY <1>2, BABInit DEF InitBAB, SeqInv
<1>3. ASSUME InitLDS PROVE SeqInv
  BY <1>3, LDSInit DEF InitLDS, SeqInv
<1>4. ASSUME InitRBS PROVE SeqInv
  BY <1>4, RBSInit DEF InitRBS, SeqInv
<1>5. ASSUME InitPBS PROVE SeqInv
  BY <1>5, PBSInit DEF InitPBS, SeqInv
<1>6. ASSUME InitCutoffs PROVE SeqInv
  BY <1>6 DEF InitCutoffs, SeqInv
<1> QED BY <1>1, <1>2, <1>3, <1>4, <1>5, <1>6 DEF Init

(* a step is one of the engine's, or none *)
LEMMA SeqSteps ==
  ASSUME [Next]_vars
  PROVE  /\ UNCHANGED part
         /\ part = "dfs" => [DFS!Next]_(DFS!vars)
         /\ part = "bab" => [BAB!Next]_(BAB!vars)
         /\ part = "lds" => [LD!Next]_(LD!vars)
         /\ part = "rbs" => [RB!Next]_(RB!vars)
         /\ part = "pbs" => [PB!Next]_(PB!vars)
<1>1. CASE StepDFS
  BY <1>1 DEF StepDFS, Only
<1>2. CASE StepBAB
  BY <1>2 DEF StepBAB, Only
<1>3. CASE StepLDS
  BY <1>3 DEF StepLDS, Only
<1>4. CASE StepRBS
  BY <1>4 DEF StepRBS, Only
<1>5. CASE StepPBS
  BY <1>5 DEF StepPBS, Only
<1>6. CASE StepCutoffs
  BY <1>6 DEF StepCutoffs, Only
<1>7. CASE UNCHANGED vars
  BY <1>7, SeqStays
<1> QED BY <1>1, <1>2, <1>3, <1>4, <1>5, <1>6, <1>7 DEF Next, Stops

LEMMA SeqStep == SeqInv /\ [Next]_vars => SeqInv'
<1> SUFFICES ASSUME SeqInv, [Next]_vars PROVE SeqInv'
  OBVIOUS
<1>1. /\ UNCHANGED part
      /\ part = "dfs" => [DFS!Next]_(DFS!vars)
      /\ part = "bab" => [BAB!Next]_(BAB!vars)
      /\ part = "lds" => [LD!Next]_(LD!vars)
      /\ part = "rbs" => [RB!Next]_(RB!vars)
      /\ part = "pbs" => [PB!Next]_(PB!vars)
  BY SeqSteps
<1>2. ASSUME part = "dfs" PROVE DFSInv'
  BY <1>1, <1>2, DFSStep, DFSStays DEF SeqInv
<1>3. ASSUME part = "bab" PROVE BABInv'
  BY <1>1, <1>3, BABStep, BABStays DEF SeqInv
<1>4. ASSUME part = "lds" PROVE LDSInv'
  BY <1>1, <1>4, LDSStep DEF SeqInv
<1>5. ASSUME part = "rbs" PROVE RBSInv'
  BY <1>1, <1>5, RBSStep, RBSStays DEF SeqInv
<1>6. ASSUME part = "pbs" PROVE PBSInv'
  BY <1>1, <1>6, PBSStep, PBSStays DEF SeqInv
<1> QED BY <1>1, <1>2, <1>3, <1>4, <1>5, <1>6 DEF SeqInv

LEMMA SeqInvariant == Spec => []SeqInv
<1> QED BY SeqInit, SeqStep, PTL DEF Spec

(* For any trees, options, portfolios and restarts the path of the engine points to its
   current space, a recomputation starts at most c_d commits below a clone,
   the mark of branch-and-bound separates the clones with the best bound, a probe keeps
   account of its discrepancies, the master admits what remains, and the slave whose
   turn it is is one that is left (next() of seq/dfs.hpp, seq/bab.hpp, lds.hpp, rbs.cpp
   and seq/pbs.hpp, with stops, reset() and constrain() between any two calls). *)
THEOREM EnginesAreOK == Spec => []EnginesOK
<1>1. SeqInv => EnginesOK
  BY DFSHolds, BABHolds, LDSHolds, RBSHolds, PBSHolds DEF SeqInv, EnginesOK
<1> QED BY SeqInvariant, <1>1, PTL

(* For any tree and options the no-goods that are taken from the path of depth-first
   search, between any two calls, exclude no node that is still to be
   explored (truealt() and post() on seq/path.hpp). *)
THEOREM NogoodsAreSound == Spec => []NogoodsSound
<1>1. SeqInv => NogoodsSound
  BY DFSHolds DEF SeqInv, NogoodsSound
<1> QED BY SeqInvariant, <1>1, PTL

LEMMA StreamInit ==
  Init => CASE part = "dfs" -> DFS!Stream!Init
            [] part = "bab" -> BAB!Stream!Init
            [] part = "lds" -> LD!Stream!Init
            [] part = "rbs" -> RB!Stream!Init
            [] part = "pbs" -> PB!Stream!Init
            [] OTHER -> TRUE
<1> DEFINE Streams == CASE part = "dfs" -> DFS!Stream!Init
                        [] part = "bab" -> BAB!Stream!Init
                        [] part = "lds" -> LD!Stream!Init
                        [] part = "rbs" -> RB!Stream!Init
                        [] part = "pbs" -> PB!Stream!Init
                        [] OTHER -> TRUE
<1>1. ASSUME InitDFS PROVE Streams
  BY <1>1, DFSStreamInit DEF InitDFS
<1>2. ASSUME InitBAB PROVE Streams
  BY <1>2, BABStreamInit DEF InitBAB
<1>3. ASSUME InitLDS PROVE Streams
  BY <1>3, LDSStreamInit DEF InitLDS
<1>4. ASSUME InitRBS PROVE Streams
  BY <1>4, RBSStreamInit DEF InitRBS
<1>5. ASSUME InitPBS PROVE Streams
  BY <1>5, PBSStreamInit DEF InitPBS
<1>6. ASSUME InitCutoffs PROVE Streams
  BY <1>6 DEF InitCutoffs
<1> HIDE DEF Streams
<1>7. Init => Streams
  BY <1>1, <1>2, <1>3, <1>4, <1>5, <1>6 DEF Init
<1> QED BY <1>7 DEF Streams

LEMMA StreamStep ==
  ASSUME SeqInv, [Next]_vars
  PROVE  /\ part = "dfs" => [DFS!Stream!Next]_(DFS!Stream!vars)
         /\ part = "bab" => [BAB!Stream!Next]_(BAB!Stream!vars)
         /\ part = "lds" => [LD!Stream!Next]_(LD!Stream!vars)
         /\ part = "rbs" => [RB!Stream!Next]_(RB!Stream!vars) /\ RB!NullMeansDone
         /\ part = "pbs" => [PB!Stream!Next]_(PB!Stream!vars) /\ PB!NullMeansDone
<1>1. /\ part = "dfs" => DFSInv /\ [DFS!Next]_(DFS!vars)
      /\ part = "bab" => BABInv /\ [BAB!Next]_(BAB!vars)
      /\ part = "lds" => LDSInv /\ [LD!Next]_(LD!vars)
      /\ part = "rbs" => RBSInv /\ [RB!Next]_(RB!vars)
      /\ part = "pbs" => PBSInv /\ [PB!Next]_(PB!vars)
  BY SeqSteps DEF SeqInv
<1>2. ASSUME part = "dfs" PROVE [DFS!Stream!Next]_(DFS!Stream!vars)
  BY <1>1, <1>2, DFSStreamStep
<1>3. ASSUME part = "bab" PROVE [BAB!Stream!Next]_(BAB!Stream!vars)
  BY <1>1, <1>3, BABStreamStep
<1>4. ASSUME part = "lds" PROVE [LD!Stream!Next]_(LD!Stream!vars)
  BY <1>1, <1>4, LDSStreamStep
<1>5. ASSUME part = "rbs" PROVE [RB!Stream!Next]_(RB!Stream!vars) /\ RB!NullMeansDone
  BY <1>1, <1>5, RBSStreamStep
<1>6. ASSUME part = "pbs" PROVE [PB!Stream!Next]_(PB!Stream!vars) /\ PB!NullMeansDone
  BY <1>1, <1>6, PBSStreamStep
<1> QED BY <1>2, <1>3, <1>4, <1>5, <1>6

(* Each engine implements the stream of solutions: next() delivers a solution that is
   left and none out of the order of its search, returns null when none is left or it
   has been stopped, and goes on after a stop where it was; and a restarting engine
   and a portfolio return null, not stopped, only when nothing is left. *)
THEOREM EnginesAreStreams == Spec => StreamSpec
<1> DEFINE SInit == CASE part = "dfs" -> DFS!Stream!Init
                      [] part = "bab" -> BAB!Stream!Init
                      [] part = "lds" -> LD!Stream!Init
                      [] part = "rbs" -> RB!Stream!Init
                      [] part = "pbs" -> PB!Stream!Init
                      [] OTHER -> TRUE
           SNext == /\ part = "dfs" => [DFS!Stream!Next]_(DFS!Stream!vars)
                    /\ part = "bab" => [BAB!Stream!Next]_(BAB!Stream!vars)
                    /\ part = "lds" => [LD!Stream!Next]_(LD!Stream!vars)
                    /\ part = "rbs" => [RB!Stream!Next]_(RB!Stream!vars) /\ RB!NullMeansDone
                    /\ part = "pbs" => [PB!Stream!Next]_(PB!Stream!vars) /\ PB!NullMeansDone
<1>1. Init => SInit
  BY StreamInit
<1>2. SeqInv /\ [Next]_vars => SNext
  BY StreamStep
<1>3. StreamSpec <=> SInit /\ [][SNext]_vars
  BY DEF StreamSpec
<1> HIDE DEF SInit, SNext
<1>4. Spec => SInit /\ [][SNext]_vars
  BY SeqInvariant, <1>1, <1>2, PTL DEF Spec
<1> QED BY <1>3, <1>4

-----------------------------------------------------------------------------
(***************************************************************************)
(* Recursive functions over the natural numbers exist.                     *)
(***************************************************************************)
LEMMA LeastNat ==
  ASSUME NEW S \in SUBSET Nat, NEW h \in S
  PROVE  \E i \in S : \A j \in S : i <= j
<1>1. PICK x \in S : \A y \in S : ~(<<y, x>> \in OpToRel(<, Nat))
  <2>1. S \subseteq Nat /\ S # {}
    OBVIOUS
  <2> QED BY <2>1, NatLessThanWellFounded, WFMin, Zenon
<1>2. \A y \in S : x <= y
  <2> TAKE y \in S
  <2>1. ~(y < x)
    BY <1>1 DEF OpToRel
  <2> QED BY <2>1
<1> QED BY <1>2

(* the first n values of the function that G defines: G[n] makes the value at n
   of the n values before *)
First(f, n) == [m \in 0 .. n - 1 |-> f[m]]
Begun(V, G, n, q) ==
  q \in [0 .. n - 1 -> V] /\ \A h \in 0 .. n - 1 : q[h] = G[h][First(q, h)]
Defines(G, V) == \A n \in Nat : G[n] \in [[0 .. n - 1 -> V] -> V]

LEMMA BeginningsExist ==
  ASSUME NEW V, NEW G, Defines(G, V)
  PROVE  \A n \in Nat : \E q : Begun(V, G, n, q)
<1> DEFINE Bad == {n \in Nat : ~\E q : Begun(V, G, n, q)}
<1> SUFFICES ASSUME Bad # {} PROVE FALSE
  OBVIOUS
<1>1. PICK n \in Bad : \A h \in Bad : n <= h
  BY LeastNat
<1>2. n \in Nat /\ ~\E q : Begun(V, G, n, q)
  OBVIOUS
<1>3. n # 0
  <2> SUFFICES ASSUME n = 0 PROVE FALSE
    OBVIOUS
  <2> DEFINE q == [m \in 0 .. n - 1 |-> m]
  <2>1. 0 .. n - 1 = {}
    OBVIOUS
  <2>2. Begun(V, G, n, q)
    BY <2>1 DEF Begun
  <2> QED BY <1>2, <2>2
<1>4. n - 1 \in Nat /\ ~(n <= n - 1)
  BY <1>2, <1>3
<1>5. PICK q : Begun(V, G, n - 1, q)
  BY <1>1, <1>4
<1> DEFINE v == G[n - 1][First(q, n - 1)]
           r == [m \in 0 .. n - 1 |-> IF m = n - 1 THEN v ELSE q[m]]
<1>6. First(q, n - 1) \in [0 .. (n - 1) - 1 -> V]
  BY <1>4, <1>5 DEF First, Begun
<1>7. v \in V
  BY <1>4, <1>6 DEF Defines
<1> HIDE DEF v
<1>8. \A m \in 0 .. n - 1 : m # n - 1 => m \in 0 .. (n - 1) - 1
  BY <1>2
<1>9. r \in [0 .. n - 1 -> V]
  BY <1>5, <1>7, <1>8 DEF Begun
<1>10. \A h \in 0 .. n - 1 : First(r, h) = First(q, h)
  <2> SUFFICES ASSUME NEW h \in 0 .. n - 1 PROVE First(r, h) = First(q, h)
    OBVIOUS
  <2>1. \A m \in 0 .. h - 1 : m \in 0 .. n - 1 /\ m # n - 1
    BY <1>2
  <2>2. \A m \in 0 .. h - 1 : r[m] = q[m]
    BY <2>1
  <2> HIDE DEF r
  <2> QED BY <2>2 DEF First
<1>11. \A h \in 0 .. n - 1 : r[h] = G[h][First(r, h)]
  <2> SUFFICES ASSUME NEW h \in 0 .. n - 1 PROVE r[h] = G[h][First(q, h)]
    BY <1>10
  <2>1. CASE h = n - 1
    BY <2>1 DEF v
  <2>2. CASE h # n - 1
    BY <1>5, <1>8, <2>2 DEF Begun
  <2> QED BY <2>1, <2>2
<1>12. Begun(V, G, n, r)
  BY <1>9, <1>11 DEF Begun
<1> QED BY <1>2, <1>12

LEMMA BeginningsAgree ==
  ASSUME NEW V, NEW G, NEW m \in Nat, NEW n \in Nat, NEW q, NEW r,
         Begun(V, G, m, q), Begun(V, G, n, r)
  PROVE  \A h \in Nat : h < m /\ h < n => q[h] = r[h]
<1> DEFINE Bad == {h \in Nat : h < m /\ h < n /\ q[h] # r[h]}
<1> SUFFICES ASSUME Bad # {} PROVE FALSE
  OBVIOUS
<1>1. PICK h \in Bad : \A j \in Bad : h <= j
  BY LeastNat
<1>2. h \in Nat /\ h < m /\ h < n /\ q[h] # r[h]
  OBVIOUS
<1>3. \A j \in 0 .. h - 1 : j \in Nat /\ j < m /\ j < n /\ ~(h <= j)
  BY <1>2
<1>4. \A j \in 0 .. h - 1 : q[j] = r[j]
  BY <1>1, <1>3
<1>5. First(q, h) = First(r, h)
  BY <1>4 DEF First
<1>6. h \in 0 .. m - 1 /\ h \in 0 .. n - 1
  BY <1>2
<1> QED BY <1>2, <1>5, <1>6 DEF Begun

LEMMA FunctionExists ==
  ASSUME NEW V, NEW G, Defines(G, V)
  PROVE  \E f \in [Nat -> V] : \A n \in Nat : f[n] = G[n][First(f, n)]
<1> DEFINE q(n) == CHOOSE r : Begun(V, G, n + 1, r)
           f == [n \in Nat |-> q(n)[n]]
<1>1. \A n \in Nat : Begun(V, G, n + 1, q(n))
  BY BeginningsExist
<1> HIDE DEF q
<1>2. f \in [Nat -> V]
  <2> SUFFICES ASSUME NEW n \in Nat PROVE q(n)[n] \in V
    OBVIOUS
  <2>1. n \in 0 .. (n + 1) - 1
    OBVIOUS
  <2> QED BY <1>1, <2>1 DEF Begun
<1>3. \A n \in Nat : f[n] = G[n][First(f, n)]
  <2> SUFFICES ASSUME NEW n \in Nat PROVE f[n] = G[n][First(f, n)]
    OBVIOUS
  <2>1. n \in 0 .. (n + 1) - 1
    OBVIOUS
  <2>2. q(n)[n] = G[n][First(q(n), n)]
    BY <1>1, <2>1 DEF Begun
  <2>3. \A m \in 0 .. n - 1 : m \in Nat /\ f[m] = q(n)[m]
    <3> SUFFICES ASSUME NEW m \in 0 .. n - 1 PROVE m \in Nat /\ q(m)[m] = q(n)[m]
      OBVIOUS
    <3>1. m \in Nat /\ m < m + 1 /\ m < n + 1 /\ m + 1 \in Nat /\ n + 1 \in Nat
      OBVIOUS
    <3>2. Begun(V, G, m + 1, q(m)) /\ Begun(V, G, n + 1, q(n))
      BY <1>1, <3>1
    <3> QED BY <3>1, <3>2, BeginningsAgree
  <2>4. f[n] = q(n)[n]
    OBVIOUS
  <2> HIDE DEF f
  <2>5. First(f, n) = First(q(n), n)
    BY <2>3 DEF First
  <2> QED BY <2>2, <2>4, <2>5
<1> QED BY <1>2, <1>3

-----------------------------------------------------------------------------
(***************************************************************************)
(* Powers of two, the logarithm, and Luby's sequence.                      *)
(***************************************************************************)
LEMMA BitIs == CU!bit \in [Nat -> Nat] /\ \A x \in Nat : CU!bit[x] = IF x = 0 THEN 1 ELSE 2 * CU!bit[x - 1]
<1> DEFINE G == [x \in Nat |-> [q \in [0 .. x - 1 -> Nat] |-> IF x = 0 THEN 1 ELSE 2 * q[x - 1]]]
<1>1. Defines(G, Nat)
  <2>1. \A x \in Nat : \A q \in [0 .. x - 1 -> Nat] : (IF x = 0 THEN 1 ELSE 2 * q[x - 1]) \in Nat
    <3> SUFFICES ASSUME NEW x \in Nat, NEW q \in [0 .. x - 1 -> Nat], x # 0
                 PROVE  2 * q[x - 1] \in Nat
      OBVIOUS
    <3>1. x - 1 \in 0 .. x - 1
      OBVIOUS
    <3>2. q[x - 1] \in Nat
      BY <3>1
    <3> QED BY <3>2
  <2> QED BY <2>1 DEF Defines
<1> HIDE DEF G
<1>2. PICK f \in [Nat -> Nat] : \A n \in Nat : f[n] = G[n][First(f, n)]
  BY <1>1, FunctionExists
<1>3. \A n \in Nat : f[n] = IF n = 0 THEN 1 ELSE 2 * f[n - 1]
  <2> SUFFICES ASSUME NEW n \in Nat PROVE f[n] = IF n = 0 THEN 1 ELSE 2 * f[n - 1]
    OBVIOUS
  <2>1. First(f, n) \in [0 .. n - 1 -> Nat]
    BY DEF First
  <2>2. n # 0 => First(f, n)[n - 1] = f[n - 1]
    BY DEF First
  <2> QED BY <1>2, <2>1, <2>2 DEF G
<1>4. f = [n \in Nat |-> IF n = 0 THEN 1 ELSE 2 * f[n - 1]]
  BY <1>3
<1>5. CU!bit = [n \in Nat |-> IF n = 0 THEN 1 ELSE 2 * CU!bit[n - 1]]
  BY <1>4 DEF CU!bit
<1>6. \A n \in Nat : CU!bit[n] = IF n = 0 THEN 1 ELSE 2 * CU!bit[n - 1]
  BY <1>5
<1>7. CU!bit \in [Nat -> Nat]
  <2> DEFINE Bad == {n \in Nat : CU!bit[n] \notin Nat}
  <2>1. Bad = {}
    <3> SUFFICES ASSUME Bad # {} PROVE FALSE
      OBVIOUS
    <3>1. PICK n \in Bad : \A j \in Bad : n <= j
      BY LeastNat
    <3>2. n \in Nat /\ CU!bit[n] \notin Nat
      OBVIOUS
    <3>3. n # 0 => n - 1 \in Nat /\ ~(n <= n - 1)
      BY <3>2
    <3>4. n # 0 => CU!bit[n - 1] \in Nat
      BY <3>1, <3>3
    <3>5. CU!bit[n] = IF n = 0 THEN 1 ELSE 2 * CU!bit[n - 1]
      BY <1>6, <3>2
    <3>6. n # 0 => 2 * CU!bit[n - 1] \in Nat
      BY <3>4
    <3> QED BY <3>2, <3>5, <3>6
  <2>2. \A n \in Nat : CU!bit[n] \in Nat
    BY <2>1
  <2> HIDE DEF Bad
  <2> QED BY <1>5, <2>2
<1> QED BY <1>6, <1>7

LEMMA BitStep ==
  /\ CU!bit[0] = 1
  /\ \A x \in Nat : CU!bit[x] \in Nat /\ CU!bit[x + 1] = 2 * CU!bit[x] /\ x < CU!bit[x] /\ 1 <= CU!bit[x]
<1>1. CU!bit[0] = 1
  BY BitIs
<1>2. \A x \in Nat : CU!bit[x] \in Nat /\ CU!bit[x + 1] = 2 * CU!bit[x]
  <2> TAKE x \in Nat
  <2>1. x + 1 \in Nat /\ x + 1 # 0 /\ x + 1 - 1 = x
    OBVIOUS
  <2>2. CU!bit[x + 1] = 2 * CU!bit[x + 1 - 1]
    BY <2>1, BitIs
  <2> QED BY <2>1, <2>2, BitIs
<1> DEFINE Bad == {x \in Nat : ~(x < CU!bit[x])}
<1>3. Bad = {}
  <2> SUFFICES ASSUME Bad # {} PROVE FALSE
    OBVIOUS
  <2>1. PICK x \in Bad : \A j \in Bad : x <= j
    BY LeastNat
  <2>2. x \in Nat /\ ~(x < CU!bit[x])
    OBVIOUS
  <2>3. x # 0
    BY <1>1, <2>2
  <2>4. x - 1 \in Nat /\ ~(x <= x - 1) /\ (x - 1) + 1 = x
    BY <2>2, <2>3
  <2>5. x - 1 < CU!bit[x - 1]
    BY <2>1, <2>4
  <2>6. CU!bit[x] = 2 * CU!bit[x - 1] /\ CU!bit[x - 1] \in Nat
    BY <1>2, <2>4
  <2> QED BY <2>2, <2>3, <2>4, <2>5, <2>6
<1>4. \A x \in Nat : x < CU!bit[x]
  BY <1>3
<1>5. \A x \in Nat : 1 <= CU!bit[x]
  BY <1>2, <1>4
<1> QED BY <1>1, <1>2, <1>4, <1>5

(* i lies between two neighbouring powers of two, and only two *)
Between(i, x) == CU!bit[x] <= i /\ i < CU!bit[x + 1]

LEMMA BitGrows ==
  ASSUME NEW x \in Nat, NEW y \in Nat, x <= y
  PROVE  CU!bit[x] <= CU!bit[y]
<1> DEFINE Bad == {z \in Nat : x <= z /\ ~(CU!bit[x] <= CU!bit[z])}
<1> SUFFICES ASSUME y \in Bad PROVE FALSE
  OBVIOUS
<1>1. PICK z \in Bad : \A j \in Bad : z <= j
  BY LeastNat
<1>2. z \in Nat /\ x <= z /\ ~(CU!bit[x] <= CU!bit[z])
  OBVIOUS
<1>3. CU!bit[x] \in Nat
  BY BitStep
<1>4. x # z
  BY <1>2, <1>3
<1>5. z - 1 \in Nat /\ x <= z - 1 /\ ~(z <= z - 1) /\ (z - 1) + 1 = z
  BY <1>2, <1>4
<1>6. CU!bit[x] <= CU!bit[z - 1]
  BY <1>1, <1>5
<1>7. CU!bit[z] = 2 * CU!bit[z - 1] /\ CU!bit[z - 1] \in Nat
  BY <1>5, BitStep
<1> QED BY <1>2, <1>3, <1>6, <1>7

LEMMA LogExists ==
  ASSUME NEW i \in Nat, i # 0
  PROVE  \E x \in 0 .. i : Between(i, x)
<1> DEFINE Above == {x \in Nat : i < CU!bit[x]}
<1>1. i \in Above
  BY BitStep
<1> HIDE DEF Above
<1>2. PICK y \in Above : \A j \in Above : y <= j
  <2>1. Above \in SUBSET Nat
    BY DEF Above
  <2> QED BY <1>1, <2>1, LeastNat
<1>3. y \in Nat /\ i < CU!bit[y] /\ y <= i
  BY <1>1, <1>2 DEF Above
<1>4. y # 0
  BY <1>3, BitStep
<1>5. y - 1 \in 0 .. i /\ y - 1 \in Nat /\ ~(y <= y - 1) /\ (y - 1) + 1 = y
  BY <1>3, <1>4
<1>6. ~(i < CU!bit[y - 1])
  BY <1>2, <1>5 DEF Above
<1>7. CU!bit[y - 1] \in Nat
  BY <1>5, BitStep
<1>8. Between(i, y - 1)
  BY <1>3, <1>5, <1>6, <1>7 DEF Between
<1> QED BY <1>5, <1>8

LEMMA LogUnique ==
  ASSUME NEW i \in Nat, NEW x \in Nat, NEW y \in Nat, Between(i, x), Between(i, y)
  PROVE  x = y
<1>1. \A v \in Nat, w \in Nat : Between(i, v) /\ Between(i, w) => ~(v + 1 <= w)
  <2> SUFFICES ASSUME NEW v \in Nat, NEW w \in Nat, Between(i, v), Between(i, w), v + 1 <= w
               PROVE  FALSE
    OBVIOUS
  <2>1. v + 1 \in Nat /\ CU!bit[v + 1] <= CU!bit[w]
    BY BitGrows
  <2>2. CU!bit[v + 1] \in Nat /\ CU!bit[w] \in Nat
    BY <2>1, BitStep
  <2> QED BY <2>1, <2>2 DEF Between
<1>2. ~(x + 1 <= y) /\ ~(y + 1 <= x)
  BY <1>1
<1> QED BY <1>2

LEMMA LogIs ==
  ASSUME NEW i \in Nat, i # 0
  PROVE  /\ CU!log(i) \in Nat /\ Between(i, CU!log(i))
         /\ \A x \in Nat : Between(i, x) => CU!log(i) = x
<1>1. CU!log(i) \in 0 .. i /\ Between(i, CU!log(i))
  BY LogExists DEF CU!log, Between
<1>2. CU!log(i) \in Nat
  BY <1>1
<1> QED BY <1>1, <1>2, LogUnique

LEMMA TableIs ==
  /\ Len(CU!start) = 63
  /\ \A i \in 1 .. 63 : CU!start[i] \in Nat
  /\ CU!start[1] = 1
  /\ \A i \in 2 .. 3 : CU!start[i] = IF i = 3 THEN 2 ELSE CU!start[i - 1]
  /\ \A i \in 4 .. 7 : CU!start[i] = IF i = 7 THEN 4 ELSE CU!start[i - 3]
  /\ \A i \in 8 .. 15 : CU!start[i] = IF i = 15 THEN 8 ELSE CU!start[i - 7]
  /\ \A i \in 16 .. 31 : CU!start[i] = IF i = 31 THEN 16 ELSE CU!start[i - 15]
  /\ \A i \in 32 .. 63 : CU!start[i] = IF i = 63 THEN 32 ELSE CU!start[i - 31]
BY SMTT(60) DEF CU!start

LEMMA FirstBits ==
  /\ CU!bit[0] = 1 /\ CU!bit[1] = 2 /\ CU!bit[2] = 4 /\ CU!bit[3] = 8
  /\ CU!bit[4] = 16 /\ CU!bit[5] = 32 /\ CU!bit[6] = 64
<1>1. \A x \in Nat : CU!bit[x + 1] = 2 * CU!bit[x]
  BY BitStep
<1>2. CU!bit[0] = 1 /\ CU!bit[1] = 2
  <2>1. 0 + 1 = 1
    OBVIOUS
  <2> QED BY <1>1, <2>1, BitStep
<1>3. CU!bit[1 + 1] = 4 /\ CU!bit[1 + 1 + 1] = 8
  BY <1>1, <1>2
<1>4. CU!bit[3 + 1] = 16 /\ CU!bit[3 + 1 + 1] = 32 /\ CU!bit[3 + 1 + 1 + 1] = 64
  BY <1>1, <1>3
<1>5. 1 + 1 = 2 /\ 1 + 1 + 1 = 3 /\ 3 + 1 = 4 /\ 3 + 1 + 1 = 5 /\ 3 + 1 + 1 + 1 = 6
  OBVIOUS
<1> QED BY <1>2, <1>3, <1>4, <1>5

(* behind the table the rest of i is smaller *)
LEMMA RestIsSmaller ==
  ASSUME NEW i \in Nat, 63 < i
  PROVE  /\ CU!bit[CU!log(i)] \in Nat
         /\ i - CU!bit[CU!log(i)] + 1 \in 0 .. i - 1
<1> DEFINE b == CU!bit[CU!log(i)]
<1>1. CU!log(i) \in Nat /\ Between(i, CU!log(i))
  BY LogIs
<1>2. b \in Nat /\ b <= i /\ i < 2 * b
  BY <1>1, BitStep DEF Between
<1> HIDE DEF b
<1>3. b \in Nat /\ i - b + 1 \in 0 .. i - 1
  BY <1>2
<1> QED BY <1>3 DEF b

LEMMA LubyIs ==
  \A i \in Nat :
    CU!luby[i] = IF i <= Len(CU!start) THEN CU!start[i]
                 ELSE IF i = CU!bit[CU!log(i) + 1] - 1 THEN CU!bit[CU!log(i)]
                 ELSE CU!luby[i - CU!bit[CU!log(i)] + 1]
<1> DEFINE V == Nat \cup {CU!start[0]}
           Value(i, q) == IF i <= Len(CU!start) THEN CU!start[i]
                          ELSE IF i = CU!bit[CU!log(i) + 1] - 1 THEN CU!bit[CU!log(i)]
                          ELSE q[i - CU!bit[CU!log(i)] + 1]
           G == [i \in Nat |-> [q \in [0 .. i - 1 -> V] |-> Value(i, q)]]
<1>1. \A i \in Nat : \A q \in [0 .. i - 1 -> V] : Value(i, q) \in V
  <2> SUFFICES ASSUME NEW i \in Nat, NEW q \in [0 .. i - 1 -> V] PROVE Value(i, q) \in V
    OBVIOUS
  <2>1. CASE i <= 63
    <3>1. i = 0 \/ i \in 1 .. 63
      BY <2>1
    <3> QED BY <2>1, <3>1, TableIs
  <2>2. CASE 63 < i
    <3>1. ~(i <= Len(CU!start))
      BY <2>2, TableIs
    <3>2. q[i - CU!bit[CU!log(i)] + 1] \in V
      BY <2>2, RestIsSmaller
    <3> QED BY <2>2, <3>1, <3>2, RestIsSmaller
  <2> QED BY <2>1, <2>2
<1>2. Defines(G, V)
  <2> HIDE DEF Value, V
  <2> QED BY <1>1 DEF Defines
<1> HIDE DEF G, V
<1>3. PICK f \in [Nat -> V] : \A i \in Nat : f[i] = G[i][First(f, i)]
  BY <1>2, FunctionExists
<1>4. \A i \in Nat : f[i] = Value(i, f)
  <2> SUFFICES ASSUME NEW i \in Nat PROVE f[i] = Value(i, f)
    OBVIOUS
  <2>1. First(f, i) \in [0 .. i - 1 -> V]
    BY DEF First
  <2>2. f[i] = Value(i, First(f, i))
    <3> HIDE DEF Value
    <3> QED BY <1>3, <2>1 DEF G
  <2>3. CASE i <= Len(CU!start)
    BY <2>2, <2>3
  <2>4. CASE ~(i <= Len(CU!start))
    <3>1. 63 < i
      BY <2>4, TableIs
    <3>2. First(f, i)[i - CU!bit[CU!log(i)] + 1] = f[i - CU!bit[CU!log(i)] + 1]
      BY <3>1, RestIsSmaller DEF First
    <3> QED BY <2>2, <2>4, <3>2
  <2> QED BY <2>3, <2>4
<1>5. f = [i \in Nat |-> Value(i, f)]
  <2> HIDE DEF Value
  <2> QED BY <1>4
<1>6. CU!luby = [i \in Nat |-> Value(i, CU!luby)]
  BY <1>5, Zenon DEF CU!luby
<1>7. \A i \in Nat : CU!luby[i] = Value(i, CU!luby)
  <2> HIDE DEF Value
  <2> QED BY <1>6
<1> QED BY <1>7

(* the table and the loop are the same recursion *)
LEMMA LubyStep ==
  ASSUME NEW i \in Nat, NEW x \in Nat, Between(i, x)
  PROVE  CU!luby[i] = IF i = CU!bit[x + 1] - 1 THEN CU!bit[x] ELSE CU!luby[i - CU!bit[x] + 1]
<1> DEFINE b == CU!bit[x]
<1>1. b \in Nat /\ 1 <= b /\ b <= i /\ i < 2 * b /\ CU!bit[x + 1] = 2 * b
  BY BitStep DEF Between
<1>2. CASE 63 < i
  <2>1. CU!log(i) = x
    BY <1>2, LogIs
  <2>2. ~(i <= Len(CU!start))
    BY <1>2, TableIs
  <2> QED BY <2>1, <2>2, LubyIs
<1>3. CASE i <= 63
  <2>1. \A j \in 1 .. 63 : CU!luby[j] = CU!start[j]
    <3> SUFFICES ASSUME NEW j \in 1 .. 63 PROVE CU!luby[j] = CU!start[j]
      OBVIOUS
    <3>1. j \in Nat /\ j <= Len(CU!start)
      BY TableIs
    <3> QED BY <3>1, LubyIs
  <2>2. x \in 0 .. 5
    <3> SUFFICES ASSUME 6 <= x PROVE FALSE
      OBVIOUS
    <3>1. CU!bit[6] <= b
      BY BitGrows
    <3> QED BY <1>1, <1>3, <3>1, FirstBits
  <2>3. CASE x = 0
    <3>1. i = 1 /\ b = 1
      BY <1>1, <2>3, FirstBits
    <3> QED BY <1>1, <2>1, <3>1, TableIs
  <2>4. CASE x = 1
    <3>1. b = 2 /\ i \in 2 .. 3 /\ i \in 1 .. 63 /\ (i # 3 => i - 2 + 1 \in 1 .. 63 /\ i - 2 + 1 = i - 1)
      BY <1>1, <2>4, FirstBits
    <3> QED BY <1>1, <2>1, <3>1, TableIs
  <2>5. CASE x = 2
    <3>1. b = 4 /\ i \in 4 .. 7 /\ i \in 1 .. 63 /\ (i # 7 => i - 4 + 1 \in 1 .. 63 /\ i - 4 + 1 = i - 3)
      BY <1>1, <2>5, FirstBits
    <3> QED BY <1>1, <2>1, <3>1, TableIs
  <2>6. CASE x = 3
    <3>1. b = 8 /\ i \in 8 .. 15 /\ i \in 1 .. 63 /\ (i # 15 => i - 8 + 1 \in 1 .. 63 /\ i - 8 + 1 = i - 7)
      BY <1>1, <2>6, FirstBits
    <3> QED BY <1>1, <2>1, <3>1, TableIs
  <2>7. CASE x = 4
    <3>1. b = 16 /\ i \in 16 .. 31 /\ i \in 1 .. 63 /\ (i # 31 => i - 16 + 1 \in 1 .. 63 /\ i - 16 + 1 = i - 15)
      BY <1>1, <2>7, FirstBits
    <3> QED BY <1>1, <2>1, <3>1, TableIs
  <2>8. CASE x = 5
    <3>1. b = 32 /\ i \in 32 .. 63 /\ i \in 1 .. 63 /\ (i # 63 => i - 32 + 1 \in 1 .. 63 /\ i - 32 + 1 = i - 31)
      BY <1>1, <2>8, FirstBits
    <3> QED BY <1>1, <2>1, <3>1, TableIs
  <2> QED BY <2>2, <2>3, <2>4, <2>5, <2>6, <2>7, <2>8
<1> QED BY <1>2, <1>3

LEMMA TermsIs ==
  /\ CU!Terms \in [Nat -> Seq(Nat)]
  /\ \A x \in Nat : CU!Terms[x] = IF x = 0 THEN <<1>>
                                  ELSE CU!Terms[x - 1] \o CU!Terms[x - 1] \o <<CU!bit[x]>>
<1> DEFINE Value(x, q) == IF x = 0 THEN <<1>> ELSE q[x - 1] \o q[x - 1] \o <<CU!bit[x]>>
           G == [x \in Nat |-> [q \in [0 .. x - 1 -> Seq(Nat)] |-> Value(x, q)]]
<1>1. \A s \in Seq(Nat), b \in Nat : s \o s \o <<b>> \in Seq(Nat)
  OBVIOUS
<1>2. \A x \in Nat : \A q \in [0 .. x - 1 -> Seq(Nat)] : Value(x, q) \in Seq(Nat)
  <2> SUFFICES ASSUME NEW x \in Nat, NEW q \in [0 .. x - 1 -> Seq(Nat)] PROVE Value(x, q) \in Seq(Nat)
    OBVIOUS
  <2>1. CASE x = 0
    BY <2>1
  <2>2. CASE x # 0
    <3>1. x - 1 \in 0 .. x - 1
      BY <2>2
    <3>2. q[x - 1] \in Seq(Nat) /\ CU!bit[x] \in Nat
      BY <3>1, BitStep
    <3> QED BY <1>1, <2>2, <3>2
  <2> QED BY <2>1, <2>2
<1>3. Defines(G, Seq(Nat))
  <2> HIDE DEF Value
  <2> QED BY <1>2 DEF Defines
<1> HIDE DEF G
<1>4. PICK f \in [Nat -> Seq(Nat)] : \A x \in Nat : f[x] = G[x][First(f, x)]
  BY <1>3, FunctionExists
<1>5. \A x \in Nat : f[x] = Value(x, f)
  <2> SUFFICES ASSUME NEW x \in Nat PROVE f[x] = Value(x, f)
    OBVIOUS
  <2>1. First(f, x) \in [0 .. x - 1 -> Seq(Nat)]
    BY DEF First
  <2>2. f[x] = Value(x, First(f, x))
    <3> HIDE DEF Value
    <3> QED BY <1>4, <2>1 DEF G
  <2>3. x # 0 => First(f, x)[x - 1] = f[x - 1]
    BY DEF First
  <2> QED BY <2>2, <2>3
<1>6. f = [x \in Nat |-> Value(x, f)]
  <2> HIDE DEF Value
  <2> QED BY <1>5
<1>7. CU!Terms = [x \in Nat |-> Value(x, CU!Terms)]
  BY <1>6, Zenon DEF CU!Terms
<1>8. \A x \in Nat : CU!Terms[x] = Value(x, CU!Terms)
  <2> HIDE DEF Value
  <2> QED BY <1>7
<1>9. \A x \in Nat : CU!Terms[x] \in Seq(Nat)
  <2> DEFINE Bad == {x \in Nat : CU!Terms[x] \notin Seq(Nat)}
  <2> SUFFICES ASSUME Bad # {} PROVE FALSE
    OBVIOUS
  <2>1. PICK x \in Bad : \A j \in Bad : x <= j
    BY LeastNat
  <2>2. x \in Nat /\ CU!Terms[x] \notin Seq(Nat)
    OBVIOUS
  <2>3. x # 0
    <3>1. CU!Terms[0] = <<1>>
      BY <1>8
    <3>2. <<1>> \in Seq(Nat)
      OBVIOUS
    <3> QED BY <2>2, <3>1, <3>2
  <2>4. x - 1 \in Nat /\ ~(x <= x - 1)
    BY <2>2, <2>3
  <2>5. CU!Terms[x - 1] \in Seq(Nat)
    BY <2>1, <2>4
  <2>6. CU!bit[x] \in Nat
    BY <2>2, BitStep
  <2> QED BY <1>1, <1>8, <2>2, <2>3, <2>5, <2>6
<1>10. CU!Terms \in [Nat -> Seq(Nat)]
  <2> HIDE DEF Value
  <2> QED BY <1>7, <1>9
<1> QED BY <1>8, <1>10

LEMMA TwiceAndOne ==
  ASSUME NEW s \in Seq(Nat), NEW b \in Nat
  PROVE  /\ Len(s \o s \o <<b>>) = 2 * Len(s) + 1
         /\ \A i \in 1 .. 2 * Len(s) + 1 :
              (s \o s \o <<b>>)[i] = IF i <= Len(s) THEN s[i]
                                     ELSE IF i = 2 * Len(s) + 1 THEN b ELSE s[i - Len(s)]
OBVIOUS

(* the terms of the definition are those that the code computes *)
LEMMA TermsAreLuby ==
  \A x \in Nat : /\ Len(CU!Terms[x]) = CU!bit[x + 1] - 1
                 /\ \A i \in 1 .. CU!bit[x + 1] - 1 : CU!Terms[x][i] = CU!luby[i]
<1> DEFINE Right(x) == /\ Len(CU!Terms[x]) = CU!bit[x + 1] - 1
                       /\ \A i \in 1 .. CU!bit[x + 1] - 1 : CU!Terms[x][i] = CU!luby[i]
           Bad == {x \in Nat : ~Right(x)}
<1> SUFFICES ASSUME Bad # {} PROVE FALSE
  OBVIOUS
<1>1. PICK x \in Bad : \A j \in Bad : x <= j
  BY LeastNat
<1>2. x \in Nat /\ ~Right(x)
  OBVIOUS
<1>3. x # 0
  <2> SUFFICES ASSUME x = 0, ~Right(0) PROVE FALSE
    BY <1>2
  <2>1. CU!Terms[0] = <<1>>
    BY TermsIs
  <2>2. CU!bit[0 + 1] - 1 = 1
    BY FirstBits
  <2>3. CU!luby[1] = 1
    <3>1. 1 \in Nat /\ 1 <= Len(CU!start)
      BY TableIs
    <3>2. CU!luby[1] = CU!start[1]
      BY <3>1, LubyIs
    <3> QED BY <3>2, TableIs
  <2>4. Right(0)
    <3>1. Len(<<1>>) = 1 /\ <<1>>[1] = 1 /\ \A i \in 1 .. 1 : i = 1
      OBVIOUS
    <3> QED BY <2>1, <2>2, <2>3, <3>1
  <2> QED BY <2>4
<1>4. x - 1 \in Nat /\ ~(x <= x - 1) /\ (x - 1) + 1 = x
  BY <1>2, <1>3
<1>5. Right(x - 1)
  BY <1>1, <1>4
<1> DEFINE s == CU!Terms[x - 1]
           b == CU!bit[x]
<1>6. b \in Nat /\ 1 <= b /\ CU!bit[x + 1] = 2 * b
  BY <1>2, BitStep
<1>7. s \in Seq(Nat) /\ Len(s) = b - 1 /\ \A i \in 1 .. b - 1 : s[i] = CU!luby[i]
  BY <1>4, <1>5, TermsIs
<1>8. CU!Terms[x] = s \o s \o <<b>>
  BY <1>2, <1>3, TermsIs
<1>9. \A i \in Nat : Between(i, x) <=> b <= i /\ i < 2 * b
  BY <1>6 DEF Between
<1> DEFINE t == CU!Terms[x]
<1>10. /\ Len(t) = 2 * Len(s) + 1
       /\ \A i \in 1 .. 2 * Len(s) + 1 :
            t[i] = IF i <= Len(s) THEN s[i] ELSE IF i = 2 * Len(s) + 1 THEN b ELSE s[i - Len(s)]
  <2> HIDE DEF s, b, t
  <2>1. t = s \o s \o <<b>>
    BY <1>8 DEF s, b, t
  <2> QED BY <1>6, <1>7, <2>1, TwiceAndOne
<1>11. 2 * Len(s) + 1 = 2 * b - 1
  BY <1>6, <1>7
<1>12. \A i \in Nat : b <= i /\ i < 2 * b =>
         CU!luby[i] = IF i = 2 * b - 1 THEN b ELSE CU!luby[i - b + 1]
  BY <1>2, <1>6, <1>9, LubyStep
<1> HIDE DEF s, b, t
<1>13. ASSUME NEW i \in 1 .. 2 * b - 1 PROVE t[i] = CU!luby[i]
  <2>1. i \in Nat /\ i \in 1 .. 2 * Len(s) + 1
    BY <1>6, <1>11
  <2>2. CASE i <= b - 1
    <3>1. i \in 1 .. b - 1 /\ i <= Len(s)
      BY <1>6, <1>7, <2>1, <2>2
    <3>2. t[i] = s[i]
      BY <1>10, <2>1, <3>1
    <3> QED BY <1>7, <3>1, <3>2
  <2>3. CASE i = 2 * b - 1
    <3>1. ~(i <= Len(s)) /\ b <= i /\ i < 2 * b
      BY <1>6, <1>7, <2>3
    <3>2. t[i] = b
      BY <1>10, <1>11, <2>1, <2>3, <3>1
    <3>3. CU!luby[i] = b
      BY <1>12, <2>1, <2>3, <3>1
    <3> QED BY <3>2, <3>3
  <2>4. CASE b <= i /\ i < 2 * b - 1
    <3>1. ~(i <= Len(s)) /\ i # 2 * b - 1 /\ i - Len(s) = i - b + 1 /\ i - b + 1 \in 1 .. b - 1 /\ i < 2 * b
      BY <1>6, <1>7, <2>1, <2>4
    <3>2. t[i] = s[i - b + 1]
      BY <1>10, <1>11, <2>1, <3>1
    <3>3. s[i - b + 1] = CU!luby[i - b + 1]
      BY <1>7, <3>1
    <3>4. CU!luby[i] = CU!luby[i - b + 1]
      BY <1>12, <2>1, <2>4, <3>1
    <3> QED BY <3>2, <3>3, <3>4
  <2> QED BY <1>6, <2>1, <2>2, <2>3, <2>4
<1>14. Len(t) = CU!bit[x + 1] - 1 /\ \A i \in 1 .. CU!bit[x + 1] - 1 : t[i] = CU!luby[i]
  BY <1>6, <1>10, <1>11, <1>13
<1> QED BY <1>2, <1>14 DEF t

LEMMA LubyIsLuby ==
  ASSUME NEW n \in Nat, n # 0
  PROVE  CU!Luby(n) = CU!luby[n]
<1>1. \E x \in 0 .. n : n <= Len(CU!Terms[x])
  <2>1. n < CU!bit[n] /\ CU!bit[n] \in Nat /\ CU!bit[n + 1] = 2 * CU!bit[n]
    BY BitStep
  <2>2. Len(CU!Terms[n]) = CU!bit[n + 1] - 1
    BY TermsAreLuby
  <2>3. n <= Len(CU!Terms[n]) /\ n \in 0 .. n
    BY <2>1, <2>2
  <2> QED BY <2>3
<1> DEFINE x == CHOOSE x \in 0 .. n : n <= Len(CU!Terms[x])
<1>2. x \in 0 .. n /\ n <= Len(CU!Terms[x])
  BY <1>1
<1>3. CU!Luby(n) = CU!Terms[x][n]
  BY DEF CU!Luby
<1> HIDE DEF x
<1>4. x \in Nat
  BY <1>2
<1>5. Len(CU!Terms[x]) = CU!bit[x + 1] - 1 /\ CU!bit[x + 1] \in Nat
  BY <1>4, TermsAreLuby, BitStep
<1>6. n \in 1 .. CU!bit[x + 1] - 1
  BY <1>2, <1>5
<1> QED BY <1>3, <1>4, <1>6, TermsAreLuby

-----------------------------------------------------------------------------
(***************************************************************************)
(* The generators: the invariant CutoffInv says how far each part is.      *)
(***************************************************************************)

(* g is what a part that has been made as h is after j calls of ++ *)
After(h, g, j) ==
  \/ h.kind = "constant" /\ g = h
  \/ h.kind = "linear" /\ g = [h EXCEPT !.n = (j + 1) * h.scale]
  \/ h.kind = "geometric" /\ g = [h EXCEPT !.e = j]
  \/ h.kind = "luby" /\ g = [h EXCEPT !.i = j + 1]
  \/ h.kind = "rnd" /\ \E v \in CU!RndValues(h) : g = [h EXCEPT !.cur = v]

LEMMA AfterNone ==
  ASSUME NEW h, CU!SoundPart(h)
  PROVE  After(h, h, 0)
<1>1. CASE h.kind = "constant"
  BY <1>1 DEF After
<1>2. CASE h.kind = "linear"
  <2>1. h = CU!Linear(h.scale) /\ h.scale \in Nat
    BY <1>2 DEF CU!SoundPart
  <2>2. \A s \in Nat : CU!Linear(s) = [CU!Linear(s) EXCEPT !.n = (0 + 1) * s]
    BY DEF CU!Linear
  <2>3. h = [h EXCEPT !.n = (0 + 1) * h.scale]
    BY <2>1, <2>2
  <2> QED BY <1>2, <2>3 DEF After
<1>3. CASE h.kind = "geometric"
  <2>1. h = CU!Geometric(h.scale, h.num, h.den)
    BY <1>3 DEF CU!SoundPart
  <2>2. \A s, n, m : CU!Geometric(s, n, m) = [CU!Geometric(s, n, m) EXCEPT !.e = 0]
    BY DEF CU!Geometric
  <2>3. h = [h EXCEPT !.e = 0]
    BY <2>1, <2>2
  <2> QED BY <1>3, <2>3 DEF After
<1>4. CASE h.kind = "luby"
  <2>1. h = CU!LubyTimes(h.scale)
    BY <1>4 DEF CU!SoundPart
  <2>2. \A s : CU!LubyTimes(s) = [CU!LubyTimes(s) EXCEPT !.i = 0 + 1]
    BY DEF CU!LubyTimes
  <2>3. h = [h EXCEPT !.i = 0 + 1]
    BY <2>1, <2>2
  <2> QED BY <1>4, <2>3 DEF After
<1>5. CASE h.kind = "rnd"
  <2> DEFINE g == [kind |-> "rnd", min |-> h.min, max |-> h.max, n |-> h.n, cur |-> h.min]
  <2>1. h \in CU!Increment(g)
    BY <1>5 DEF CU!SoundPart, CU!Rnd
  <2>2. PICK v \in CU!RndValues(g) : h = [g EXCEPT !.cur = v]
    BY <2>1 DEF CU!Increment
  <2>3. h = [h EXCEPT !.cur = v]
    BY <2>2
  <2>4. CU!RndValues(g) = CU!RndValues(h)
    BY DEF CU!RndValues, CU!RndStep
  <2> QED BY <1>5, <2>2, <2>3, <2>4 DEF After
<1> QED BY <1>1, <1>2, <1>3, <1>4, <1>5 DEF CU!SoundPart

LEMMA AfterOneMore ==
  ASSUME NEW h, CU!SoundPart(h), NEW j \in Nat, NEW g, After(h, g, j), NEW f \in CU!Increment(g)
  PROVE  After(h, f, j + 1)
<1>1. CASE h.kind = "constant"
  <2>1. g = h
    BY <1>1 DEF After
  <2> QED BY <1>1, <2>1 DEF After, CU!Increment
<1>2. CASE h.kind = "linear"
  <2>1. h = CU!Linear(h.scale) /\ h.scale \in Nat
    BY <1>2 DEF CU!SoundPart
  <2>2. h = [kind |-> "linear", scale |-> h.scale, n |-> h.scale]
    BY <2>1 DEF CU!Linear
  <2>3. g = [h EXCEPT !.n = (j + 1) * h.scale]
    BY <1>2 DEF After
  <2>4. g = [kind |-> "linear", scale |-> h.scale, n |-> (j + 1) * h.scale]
    BY <2>2, <2>3
  <2>5. f = [g EXCEPT !.n = @ + g.scale]
    BY <2>4 DEF CU!Increment
  <2>6. (j + 1) * h.scale + h.scale = ((j + 1) + 1) * h.scale
    BY <2>1
  <2>7. f = [h EXCEPT !.n = (j + 1) * h.scale + h.scale]
    BY <2>2, <2>4, <2>5
  <2> QED BY <1>2, <2>6, <2>7 DEF After
<1>3. CASE h.kind = "geometric"
  <2>1. h = [kind |-> "geometric", scale |-> h.scale, num |-> h.num, den |-> h.den, e |-> 0]
    BY <1>3 DEF CU!SoundPart, CU!Geometric
  <2>2. g = [h EXCEPT !.e = j]
    BY <1>3 DEF After
  <2>3. g = [kind |-> "geometric", scale |-> h.scale, num |-> h.num, den |-> h.den, e |-> j]
    BY <2>1, <2>2
  <2>4. f = [g EXCEPT !.e = @ + 1]
    BY <2>3 DEF CU!Increment
  <2>5. f = [h EXCEPT !.e = j + 1]
    BY <2>1, <2>3, <2>4
  <2> QED BY <1>3, <2>5 DEF After
<1>4. CASE h.kind = "luby"
  <2>1. h = [kind |-> "luby", scale |-> h.scale, i |-> 1]
    BY <1>4 DEF CU!SoundPart, CU!LubyTimes
  <2>2. g = [h EXCEPT !.i = j + 1]
    BY <1>4 DEF After
  <2>3. g = [kind |-> "luby", scale |-> h.scale, i |-> j + 1]
    BY <2>1, <2>2
  <2>4. f = [g EXCEPT !.i = @ + 1]
    BY <2>3 DEF CU!Increment
  <2>5. f = [h EXCEPT !.i = (j + 1) + 1]
    BY <2>1, <2>3, <2>4
  <2> QED BY <1>4, <2>5 DEF After
<1>5. CASE h.kind = "rnd"
  <2>1. PICK u \in CU!RndValues(h) : g = [h EXCEPT !.cur = u]
    BY <1>5 DEF After
  <2>2. h = [kind |-> "rnd", min |-> h.min, max |-> h.max, n |-> h.n, cur |-> h.cur]
    <3> DEFINE r == [kind |-> "rnd", min |-> h.min, max |-> h.max, n |-> h.n, cur |-> h.min]
    <3>1. h \in CU!Increment(r)
      BY <1>5 DEF CU!SoundPart, CU!Rnd
    <3>2. PICK v : h = [r EXCEPT !.cur = v]
      BY <3>1 DEF CU!Increment
    <3> QED BY <3>2
  <2>3. g = [kind |-> "rnd", min |-> h.min, max |-> h.max, n |-> h.n, cur |-> u]
    BY <2>1, <2>2
  <2>4. CU!RndValues(g) = CU!RndValues(h)
    BY <2>3 DEF CU!RndValues, CU!RndStep
  <2>5. PICK v \in CU!RndValues(h) : f = [g EXCEPT !.cur = v]
    BY <2>3, <2>4 DEF CU!Increment
  <2>6. f = [h EXCEPT !.cur = v]
    BY <2>2, <2>3, <2>5
  <2> QED BY <1>5, <2>6 DEF After
<1> QED BY <1>1, <1>2, <1>3, <1>4, <1>5 DEF CU!SoundPart

LEMMA AfterKind ==
  ASSUME NEW h, CU!SoundPart(h), NEW j, NEW g, After(h, g, j)
  PROVE  g.kind = h.kind
<1>1. CASE h.kind = "constant"
  BY <1>1 DEF After
<1>2. CASE h.kind = "linear"
  <2>1. h = [kind |-> "linear", scale |-> h.scale, n |-> h.scale]
    BY <1>2 DEF CU!SoundPart, CU!Linear
  <2>2. g = [h EXCEPT !.n = (j + 1) * h.scale]
    BY <1>2 DEF After
  <2> QED BY <2>1, <2>2
<1>3. CASE h.kind = "geometric"
  <2>1. h = [kind |-> "geometric", scale |-> h.scale, num |-> h.num, den |-> h.den, e |-> 0]
    BY <1>3 DEF CU!SoundPart, CU!Geometric
  <2> QED BY <1>3, <2>1 DEF After
<1>4. CASE h.kind = "luby"
  <2>1. h = [kind |-> "luby", scale |-> h.scale, i |-> 1]
    BY <1>4 DEF CU!SoundPart, CU!LubyTimes
  <2> QED BY <1>4, <2>1 DEF After
<1>5. CASE h.kind = "rnd"
  <2> DEFINE r == [kind |-> "rnd", min |-> h.min, max |-> h.max, n |-> h.n, cur |-> h.min]
  <2>1. PICK u : h = [r EXCEPT !.cur = u]
    BY <1>5 DEF CU!SoundPart, CU!Rnd, CU!Increment
  <2>2. PICK v : g = [h EXCEPT !.cur = v]
    BY <1>5 DEF After
  <2> QED BY <2>1, <2>2
<1> QED BY <1>1, <1>2, <1>3, <1>4, <1>5 DEF CU!SoundPart

LEMMA RndInBounds ==
  ASSUME NEW h, h.min \in Nat, h.max \in Nat, h.n \in 1 .. h.max - h.min + 1
  PROVE  CU!RndValues(h) \subseteq h.min .. h.max
<1> DEFINE a == h.min
           r == h.max - h.min + 1
           n == h.n
           q == r \div n
<1>1. a \in Nat /\ r \in Nat /\ n \in Nat /\ 1 <= n /\ n <= r
  OBVIOUS
<1> HIDE DEF a, r, n
<1>2. q \in Nat /\ 1 <= q /\ q * n <= r
  BY <1>1
<1> HIDE DEF q
<1>3. \A i \in 0 .. n - 1 : q * i \in Nat /\ q * i <= r - 1
  <2> SUFFICES ASSUME NEW i \in 0 .. n - 1 PROVE q * i \in Nat /\ q * i <= r - 1
    OBVIOUS
  <2>1. q * n = q * i + q * (n - i) /\ n - i >= 1
    BY <1>1, <1>2
  <2>2. q * (n - i) >= 1 /\ q * i \in Nat
    BY <1>1, <1>2, <2>1
  <2> QED BY <1>1, <1>2, <2>1, <2>2
<1>4. CU!RndStep(h) = q
  BY <1>2 DEF CU!RndStep, CU!Larger, q, r, n
<1>5. CU!RndValues(h) = {h.min + q * i : i \in 0 .. h.n - 1}
  BY <1>4 DEF CU!RndValues
<1>6. \A i \in 0 .. h.n - 1 : q * i \in Nat /\ q * i <= h.max - h.min
  BY <1>3 DEF n, r
<1>7. \A i \in 0 .. h.n - 1 : h.min + q * i \in h.min .. h.max
  BY <1>6
<1> QED BY <1>5, <1>7

LEMMA AfterDocumented ==
  ASSUME NEW h, CU!SoundPart(h), NEW j \in Nat, NEW g, After(h, g, j)
  PROVE  CU!Current(g) \in CU!DocumentedAtom(h, j)
<1>1. CASE h.kind = "constant"
  <2>1. g = h
    BY <1>1 DEF After
  <2> QED BY <1>1, <2>1 DEF CU!Current, CU!DocumentedAtom
<1>2. CASE h.kind = "linear"
  <2>1. h = [kind |-> "linear", scale |-> h.scale, n |-> h.scale]
    BY <1>2 DEF CU!SoundPart, CU!Linear
  <2>2. g = [h EXCEPT !.n = (j + 1) * h.scale]
    BY <1>2 DEF After
  <2>3. g.kind = "linear" /\ g.n = (j + 1) * h.scale
    BY <2>1, <2>2
  <2> QED BY <1>2, <2>3 DEF CU!Current, CU!DocumentedAtom
<1>3. CASE h.kind = "geometric"
  <2>1. h = [kind |-> "geometric", scale |-> h.scale, num |-> h.num, den |-> h.den, e |-> 0]
    BY <1>3 DEF CU!SoundPart, CU!Geometric
  <2>2. g = [h EXCEPT !.e = j]
    BY <1>3 DEF After
  <2>3. g.kind = "geometric" /\ g.scale = h.scale /\ g.num = h.num /\ g.den = h.den /\ g.e = j
    BY <2>1, <2>2
  <2> QED BY <1>3, <2>3 DEF CU!Current, CU!DocumentedAtom
<1>4. CASE h.kind = "luby"
  <2>1. h = [kind |-> "luby", scale |-> h.scale, i |-> 1]
    BY <1>4 DEF CU!SoundPart, CU!LubyTimes
  <2>2. g = [h EXCEPT !.i = j + 1]
    BY <1>4 DEF After
  <2>3. g.kind = "luby" /\ g.scale = h.scale /\ g.i = j + 1
    BY <2>1, <2>2
  <2>4. CU!Luby(j + 1) = CU!luby[j + 1]
    BY LubyIsLuby
  <2> QED BY <1>4, <2>3, <2>4 DEF CU!Current, CU!DocumentedAtom
<1>5. CASE h.kind = "rnd"
  <2>1. PICK v \in CU!RndValues(h) : g = [h EXCEPT !.cur = v]
    BY <1>5 DEF After
  <2>2. h.min \in Nat /\ h.max \in Nat /\ h.n \in 1 .. h.max - h.min + 1 /\ h \in CU!Rnd(h.min, h.max, h.n)
    BY <1>5 DEF CU!SoundPart
  <2>3. v \in h.min .. h.max
    BY <2>2, RndInBounds
  <2>4. g.kind = "rnd" /\ g.cur = v
    <3> DEFINE r == [kind |-> "rnd", min |-> h.min, max |-> h.max, n |-> h.n, cur |-> h.min]
    <3>1. PICK u : h = [r EXCEPT !.cur = u]
      BY <2>2 DEF CU!Increment, CU!Rnd
    <3> QED BY <2>1, <3>1
  <2> QED BY <1>5, <2>3, <2>4 DEF CU!Current, CU!DocumentedAtom
<1> QED BY <1>1, <1>2, <1>3, <1>4, <1>5 DEF CU!SoundPart

(* Of two parts that are merged the one that is read has been incremented once for
   each two restarts, and the other one as often or once more. *)
MergeInv ==
  /\ gen = CU!Merge(gen.c1, gen.c2) /\ cutoff = CU!Current(gen.c1)
  /\ IF k % 2 = 0
     THEN After(made.c1, gen.c1, k \div 2) /\ After(made.c2, gen.c2, k \div 2)
     ELSE After(made.c2, gen.c1, k \div 2) /\ After(made.c1, gen.c2, k \div 2 + 1)
CutoffInv ==
  /\ k \in Nat /\ CU!Sound(made)
  /\ IF made.kind = "merge" THEN MergeInv
     ELSE After(made, gen, k) /\ cutoff = CU!Current(gen)

LEMMA CutoffInvInit ==
  ASSUME CU!Init, \A g \in Generators : CU!Sound(g)
  PROVE  CutoffInv
<1>1. k = 0 /\ gen = made /\ cutoff = CU!Read(made) /\ CU!Sound(made)
  BY DEF CU!Init
<1>2. CASE made.kind = "merge"
  <2>1. made = CU!Merge(made.c1, made.c2) /\ CU!SoundPart(made.c1) /\ CU!SoundPart(made.c2)
    BY <1>1, <1>2 DEF CU!Sound, CU!SoundPart
  <2>2. cutoff = CU!Current(made.c1)
    BY <1>1, <1>2 DEF CU!Read
  <2>3. 0 % 2 = 0 /\ 0 \div 2 = 0
    OBVIOUS
  <2> QED BY <1>1, <1>2, <2>1, <2>2, <2>3, AfterNone DEF CutoffInv, MergeInv
<1>3. CASE made.kind # "merge"
  <2>1. CU!SoundPart(made) /\ made.kind # "luby"
    BY <1>1, <1>3 DEF CU!Sound
  <2>2. cutoff = CU!Current(made)
    BY <1>1, <1>3, <2>1 DEF CU!Read, CU!SoundPart
  <2> QED BY <1>1, <1>3, <2>1, <2>2, AfterNone DEF CutoffInv
<1> QED BY <1>2, <1>3

LEMMA CutoffInvStep ==
  ASSUME CutoffInv, CU!Restart
  PROVE  CutoffInv'
<1>1. PICK n \in CU!Successors(gen) : cutoff' = n[1] /\ gen' = n[2]
  BY DEF CU!Restart
<1>2. k' = k + 1 /\ made' = made /\ k \in Nat /\ CU!Sound(made)
  BY DEF CU!Restart, CutoffInv
<1>3. CASE made.kind = "merge"
  <2>1. CU!SoundPart(made.c1) /\ CU!SoundPart(made.c2)
    BY <1>2, <1>3 DEF CU!Sound, CU!SoundPart
  <2>2. MergeInv
    BY <1>3 DEF CutoffInv
  <2>3. gen.kind = "merge" /\ gen = [kind |-> "merge", c1 |-> gen.c1, c2 |-> gen.c2]
    BY <2>2 DEF MergeInv, CU!Merge
  <2>4. PICK h \in CU!Increment(gen.c1) : n = <<CU!Current(gen.c2), [gen EXCEPT !.c1 = gen.c2, !.c2 = h]>>
    <3>1. CU!Successors(gen) = {<<CU!Current(gen.c2), [gen EXCEPT !.c1 = gen.c2, !.c2 = h]>> : h \in CU!Increment(gen.c1)}
      <4>1. gen.kind # "append" /\ gen.kind = "merge" /\ gen.kind # "repeat"
        BY <2>3
      <4> QED BY <4>1, Zenon DEF CU!Successors
    <3> QED BY <1>1, <3>1, Zenon
  <2>5. /\ cutoff' = CU!Current(gen'.c1) /\ gen'.c1 = gen.c2 /\ gen'.c2 = h
        /\ gen' = CU!Merge(gen'.c1, gen'.c2)
    BY <1>1, <2>3, <2>4 DEF CU!Merge
  <2>6. CASE k % 2 = 0
    <3>1. (k + 1) % 2 # 0 /\ (k + 1) \div 2 = k \div 2 /\ k \div 2 \in Nat
      BY <1>2, <2>6
    <3>2. After(made.c1, gen.c1, k \div 2) /\ After(made.c2, gen.c2, k \div 2)
      BY <2>2, <2>6 DEF MergeInv
    <3>3. After(made.c1, h, k \div 2 + 1)
      BY <2>1, <3>1, <3>2, AfterOneMore
    <3> QED BY <1>2, <1>3, <2>5, <3>1, <3>2, <3>3 DEF CutoffInv, MergeInv
  <2>7. CASE k % 2 # 0
    <3>1. (k + 1) % 2 = 0 /\ (k + 1) \div 2 = k \div 2 + 1 /\ k \div 2 \in Nat
      BY <1>2, <2>7
    <3>2. After(made.c2, gen.c1, k \div 2) /\ After(made.c1, gen.c2, k \div 2 + 1)
      BY <2>2, <2>7 DEF MergeInv
    <3>3. After(made.c2, h, k \div 2 + 1)
      BY <2>1, <3>1, <3>2, AfterOneMore
    <3> QED BY <1>2, <1>3, <2>5, <3>1, <3>2, <3>3 DEF CutoffInv, MergeInv
  <2> QED BY <2>6, <2>7
<1>4. CASE made.kind # "merge"
  <2>1. CU!SoundPart(made) /\ made.kind # "luby"
    BY <1>2, <1>4 DEF CU!Sound
  <2>2. After(made, gen, k)
    BY <1>4 DEF CutoffInv
  <2>3. gen.kind = made.kind
    BY <2>1, <2>2, AfterKind
  <2>4. gen.kind \notin {"append", "merge", "repeat", "luby"}
    BY <1>4, <2>1, <2>3 DEF CU!SoundPart
  <2>5. CU!Successors(gen) = {<<CU!Returned(gen, h), h>> : h \in CU!Increment(gen)}
    <3>1. gen.kind # "append" /\ gen.kind # "merge" /\ gen.kind # "repeat"
      BY <2>4
    <3> QED BY <3>1, Zenon DEF CU!Successors
  <2>6. PICK h \in CU!Increment(gen) : n = <<CU!Returned(gen, h), h>>
    BY <1>1, <2>5
  <2>7. cutoff' = CU!Current(gen') /\ gen' = h
    BY <1>1, <2>4, <2>6 DEF CU!Returned
  <2>8. After(made, gen', k + 1)
    BY <1>2, <2>1, <2>2, <2>6, <2>7, AfterOneMore
  <2> QED BY <1>2, <1>4, <2>7, <2>8 DEF CutoffInv
<1> QED BY <1>3, <1>4

LEMMA CutoffInvDocumented ==
  ASSUME CutoffInv
  PROVE  CU!CutoffsDocumented
<1>1. k \in Nat /\ CU!Sound(made)
  BY DEF CutoffInv
<1>2. CASE made.kind = "merge"
  <2>1. CU!SoundPart(made.c1) /\ CU!SoundPart(made.c2)
    BY <1>1, <1>2 DEF CU!Sound, CU!SoundPart
  <2>2. MergeInv /\ k \div 2 \in Nat
    BY <1>1, <1>2 DEF CutoffInv
  <2>3. CASE k % 2 = 0
    <3>1. cutoff \in CU!DocumentedAtom(made.c1, k \div 2)
      BY <2>1, <2>2, <2>3, AfterDocumented DEF MergeInv
    <3> QED BY <1>2, <2>3, <3>1 DEF CU!CutoffsDocumented, CU!Documented
  <2>4. CASE k % 2 # 0
    <3>1. cutoff \in CU!DocumentedAtom(made.c2, k \div 2)
      BY <2>1, <2>2, <2>4, AfterDocumented DEF MergeInv
    <3> QED BY <1>2, <2>4, <3>1 DEF CU!CutoffsDocumented, CU!Documented
  <2> QED BY <2>3, <2>4
<1>3. CASE made.kind # "merge"
  <2>1. CU!SoundPart(made)
    BY <1>1, <1>3 DEF CU!Sound
  <2>2. cutoff \in CU!DocumentedAtom(made, k)
    BY <1>1, <1>3, <2>1, AfterDocumented DEF CutoffInv
  <2> QED BY <1>3, <2>1, <2>2 DEF CU!CutoffsDocumented, CU!Documented, CU!SoundPart
<1> QED BY <1>2, <1>3

(* The cutoffs of a restarting engine are those that search.hh documents, for any number
   of restarts and any constants, if its generator is a constant, linear, geometric or random
   one or merges two of these or of Luby's sequence: the table of cutoff.cpp and the loop
   behind it yield that sequence without end. *)
THEOREM CutoffsAreDocumented ==
  ASSUME \A g \in Generators : CU!Sound(g)
  PROVE  Spec => []CutoffsDocumented
<1> DEFINE Inv == part = "cutoffs" => CutoffInv
<1>1. Init => Inv
  BY CutoffInvInit DEF Init, InitDFS, InitBAB, InitLDS, InitRBS, InitPBS, InitCutoffs
<1>2. Inv /\ [Next]_vars => Inv'
  <2> SUFFICES ASSUME Inv, [Next]_vars, part' = "cutoffs" PROVE CutoffInv'
    OBVIOUS
  <2>1. CASE StepCutoffs
    BY <2>1, CutoffInvStep DEF StepCutoffs, Only
  <2>2. CASE UNCHANGED vars
    BY <2>2 DEF vars, cutoffVars, CutoffInv, MergeInv
  <2>3. CASE StepDFS \/ StepBAB \/ StepLDS \/ StepRBS \/ StepPBS
    BY <2>3 DEF StepDFS, StepBAB, StepLDS, StepRBS, StepPBS, Only
  <2> QED BY <2>1, <2>2, <2>3 DEF Next, Stops
<1>3. Inv => CutoffsDocumented
  BY CutoffInvDocumented DEF CutoffsDocumented
<1> HIDE DEF Inv
<1> QED BY <1>1, <1>2, <1>3, PTL DEF Spec
=============================================================================
