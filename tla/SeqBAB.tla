------------------------------- MODULE SeqBAB -------------------------------
(***************************************************************************)
(* Sequential branch-and-bound search, gecode/search/seq/bab.hpp, over     *)
(* every tree and every choice of options given.                           *)
(*                                                                         *)
(* A space is a node together with the solution that it has last been      *)
(* constrained with, its bound; NoSpace if there is none.  Each constraint *)
(* is tighter than those before, so that the last one says it all.  What a *)
(* bound does to a space is left to propagation: a space that holds no     *)
(* better solution may fail as soon as its status is computed, or only     *)
(* further down, at a leaf at the latest.                                  *)
(***************************************************************************)
EXTENDS SearchTree, SearchPath, FiniteSets

CONSTANTS
  Node,      \* the nodes of all trees
  Value,     \* the objective values
  Trees,     \* the trees, with value: the objective value of each solution
  Options    \* records of c_d, a_d and nogoods_limit

TreesAssumption == \A t \in Trees : IsTree(t, Node) /\ t.value \in [t.solved -> Value]
OptionsAssumption == Options \subseteq [c_d : Nat, a_d : Nat, nogoods_limit : Nat]
NoSpaceAssumption == NoSpace \notin Node
ValueAssumption == Value \subseteq Int

VARIABLES
  tree, opt,      \* the problem and the options
  cur, curBound,  \* current space
  path, d,        \* path, whose edges have a bound too, and distance
  mark,           \* depth from which on betterness is guaranteed
  best,           \* best solution so far
  stopped, pc, ret

vars == <<tree, opt, cur, curBound, path, d, mark, best, stopped, pc, ret>>

BoundedEdge(node, copy, bound, alternatives) ==
  [node |-> node, space |-> copy, bound |-> bound, alt |-> 0,
   altMax |-> alternatives - 1, alternatives |-> alternatives]

Better(s, b) == b # NoSpace => tree.value[s] < tree.value[b]
MayFail(n, b) == \A s \in SolvedBelow(tree, n) : ~Better(s, b)

Root(t) == IF FailedIn(t, <<>>) THEN NoSpace ELSE <<>>

Init ==
  /\ tree \in Trees /\ opt \in Options
  /\ cur = Root(tree) /\ curBound = NoSpace
  /\ path = <<>> /\ d = 0 /\ mark = 0 /\ best = NoSpace
  /\ stopped = FALSE /\ pc = "user" /\ ret = NoSpace

Goto(from, to) == pc = from /\ pc' = to
ProblemUnchanged == UNCHANGED <<tree, opt>>

NextCall ==
  /\ Goto("user", "stop")
  /\ stopped' = FALSE
  /\ ProblemUnchanged
  /\ UNCHANGED <<cur, curBound, path, d, mark, best, ret>>

Stop ==
  /\ pc = "stop"
  /\ \/ pc' = "user" /\ stopped' = TRUE /\ ret' = NoSpace
     \/ pc' = (IF cur = NoSpace THEN "recompute" ELSE "status") /\ UNCHANGED <<stopped, ret>>
  /\ ProblemUnchanged
  /\ UNCHANGED <<cur, curBound, path, d, mark, best>>

Exhausted ==
  /\ Goto("recompute", "user")
  /\ path = <<>>
  /\ ret' = NoSpace
  /\ ProblemUnchanged
  /\ UNCHANGED <<cur, curBound, path, d, mark, best, stopped>>

(* mutant: the last clone is used up without being constrained *)
RecomputeReuseUnbounded ==
  /\ Goto("recompute", "status")
  /\ path # <<>> /\ CanReuse(path)
  /\ cur' = Child(Last(path).space, Last(path).alt)
  /\ curBound' = Last(path).bound /\ mark' = mark
  /\ path' = Reuse(path, opt.nogoods_limit)
  /\ d' = 0
  /\ ProblemUnchanged /\ UNCHANGED <<best, stopped, ret>>

(* recompute() by using up the clone on the topmost edge, which is below the
   mark unless it is constrained now *)
RecomputeReuse ==
  LET constrains == best # NoSpace /\ mark > Len(path) - 1
  IN  /\ Goto("recompute", "status")
      /\ path # <<>> /\ CanReuse(path)
      /\ cur' = Child(Last(path).space, Last(path).alt)
      /\ IF constrains THEN curBound' = best /\ mark' = Len(path) - 1
                       ELSE curBound' = Last(path).bound /\ mark' = mark
      /\ path' = Reuse(path, opt.nogoods_limit)
      /\ d' = 0
      /\ ProblemUnchanged /\ UNCHANGED <<best, stopped, ret>>

(* recompute(): the last clone is constrained, on the path, if it is below
   the mark *)
Constrains == best # NoSpace /\ LastCopy(path) - 1 < mark
ConstrainedPath == IF Constrains THEN [path EXCEPT ![LastCopy(path)].bound = best] ELSE path
ConstrainedMark == IF Constrains THEN LastCopy(path) - 1 ELSE mark

(* recompute() from the last clone, possibly leaving another one on the way *)
RecomputeClone ==
  LET p == ConstrainedPath
      l == LastCopy(p)
      i == AdaptiveEdge(p)
  IN  /\ Goto("recompute", "status")
      /\ path # <<>> /\ ~CanReuse(path)
      /\ cur' = Commits(p, l, Len(p)) /\ curBound' = p[l].bound
      /\ mark' = ConstrainedMark
      /\ IF PlacesCopy(p, opt.a_d)
         THEN /\ path' = [p EXCEPT ![i].space = Commits(p, l, i - 1), ![i].bound = p[l].bound]
              /\ d' = Len(p) - i + 1
         ELSE path' = p /\ d' = Distance(p)
      /\ ProblemUnchanged /\ UNCHANGED <<best, stopped, ret>>

(* recompute() fails, at the clone that has been constrained or where another
   clone was to be left: the path is unwound to there and advanced *)
RecomputeFails ==
  LET p == ConstrainedPath
      l == LastCopy(p)
      i == AdaptiveEdge(p)
  IN  /\ pc = "recompute"
      /\ path # <<>> /\ ~CanReuse(path)
      /\ \/ Constrains /\ MayFail(p[l].space, best) /\ path' = NextAlt(SubSeq(p, 1, l - 1))
         \/ /\ PlacesCopy(p, opt.a_d) /\ MayFail(Commits(p, l, i - 1), p[l].bound)
            /\ path' = NextAlt(SubSeq(p, 1, i - 1))
      /\ mark' = ConstrainedMark /\ d' = Distance(p)
      /\ ProblemUnchanged /\ UNCHANGED <<cur, curBound, best, stopped, pc, ret>>

(* SS_FAILED *)
StatusFailed ==
  /\ Goto("status", "stop")
  /\ MayFail(cur, curBound) /\ (FailedIn(tree, cur) \/ curBound # NoSpace)
  /\ cur' = NoSpace /\ curBound' = NoSpace
  /\ path' = NextAlt(path)
  /\ ProblemUnchanged /\ UNCHANGED <<d, mark, best, stopped, ret>>

(* mutant: the mark stays where it is *)
StatusSolvedKeepsMark ==
  /\ Goto("status", "user")
  /\ cur \in tree.solved /\ Better(cur, curBound)
  /\ best' = cur /\ ret' = cur
  /\ cur' = NoSpace /\ curBound' = NoSpace
  /\ path' = NextAlt(path)
  /\ ProblemUnchanged /\ UNCHANGED <<d, mark, stopped>>

(* SS_SOLVED: nothing on the path is guaranteed to be better any more *)
StatusSolved ==
  /\ Goto("status", "user")
  /\ cur \in tree.solved /\ Better(cur, curBound)
  /\ best' = cur /\ ret' = cur
  /\ cur' = NoSpace /\ curBound' = NoSpace
  /\ path' = NextAlt(path)
  /\ mark' = Len(path')
  /\ ProblemUnchanged /\ UNCHANGED <<d, stopped>>

(* SS_BRANCH *)
StatusBranch ==
  LET clones == d = 0 \/ d >= opt.c_d
  IN  /\ Goto("status", "stop")
      /\ tree.alternatives[cur] > 0
      /\ path' = Push(path, BoundedEdge(cur, IF clones THEN cur ELSE NoSpace, curBound,
                                        tree.alternatives[cur]))
      /\ d' = IF clones THEN 1 ELSE d + 1
      /\ cur' = Child(cur, 0)
      /\ ProblemUnchanged /\ UNCHANGED <<curBound, mark, best, stopped, ret>>

(* constrain(b) with a solution that has been found elsewhere *)
Constrain(b) ==
  /\ pc = "user"
  /\ IF best # NoSpace /\ Better(best, b)
     THEN UNCHANGED <<best, curBound, mark>>
     ELSE /\ best' = b
          /\ curBound' = IF cur # NoSpace THEN b ELSE curBound
          /\ mark' = Len(path)
  /\ ProblemUnchanged /\ UNCHANGED <<cur, path, d, stopped, pc, ret>>

Reset ==
  /\ pc = "user"
  /\ cur' \in {Root(tree), NoSpace} /\ curBound' = NoSpace
  /\ path' = <<>> /\ d' = 0 /\ mark' = 0 /\ best' = NoSpace
  /\ ProblemUnchanged /\ UNCHANGED <<stopped, pc, ret>>

Loop ==
  \/ Stop \/ Exhausted
  \/ RecomputeReuse \/ RecomputeClone \/ RecomputeFails
  \/ StatusFailed \/ StatusSolved \/ StatusBranch

Next == NextCall \/ Loop \/ Reset \/ \E b \in tree.solved : Constrain(b)

Spec == Init /\ [][Next]_vars

-----------------------------------------------------------------------------
(***************************************************************************)
(* Properties.                                                             *)
(***************************************************************************)

EdgeType ==
  [node : Node, space : Node \cup {NoSpace}, bound : Node \cup {NoSpace},
   alt : Nat, altMax : Nat, alternatives : Nat]

(* Every variable keeps its type; at status() there is a current space, at
   recompute() there is none. *)
TypeOK ==
  /\ {cur, curBound, best, ret} \subseteq Node \cup {NoSpace}
  /\ {curBound, best, ret} \subseteq tree.solved \cup {NoSpace}
  /\ path \in Seq(EdgeType) /\ d \in Nat /\ mark \in Nat /\ stopped \in BOOLEAN
  /\ pc \in {"user", "stop", "recompute", "status"}
  /\ pc = "status" => cur # NoSpace
  /\ pc = "recompute" => cur = NoSpace

(* The invariant stated at the head of next(): for the nodes stored at a depth
   less than mark there is no guarantee of betterness, for all others there
   is, and for the current space.  (Every clone has the bound of one of the
   solutions before best, or none.) *)
MarkOK ==
  /\ \A i \in DOMAIN path :
       path[i].space # NoSpace =>
         /\ i > mark => path[i].bound = best
         /\ path[i].bound # NoSpace => ~(best # NoSpace /\ Better(path[i].bound, best))
  /\ cur # NoSpace => curBound = best

(* What holds of the path and its bounds at any time. *)
BoundsOK == TypeOK /\ MarkOK

Frontier ==
  (UNION {{Child(path[i].node, a) : a \in path[i].alt + 1 .. path[i].altMax} : i \in DOMAIN path})
    \cup (IF cur # NoSpace THEN {cur}
          ELSE IF path # <<>> THEN {Child(Last(path).node, Last(path).alt)} ELSE {})

(* Branch-and-bound search is a stream of ever better solutions: every one is
   better than those before and those passed to constrain(), and null means
   that the best one is optimal. *)
Valued(s) == IF s = NoSpace THEN NoSpace ELSE [node |-> s, value |-> tree.value[s]]
Stream == INSTANCE SolutionStream WITH
  Solution <- [node : Node, value : Value],
  todo <- {Valued(s) : s \in {t \in UNION {SolvedBelow(tree, n) : n \in Frontier} : Better(t, best)}},
  calling <- pc # "user",
  ret <- Valued(ret),
  Before <- LAMBDA s, t : FALSE,
  After <- LAMBDA S, s : {t \in S : t.value < s.value}
=============================================================================
