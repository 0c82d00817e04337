------------------------------- MODULE SeqDFS -------------------------------
(***************************************************************************)
(* Sequential depth-first search, gecode/search/seq/dfs.hpp, over every    *)
(* tree and every choice of options given: the tree, the commit distance   *)
(* c_d, the adaptive distance a_d and the depth limit for no-goods are     *)
(* picked in the initial state and never change.                           *)
(*                                                                         *)
(* One action is one step of the loop of next(): the stop object, one call *)
(* of recompute(), the status of the current space.                        *)
(***************************************************************************)
EXTENDS SearchTree, SearchPath, FiniteSets

CONSTANTS
  Node,       \* the nodes of all trees
  Instances   \* the trees, each with options: records of tree and opt, where
              \* opt is a record of c_d, a_d and nogoods_limit

TreesAssumption == \A i \in Instances : IsTree(i.tree, Node)
OptionsAssumption ==
  {i.opt : i \in Instances} \subseteq [c_d : Nat, a_d : Nat, nogoods_limit : Nat]
NoSpaceAssumption == NoSpace \notin Node

VARIABLES
  tree, opt,   \* the problem and the options
  cur,         \* current space
  path,        \* path
  d,           \* distance to the last clone
  stopped,     \* _stopped
  pc,          \* "user", or what the loop of next() does now
  ret          \* what the last next() returned

vars == <<tree, opt, cur, path, d, stopped, pc, ret>>

Root(t) == IF FailedIn(t, <<>>) THEN NoSpace ELSE <<>>

Init ==
  /\ \E i \in Instances : tree = i.tree /\ opt = i.opt
  /\ cur = Root(tree) /\ path = <<>> /\ d = 0
  /\ stopped = FALSE /\ pc = "user" /\ ret = NoSpace

Goto(from, to) == pc = from /\ pc' = to

NextCall ==
  /\ Goto("user", "stop")
  /\ stopped' = FALSE
  /\ UNCHANGED <<tree, opt, cur, path, d, ret>>

Stop ==
  /\ pc = "stop"
  /\ \/ pc' = "user" /\ stopped' = TRUE /\ ret' = NoSpace
     \/ pc' = (IF cur = NoSpace THEN "recompute" ELSE "status") /\ UNCHANGED <<stopped, ret>>
  /\ UNCHANGED <<tree, opt, cur, path, d>>

Exhausted ==
  /\ Goto("recompute", "user")
  /\ path = <<>>
  /\ ret' = NoSpace
  /\ UNCHANGED <<tree, opt, cur, path, d, stopped>>

(* recompute() by using up the clone on the topmost edge *)
RecomputeReuse ==
  /\ Goto("recompute", "status")
  /\ path # <<>> /\ CanReuse(path)
  /\ cur' = Child(Last(path).space, Last(path).alt)
  /\ path' = Reuse(path, opt.nogoods_limit)
  /\ d' = 0
  /\ UNCHANGED <<tree, opt, stopped, ret>>

(* recompute() from the last clone, possibly leaving another one on the way *)
RecomputeClone ==
  /\ Goto("recompute", "status")
  /\ path # <<>> /\ ~CanReuse(path)
  /\ cur' = Commits(path, LastCopy(path), Len(path))
  /\ IF PlacesCopy(path, opt.a_d)
     THEN LET i == AdaptiveEdge(path)
          IN  /\ path' = [path EXCEPT ![i].space = Commits(path, LastCopy(path), i - 1)]
              /\ d' = Len(path) - i + 1
     ELSE d' = Distance(path) /\ UNCHANGED path
  /\ UNCHANGED <<tree, opt, stopped, ret>>

(* mutant: the path is not advanced after it has been unwound *)
RecomputeFailsNoNext ==
  /\ pc = "recompute"
  /\ path # <<>> /\ ~CanReuse(path) /\ PlacesCopy(path, opt.a_d)
  /\ LET i == AdaptiveEdge(path)
     IN  /\ SolvedBelow(tree, Commits(path, LastCopy(path), i - 1)) = {}
         /\ path' = SubSeq(path, 1, i - 1)
  /\ d' = Distance(path)
  /\ UNCHANGED <<tree, opt, cur, stopped, pc, ret>>

(* recompute() fails where it was to leave a clone: with weakly monotonic
   propagators a space without solutions may fail there although it has been
   branched on before.  The path is unwound to that place and advanced. *)
RecomputeFails ==
  /\ pc = "recompute"
  /\ path # <<>> /\ ~CanReuse(path) /\ PlacesCopy(path, opt.a_d)
  /\ LET i == AdaptiveEdge(path)
     IN  /\ SolvedBelow(tree, Commits(path, LastCopy(path), i - 1)) = {}
         /\ path' = NextAlt(SubSeq(path, 1, i - 1))
  /\ d' = Distance(path)
  /\ UNCHANGED <<tree, opt, cur, stopped, pc, ret>>

(* SS_FAILED *)
StatusFailed ==
  /\ Goto("status", "stop")
  /\ FailedIn(tree, cur)
  /\ cur' = NoSpace
  /\ path' = NextAlt(path)
  /\ UNCHANGED <<tree, opt, d, stopped, ret>>

(* SS_SOLVED *)
StatusSolved ==
  /\ Goto("status", "user")
  /\ cur \in tree.solved
  /\ ret' = cur /\ cur' = NoSpace
  /\ path' = NextAlt(path)
  /\ UNCHANGED <<tree, opt, d, stopped>>

(* SS_BRANCH *)
StatusBranch ==
  LET clones == d = 0 \/ d >= opt.c_d
  IN  /\ Goto("status", "stop")
      /\ tree.alternatives[cur] > 0
      /\ path' = Push(path, Edge(cur, IF clones THEN cur ELSE NoSpace, tree.alternatives[cur]))
      /\ d' = IF clones THEN 1 ELSE d + 1
      /\ cur' = Child(cur, 0)
      /\ UNCHANGED <<tree, opt, stopped, ret>>

(* reset(s): to the root of the same problem or to nullptr *)
Reset ==
  /\ pc = "user"
  /\ cur' \in {Root(tree), NoSpace}
  /\ path' = <<>> /\ d' = 0
  /\ UNCHANGED <<tree, opt, stopped, pc, ret>>

Loop ==
  \/ Stop \/ Exhausted
  \/ RecomputeReuse \/ RecomputeClone \/ RecomputeFails
  \/ StatusFailed \/ StatusSolved \/ StatusBranch

Next == NextCall \/ Loop \/ Reset

Spec == Init /\ [][Next]_vars

-----------------------------------------------------------------------------
(***************************************************************************)
(* Properties.                                                             *)
(***************************************************************************)

EdgeType == [node : Node, space : Node \cup {NoSpace}, alt : Nat, altMax : Nat, alternatives : Nat]

(* Every variable keeps its type; at status() there is a current space, at
   recompute() there is none. *)
TypeOK ==
  /\ cur \in Node \cup {NoSpace} /\ ret \in Node \cup {NoSpace}
  /\ path \in Seq(EdgeType) /\ d \in Nat /\ stopped \in BOOLEAN
  /\ pc \in {"user", "stop", "recompute", "status"}
  /\ pc = "status" => cur # NoSpace
  /\ pc = "recompute" => cur = NoSpace

(* The invariant stated at the head of next(): the path points to exactly the
   current space, or to the next one.  Every clone is a clone of its edge's
   node, and the commits from it lead through the nodes of the edges above. *)
PathPointsToCur ==
  /\ \A i \in DOMAIN path : path[i].space \in {NoSpace, path[i].node}
  /\ \A i \in 1 .. Len(path) - 1 :
       LET n == Child(path[i].node, path[i].alt)
       IN  IF path[i+1].space = NoSpace /\ ~LAO(path[i+1])
           THEN path[i+1].node = n ELSE Below(n, path[i+1].node)
  /\ path # <<>> /\ cur # NoSpace =>
       cur = Child(Last(path).node, TrueAlt(Last(path)))

(* What holds of the path at any time. *)
PathOK == TypeOK /\ PathPointsToCur

(* The commit distance: a recomputation never commits more than c_d times
   (once at least), whatever has been reused, unwound or cloned on the way;
   and with a current space d is exactly that distance, or zero. *)
RecomputationBounded ==
  /\ pc = "recompute" /\ path # <<>> =>
       Distance(path) <= IF opt.c_d = 0 THEN 1 ELSE opt.c_d
  /\ cur # NoSpace /\ path # <<>> => d \in {0, Distance(path)}

(* The subtrees that are still to be explored. *)
Frontier ==
  (UNION {{Child(path[i].node, a) : a \in path[i].alt + 1 .. path[i].altMax} : i \in DOMAIN path})
    \cup (IF cur # NoSpace THEN {cur}
          ELSE IF path # <<>> THEN {Child(Last(path).node, Last(path).alt)} ELSE {})

(* The no-goods that can be taken from the path at any time between two calls
   exclude no solution that is still to be explored: along the edges up to
   the depth limit they exclude the alternatives left of the one taken. *)
NogoodsSound ==
  pc = "user" =>
    \A i \in 1 .. Len(path) : i <= opt.nogoods_limit =>
      \A a \in 0 .. TrueAlt(path[i]) - 1 : \A n \in Frontier :
        ~Below(Child(path[i].node, a), n)

(* Depth-first search is the stream of the solutions from left to right:
   recomputation, reuse of clones, unwinding and stopping in between lose
   none, repeat none, and null means that none is left. *)
Stream == INSTANCE SolutionStream WITH
  Solution <- Node,
  todo <- UNION {SolvedBelow(tree, n) : n \in Frontier},
  calling <- pc # "user",
  Before <- LeftOf,
  After <- LAMBDA S, s : S \ {s}
=============================================================================
