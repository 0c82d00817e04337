-------------------------------- MODULE MCSeq --------------------------------
(***************************************************************************)
(* Instances of the sequential engines: trees, options, portfolios and     *)
(* cutoff generators that meet the interesting cases.                      *)
(***************************************************************************)
EXTENDS SeqEngines, Nodes, FiniteSets

-----------------------------------------------------------------------------
(* Trees, as records of alternatives, which is 0 for the nodes that are not
   named, and solved *)

UpTo(depth, width) == UNION {[1..n -> 0 .. width-1] : n \in 0..depth}
Reached(f, n) == n = <<>> \/ Last(n) < f[Front(n)]
Shapes(inner, width) ==
  {f \in [inner -> 0..width] : \A n \in inner : f[n] > 0 => Reached(f, n)}
Extended(f, nodes) == [n \in nodes |-> IF n \in DOMAIN f THEN f[n] ELSE 0]
LeavesOf(f, nodes) == {n \in nodes : Reached(f, n) /\ (n \in DOMAIN f => f[n] = 0)}

(* all trees of this depth and width, with up to so many solutions *)
TreesUpTo(depth, width, number, nodes) ==
  UNION {{[alternatives |-> Extended(f, nodes), solved |-> S] :
            S \in {T \in SUBSET LeavesOf(f, UpTo(depth, width)) : Cardinality(T) <= number}} :
           f \in Shapes(UpTo(depth - 1, width), width)}

(* Combs: one long path that turns left or right, or in turn *)
Spine(b) == {SubSeq(b, 1, n) : n \in 0 .. Len(b) - 1}
CombLeaves(b) == {Child(n, a) : n \in Spine(b), a \in 0..1} \ Spine(b)
CombNodes(Turns) == UNION {Spine(b) \cup {Child(n, a) : n \in Spine(b), a \in 0..2} : b \in Turns}

(* SeqDFS: all trees of depth 3 with up to two alternatives and two solutions, and
   combs of depth 7 of which every second node has a third alternative *)
DFSTurns == {[n \in 1..6 |-> 0], [n \in 1..6 |-> 1], [n \in 1..6 |-> n % 2], [n \in 1..6 |-> (n \div 2) % 2]}
MCDFSNode == UpTo(3, 2) \cup CombNodes(DFSTurns)
DFSCombs ==
  UNION {{[alternatives |-> Extended([n \in Spine(b) |-> IF Len(n) % 2 = 1 THEN 3 ELSE 2], MCDFSNode),
           solved |-> S] :
            S \in {T \in SUBSET CombLeaves(b) : Cardinality(T) <= 2}} : b \in DFSTurns}
MCDFSInstances ==
  {[tree |-> t, opt |-> [c_d |-> c, a_d |-> 2, nogoods_limit |-> 2]] :
     t \in TreesUpTo(3, 2, 2, MCDFSNode), c \in {1, 3}}
  \cup
  {[tree |-> t, opt |-> [c_d |-> c, a_d |-> a, nogoods_limit |-> 0]] :
     t \in DFSCombs, c \in {2, 4, 8}, a \in {2, 4}}

(* SeqBAB: combs with three solutions in every order of their values *)
BABTurns == {[n \in 1..4 |-> 0], [n \in 1..4 |-> n % 2]}
MCBABNode == CombNodes(BABTurns)
MCBABValue == 1..3
Values(S) == {v \in [S -> MCBABValue] : IsInjective(v)}
MCBABTrees ==
  UNION {UNION {{[alternatives |-> Extended([n \in Spine(b) |-> IF Len(n) = 1 THEN 3 ELSE 2], MCBABNode),
                  solved |-> S, value |-> v] : v \in Values(S)} :
                S \in {T \in SUBSET CombLeaves(b) : Cardinality(T) = 3}} : b \in BABTurns}
MCBABOptions ==
  {[c_d |-> 2, a_d |-> 2, nogoods_limit |-> 2], [c_d |-> 8, a_d |-> 2, nogoods_limit |-> 0]}

(* LDS: all trees of depth 2 with up to three alternatives, and of depth 3 with two *)
MCLDSNode == UpTo(2, 3) \cup UpTo(3, 2)
MCLDSLimits == {1, 3}
Sum(n) == FoldLeft(LAMBDA x, y : x + y, 0, n)
MCLDSTrees == TreesUpTo(2, 3, 1, MCLDSNode) \cup TreesUpTo(3, 2, 2, MCLDSNode)

(* RBS: a sequential engine for the best or for all solutions, with no-goods or
   without, and slaves that are complete or neighbourhoods, but for the first *)
MCRBSSolution == 1..4
MCRBSExternal == {2, 3}
MCRBSOptions ==
  {[best |-> b, nogoods |-> n, first |-> {TRUE}, complete |-> c, max_queue |-> 1] :
     b \in BOOLEAN, n \in BOOLEAN, c \in {{TRUE}, BOOLEAN}}

(* SeqPBS: leaves with two solutions, one or none, and up to three failures before,
   between and after them *)
MCPBSSolution == {1, 2}
F == Failure
TwoSolutions == {<<F, 2, 1>>, <<1, F, F, 2>>, <<2, F, F, F, 1>>, <<F, F, 1, 2, F>>}
OneSolution == {<<F, F, F, 1>>, <<1, F>>, <<F, 1, F, F>>}
NoSolution == {<<F>>, <<F, F, F>>, <<F, F, F, F>>}
MCPortfolios == [Slave -> TwoSolutions] \cup [Slave -> OneSolution] \cup [Slave -> NoSolution]

-----------------------------------------------------------------------------
(* Cutoffs: those that yield what is documented, and those, as driver/script.hpp and
   flatzinc/flatzinc.cpp make them, that do not *)
MCMaxRestarts(g) == IF g.kind = "geometric" \/ (g.kind = "merge" /\ g.c1.kind \in {"geometric", "rnd"})
                    THEN 16 ELSE 260
G == INSTANCE CutoffGenerators
Sound ==
  {G!Constant(3), G!Linear(2), G!Geometric(3, 3, 2), G!Merge(G!LubyTimes(2), G!Linear(1)),
   G!Merge(G!Geometric(2, 2, 1), G!LubyTimes(1)), G!Merge(G!Constant(0), G!Constant(7))}
  \cup G!Rnd(4, 11, 3) \cup {G!Merge(g, G!Linear(3)) : g \in G!Rnd(2, 5, 2)}
ASSUME SoundAssumption == \A g \in Sound : CU!Sound(g)   \* what CutoffsAreDocumented is about
Others ==
  {G!LubyTimes(250), G!AppendTo(G!Constant(0), 1, G!LubyTimes(250)),
   G!AppendTo(G!Linear(1), 2, G!Linear(5)), G!Repeat(G!Linear(1), 2)}
=============================================================================
