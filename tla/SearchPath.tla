----------------------------- MODULE SearchPath -----------------------------
(***************************************************************************)
(* The depth-first stack of an engine: Path and its Edge, from             *)
(* gecode/search/par/path.hpp (seq/path.hpp is the same stack without      *)
(* stealing: there _alt_max is always the last alternative).               *)
(*                                                                         *)
(* A space is the sequence of alternatives that leads to it from the root, *)
(* so that commit(choice, a) appends a.  Whether the alternatives that a   *)
(* recomputation commits really lead to the space that the edge's choice   *)
(* belongs to is a property, not an assumption: an edge carries the node   *)
(* whose choice it holds, and no operator below reads it but Edge.         *)
(***************************************************************************)
EXTENDS Nodes, Spaces

(* an edge: the node whose choice it holds, the clone of it if there is one,
   the alternative taken and the last alternative still to be taken *)
Edge(node, copy, alternatives) ==
  [node |-> node, space |-> copy, alt |-> 0, altMax |-> alternatives - 1,
   alternatives |-> alternatives]

Rightmost(e) == e.alt >= e.altMax
LAO(e)       == e.alt > e.altMax
HasWork(e)   == e.alt < e.altMax

(* mutant: one too many *)
TrueAltInclusive(e) == IF e.alt < e.alternatives THEN e.alt + 1 ELSE e.alternatives

(* truealt(): a reusable edge has moved past its last alternative *)
TrueAlt(e) == IF e.alt < e.alternatives - 1 THEN e.alt ELSE e.alternatives - 1

OpenEdges(p) == {i \in DOMAIN p : HasWork(p[i])}

(* mutant: a reusable topmost edge stays *)
PushAbove(p, e) == Append(p, e)

(* push(): a reusable topmost edge is replaced *)
Push(p, e) == Append(IF p # <<>> /\ LAO(Last(p)) THEN Front(p) ELSE p, e)

(* next(): pop the rightmost edges and advance the one below them *)
NextAlt(p) ==
  LET i == SelectLastInSeq(p, LAMBDA e : ~Rightmost(e))
  IN  IF i = 0 THEN <<>> ELSE [SubSeq(p, 1, i) EXCEPT ![i].alt = @ + 1]

(* lc(): position of the last edge with a clone *)
LastCopy(p) == SelectLastInSeq(p, LAMBDA e : e.space # NoSpace)

(* the space reached from the clone on edge l by the commits of edges l to i *)
Commits(p, l, i) == p[l].space \o [j \in 1 .. i - l + 1 |-> p[l + j - 1].alt]

(* recompute(), last alternative optimization: the clone on the topmost edge
   itself is used up; beyond the depth limit for no-goods, ngdl, the edge
   becomes reusable *)
CanReuse(p) == Last(p).space # NoSpace /\ Rightmost(Last(p))
Reuse(p, ngdl) ==
  LET e == Last(p)
      alt == IF Len(p) > ngdl THEN e.alt + 1 ELSE e.alt
  IN  [p EXCEPT ![Len(p)] = [e EXCEPT !.space = NoSpace, !.alt = alt]]

(* recompute(), adaptive: the edge at which another clone is placed, the
   first one from the middle on that is not rightmost.  No clone is placed at
   the top of the stack or beyond it. *)
Distance(p) == Len(p) - LastCopy(p) + 1
AdaptiveEdge(p) ==
  LET m == LastCopy(p) + Distance(p) \div 2
      i == SelectInSubSeq(p, m, Len(p), LAMBDA e : ~Rightmost(e))
  IN  IF i = 0 THEN Len(p) + 1 ELSE i
PlacesCopy(p, aD) == Distance(p) >= aD /\ AdaptiveEdge(p) < Len(p)

(* steal(): the deepest open edge with more than limit open edges from it to
   the top; its last alternative is given away *)
StealEdge(p, limit) ==
  SelectLastInSeq([i \in DOMAIN p |-> {j \in OpenEdges(p) : j >= i}],
                  LAMBDA open : Cardinality(open) > limit)
Stolen(p, n) ==
  LET l == SelectLastInSubSeq(p, 1, n, LAMBDA e : e.space # NoSpace)
  IN  Append(IF l = n THEN p[n].space ELSE Commits(p, l, n - 1), p[n].altMax)
GiveAway(p, n) == [p EXCEPT ![n].altMax = @ - 1]

(* the subtrees still to be taken along a path *)
Pending(p) == UNION {{Child(p[i].node, a) : a \in p[i].alt + 1 .. p[i].altMax} : i \in DOMAIN p}
=============================================================================
