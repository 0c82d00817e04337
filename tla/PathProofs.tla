----------------------------- MODULE PathProofs -----------------------------
(***************************************************************************)
(* The stack of gecode/search/par/path.hpp, whoever works on it: what its  *)
(* operations keep in order, where its recomputations lead, and what of    *)
(* the search tree is left to explore along it.  The lemmas hold for any   *)
(* tree and any records that have the fields of an edge.  Then the same of *)
(* the stack of seq/path.hpp, of which all alternatives are the engine's   *)
(* own; the solutions of a search tree that lie below a set of nodes; the  *)
(* bounds on a path; and the stack of a probe with its discrepancies.      *)
(***************************************************************************)
EXTENDS SearchPath, SearchTree, FiniteSetTheorems, WellFoundedInduction, TLAPS

(* A node is the sequence of alternatives that leads to it. *)
TreeFacts(Node, Alternatives) ==
  /\ Node \subseteq Seq(Nat) /\ <<>> \in Node /\ NoSpace \notin Node
  /\ Alternatives \in [Node -> Nat]
  /\ \A n \in Node : \A a \in 0 .. Alternatives[n]-1 : Child(n, a) \in Node
  /\ \A n \in Node : \A k \in 1 .. Len(n) :
       SubSeq(n, 1, k-1) \in Node /\ n[k] \in 0 .. Alternatives[SubSeq(n, 1, k-1)] - 1

(* An edge may hold more than SearchPath looks at. *)
Changed(EdgeType, f, e, s, a, m) ==
  /\ f \in EdgeType /\ f.node = e.node /\ f.alternatives = e.alternatives
  /\ f.space = s /\ f.alt = a /\ f.altMax = m
EdgeFacts(Node, EdgeType) ==
  \A e \in EdgeType :
    /\ e.node \in Node /\ e.space \in Node \cup {NoSpace}
    /\ e.alt \in Nat /\ e.altMax \in Nat /\ e.alternatives \in Nat
    /\ \A a \in Nat : /\ Changed(EdgeType, [e EXCEPT !.alt = a], e, e.space, a, e.altMax)
                      /\ Changed(EdgeType, [e EXCEPT !.altMax = a], e, e.space, e.alt, a)
                      /\ Changed(EdgeType, [e EXCEPT !.space = NoSpace, !.alt = a], e, NoSpace, a, e.altMax)
    /\ \A s \in Node : Changed(EdgeType, [e EXCEPT !.space = s], e, s, e.alt, e.altMax)

PathAssumption(Node, Alternatives, EdgeType) == TreeFacts(Node, Alternatives) /\ EdgeFacts(Node, EdgeType)

LEMMA TreeIs ==
  ASSUME NEW Node, NEW Alternatives, NEW EdgeType, PathAssumption(Node, Alternatives, EdgeType)
  PROVE  /\ Node \subseteq Seq(Nat) /\ <<>> \in Node /\ NoSpace \notin Node
         /\ Alternatives \in [Node -> Nat]
         /\ \A n \in Node : \A a \in 0 .. Alternatives[n]-1 : Child(n, a) \in Node
         /\ \A n \in Node : \A k \in 1 .. Len(n) :
              SubSeq(n, 1, k-1) \in Node /\ n[k] \in 0 .. Alternatives[SubSeq(n, 1, k-1)] - 1
BY DEF PathAssumption, TreeFacts

LEMMA Fields ==
  ASSUME NEW Node, NEW Alternatives, NEW EdgeType,
         PathAssumption(Node, Alternatives, EdgeType),
         NEW e \in EdgeType
  PROVE  /\ e.node \in Node /\ e.space \in Node \cup {NoSpace}
         /\ e.alt \in Nat /\ e.altMax \in Nat /\ e.alternatives \in Nat
BY DEF PathAssumption, EdgeFacts

LEMMA AltChanged ==
  ASSUME NEW Node, NEW Alternatives, NEW EdgeType,
         PathAssumption(Node, Alternatives, EdgeType),
         NEW e \in EdgeType, NEW a \in Nat
  PROVE  LET f == [e EXCEPT !.alt = a]
         IN  /\ f \in EdgeType /\ f.node = e.node /\ f.alternatives = e.alternatives
             /\ f.space = e.space /\ f.alt = a /\ f.altMax = e.altMax
BY DEF PathAssumption, EdgeFacts, Changed

LEMMA AltMaxChanged ==
  ASSUME NEW Node, NEW Alternatives, NEW EdgeType,
         PathAssumption(Node, Alternatives, EdgeType),
         NEW e \in EdgeType, NEW a \in Nat
  PROVE  LET f == [e EXCEPT !.altMax = a]
         IN  /\ f \in EdgeType /\ f.node = e.node /\ f.alternatives = e.alternatives
             /\ f.space = e.space /\ f.alt = e.alt /\ f.altMax = a
BY DEF PathAssumption, EdgeFacts, Changed

LEMMA CopyChanged ==
  ASSUME NEW Node, NEW Alternatives, NEW EdgeType,
         PathAssumption(Node, Alternatives, EdgeType),
         NEW e \in EdgeType, NEW s \in Node
  PROVE  LET f == [e EXCEPT !.space = s]
         IN  /\ f \in EdgeType /\ f.node = e.node /\ f.alternatives = e.alternatives
             /\ f.space = s /\ f.alt = e.alt /\ f.altMax = e.altMax
BY DEF PathAssumption, EdgeFacts, Changed

LEMMA CopyUsed ==
  ASSUME NEW Node, NEW Alternatives, NEW EdgeType,
         PathAssumption(Node, Alternatives, EdgeType),
         NEW e \in EdgeType, NEW a \in Nat
  PROVE  LET f == [e EXCEPT !.space = NoSpace, !.alt = a]
         IN  /\ f \in EdgeType /\ f.node = e.node /\ f.alternatives = e.alternatives
             /\ f.space = NoSpace /\ f.alt = a /\ f.altMax = e.altMax
BY DEF PathAssumption, EdgeFacts, Changed

(***************************************************************************)
(* Nodes, and which are below which.                                       *)
(***************************************************************************)
LEMMA NodeSeq ==
  ASSUME NEW Node, NEW Alternatives, NEW EdgeType, PathAssumption(Node, Alternatives, EdgeType)
  PROVE  Node \subseteq Seq(Nat) /\ <<>> \in Node /\ NoSpace \notin Node
BY TreeIs

LEMMA BelowIs ==
  ASSUME NEW n \in Seq(Nat), NEW m \in Seq(Nat)
  PROVE  Below(n, m) <=> Len(n) <= Len(m) /\ \A i \in 1 .. Len(n) : n[i] = m[i]
<1>1. CASE Len(n) <= Len(m)
  <2>1. /\ SubSeq(n, 1, Len(n)) = [i \in 1 .. Len(n) |-> n[i]]
        /\ SubSeq(m, 1, Len(n)) = [i \in 1 .. Len(n) |-> m[i]]
    BY <1>1
  <2> QED BY <1>1, <2>1 DEF Below, IsPrefix
<1>2. CASE ~(Len(n) <= Len(m))
  BY <1>2 DEF Below, IsPrefix
<1> QED BY <1>1, <1>2

LEMMA ChildIs ==
  ASSUME NEW n \in Seq(Nat), NEW a \in Nat
  PROVE  /\ Child(n, a) \in Seq(Nat) /\ Len(Child(n, a)) = Len(n) + 1
         /\ Child(n, a)[Len(n) + 1] = a
         /\ \A i \in 1 .. Len(n) : Child(n, a)[i] = n[i]
BY DEF Child

LEMMA SeqSame ==
  ASSUME NEW n \in Seq(Nat), NEW m \in Seq(Nat), Len(n) = Len(m),
         \A i \in 1 .. Len(n) : n[i] = m[i]
  PROVE  n = m
OBVIOUS

LEMMA BelowOrder ==
  ASSUME NEW Node, NEW Alternatives, NEW EdgeType, PathAssumption(Node, Alternatives, EdgeType)
  PROVE  /\ \A n \in Node : Below(n, n) /\ Below(<<>>, n)
         /\ \A n, m, s \in Node : Below(n, m) /\ Below(m, s) => Below(n, s)
         /\ \A n, m, s \in Node : Below(n, s) /\ Below(m, s) => Below(n, m) \/ Below(m, n)
         /\ \A n, m \in Node : Below(n, m) /\ Below(m, n) => n = m
<1>1. \A n \in Node : Below(n, n) /\ Below(<<>>, n)
  BY NodeSeq, BelowIs
<1>2. \A n, m, s \in Node : Below(n, m) /\ Below(m, s) => Below(n, s)
  <2> SUFFICES ASSUME NEW n \in Node, NEW m \in Node, NEW s \in Node, Below(n, m), Below(m, s)
               PROVE  Below(n, s)
    OBVIOUS
  <2>1. n \in Seq(Nat) /\ m \in Seq(Nat) /\ s \in Seq(Nat)
    BY NodeSeq
  <2>2. Len(n) <= Len(m) /\ Len(m) <= Len(s) /\ Len(n) \in Nat /\ Len(m) \in Nat /\ Len(s) \in Nat
    BY <2>1, BelowIs
  <2>3. \A i \in 1 .. Len(n) : n[i] = m[i] /\ m[i] = s[i]
    BY <2>1, <2>2, BelowIs
  <2> QED BY <2>1, <2>2, <2>3, BelowIs
<1>3. \A n, m, s \in Node : Below(n, s) /\ Below(m, s) => Below(n, m) \/ Below(m, n)
  <2> SUFFICES ASSUME NEW n \in Node, NEW m \in Node, NEW s \in Node, Below(n, s), Below(m, s)
               PROVE  Below(n, m) \/ Below(m, n)
    OBVIOUS
  <2>1. n \in Seq(Nat) /\ m \in Seq(Nat) /\ s \in Seq(Nat)
    BY NodeSeq
  <2>2. /\ \A i \in 1 .. Len(n) : n[i] = s[i]
        /\ \A i \in 1 .. Len(m) : m[i] = s[i]
        /\ Len(n) \in Nat /\ Len(m) \in Nat
    BY <2>1, BelowIs
  <2>3. CASE Len(n) <= Len(m)
    BY <2>1, <2>2, <2>3, BelowIs
  <2>4. CASE Len(m) <= Len(n)
    BY <2>1, <2>2, <2>4, BelowIs
  <2> QED BY <2>2, <2>3, <2>4
<1>4. \A n, m \in Node : Below(n, m) /\ Below(m, n) => n = m
  <2> SUFFICES ASSUME NEW n \in Node, NEW m \in Node, Below(n, m), Below(m, n)
               PROVE  n = m
    OBVIOUS
  <2>1. n \in Seq(Nat) /\ m \in Seq(Nat)
    BY NodeSeq
  <2>2. Len(n) = Len(m) /\ \A i \in 1 .. Len(n) : n[i] = m[i]
    BY <2>1, BelowIs
  <2> QED BY <2>1, <2>2, SeqSame
<1> QED BY <1>1, <1>2, <1>3, <1>4

(* children: which nodes are above, below and apart *)
LEMMA Children ==
  ASSUME NEW Node, NEW Alternatives, NEW EdgeType,
         PathAssumption(Node, Alternatives, EdgeType),
         NEW n \in Node, NEW a \in Nat, Child(n, a) \in Node
  PROVE  /\ Below(n, Child(n, a)) /\ ~Below(Child(n, a), n) /\ Child(n, a) # n
         /\ \A m \in Node : Below(m, Child(n, a)) => m = Child(n, a) \/ Below(m, n)
         /\ \A b \in Nat : \A m \in Node :
              /\ Child(n, b) \in Node
              /\ Below(Child(n, a), m) /\ Below(Child(n, b), m)
              => a = b
         /\ \A m \in Node, b \in Nat : Child(n, a) = Child(m, b) => n = m /\ a = b
<1>0. n \in Seq(Nat) /\ Len(n) \in Nat
  BY NodeSeq
<1>1. /\ n \in Seq(Nat) /\ Len(n) \in Nat
      /\ Child(n, a) \in Seq(Nat) /\ Len(Child(n, a)) = Len(n) + 1
      /\ Child(n, a)[Len(n) + 1] = a
      /\ \A i \in 1 .. Len(n) : Child(n, a)[i] = n[i]
  BY <1>0, ChildIs
<1>2. Below(n, Child(n, a)) /\ ~Below(Child(n, a), n) /\ Child(n, a) # n
  BY <1>1, BelowIs
<1>3. ASSUME NEW m \in Node, Below(m, Child(n, a)), ~Below(m, n)
      PROVE  m = Child(n, a)
  <2>1. m \in Seq(Nat) /\ Len(m) \in Nat
    BY NodeSeq
  <2>2. Len(m) <= Len(n) + 1 /\ \A i \in 1 .. Len(m) : m[i] = Child(n, a)[i]
    BY <1>1, <1>3, <2>1, BelowIs
  <2>3. Len(m) # Len(n) + 1 => \A i \in 1 .. Len(m) : m[i] = n[i]
    BY <1>1, <2>1, <2>2
  <2>4. Len(m) = Len(n) + 1
    BY <1>1, <1>3, <2>1, <2>2, <2>3, BelowIs
  <2> QED BY <1>1, <2>1, <2>2, <2>4, SeqSame
<1>4. ASSUME NEW b \in Nat, NEW m \in Node, Child(n, b) \in Node,
             Below(Child(n, a), m), Below(Child(n, b), m)
      PROVE  a = b
  <2>1. /\ Child(n, b) \in Seq(Nat) /\ Len(Child(n, b)) = Len(n) + 1
        /\ Child(n, b)[Len(n) + 1] = b /\ m \in Seq(Nat)
    BY <1>1, <1>4, NodeSeq, ChildIs
  <2>2. /\ \A i \in 1 .. Len(n) + 1 : Child(n, a)[i] = m[i]
        /\ \A i \in 1 .. Len(n) + 1 : Child(n, b)[i] = m[i]
    BY <1>1, <1>4, <2>1, BelowIs
  <2>3. Len(n) + 1 \in 1 .. Len(n) + 1
    BY <1>1
  <2> QED BY <1>1, <2>1, <2>2, <2>3
<1>5. ASSUME NEW m \in Node, NEW b \in Nat, Child(n, a) = Child(m, b)
      PROVE  n = m /\ a = b
  <2>1. /\ m \in Seq(Nat) /\ Len(m) \in Nat /\ Len(Child(m, b)) = Len(m) + 1
        /\ Child(m, b)[Len(m) + 1] = b
        /\ \A i \in 1 .. Len(m) : Child(m, b)[i] = m[i]
    <3>1. m \in Seq(Nat) /\ Len(m) \in Nat
      BY NodeSeq
    <3> QED BY <3>1, <1>5, ChildIs
  <2>2. Len(n) = Len(m) /\ a = b /\ \A i \in 1 .. Len(n) : n[i] = m[i]
    BY <1>1, <1>5, <2>1
  <2> QED BY <1>1, <2>1, <2>2, SeqSame
<1> QED BY <1>2, <1>3, <1>4, <1>5

(* a node is a node of its parent's *)
LEMMA BelowChild ==
  ASSUME NEW Node, NEW Alternatives, NEW EdgeType,
         PathAssumption(Node, Alternatives, EdgeType),
         NEW n \in Node, NEW s \in Node, Below(n, s), s # n
  PROVE  \E a \in 0 .. Alternatives[n] - 1 : Child(n, a) \in Node /\ Below(Child(n, a), s)
<1> DEFINE k == Len(n) + 1
<1>1. n \in Seq(Nat) /\ s \in Seq(Nat) /\ Len(n) \in Nat /\ Len(s) \in Nat
  BY NodeSeq
<1>2. Len(n) <= Len(s) /\ \A i \in 1 .. Len(n) : n[i] = s[i]
  BY <1>1, BelowIs
<1>3. Len(n) # Len(s)
  BY <1>1, <1>2, SeqSame
<1>4. k \in 1 .. Len(s)
  BY <1>1, <1>2, <1>3
<1>5. SubSeq(s, 1, k - 1) = n
  <2>1. SubSeq(s, 1, Len(n)) = [i \in 1 .. Len(n) |-> s[i]]
    BY <1>1, <1>2
  <2>2. n = [i \in 1 .. Len(n) |-> n[i]]
    BY <1>1
  <2>3. [i \in 1 .. Len(n) |-> s[i]] = [i \in 1 .. Len(n) |-> n[i]] /\ k - 1 = Len(n)
    BY <1>1, <1>2
  <2> QED BY <2>1, <2>2, <2>3
<1>6. s[k] \in 0 .. Alternatives[n] - 1 /\ Alternatives[n] \in Nat
  <2>1. /\ Alternatives \in [Node -> Nat]
        /\ \A m \in Node : \A j \in 1 .. Len(m) : m[j] \in 0 .. Alternatives[SubSeq(m, 1, j - 1)] - 1
    BY TreeIs
  <2> QED BY <1>4, <1>5, <2>1
<1>7. Child(n, s[k]) \in Node
  BY <1>6, TreeIs
<1>8. Below(Child(n, s[k]), s)
  <2>1. /\ Child(n, s[k]) \in Seq(Nat) /\ Len(Child(n, s[k])) = k
        /\ Child(n, s[k])[k] = s[k]
        /\ \A i \in 1 .. Len(n) : Child(n, s[k])[i] = s[i]
    <3>1. s[k] \in Nat
      BY <1>6
    <3> HIDE DEF k
    <3> QED BY <1>1, <1>2, <3>1, ChildIs DEF k
  <2>2. \A i \in 1 .. k : Child(n, s[k])[i] = s[i]
    BY <1>1, <2>1
  <2>3. k \in Nat /\ k <= Len(s)
    BY <1>1, <1>4
  <2> HIDE DEF k
  <2> QED BY <1>1, <2>1, <2>2, <2>3, BelowIs
<1> QED BY <1>6, <1>7, <1>8

(***************************************************************************)
(* The shape of a path.                                                    *)
(***************************************************************************)
EdgeOK(Alternatives, EdgeType, e) ==
  /\ e \in EdgeType
  /\ e.alternatives = Alternatives[e.node] /\ e.altMax < e.alternatives /\ e.alt <= e.altMax + 1
  /\ e.space \in {NoSpace, e.node} /\ (LAO(e) => e.space = NoSpace)

HasCopy(p, i) == \E l \in 1 .. i : p[l].space # NoSpace

(* Edge k comes right after the edge below it: it is not one that took the place of a
   reused edge, for which there has to be a clone, or a clone that was used up. *)
Straight(p, ng, k) == k <= ng \/ (p[k].space = NoSpace /\ ~LAO(p[k]))
Turns(p, i, j) == [k \in 1 .. j - i |-> p[i + k - 1].alt]

EdgesOK(Alternatives, EdgeType, p, ng) ==
  \A i \in 1 .. Len(p) : EdgeOK(Alternatives, EdgeType, p[i]) /\ (LAO(p[i]) => i = Len(p) /\ i > ng)
CopiesOK(p) == \A i \in 1 .. Len(p) : HasWork(p[i]) => HasCopy(p, i)
BelowOK(p) ==
  \A i, j \in 1 .. Len(p) : i < j => Below(Child(p[i].node, p[i].alt), p[j].node)
TurnsOK(p, ng) ==
  \A i, j \in 1 .. Len(p) :
    i <= j /\ (\A k \in i + 1 .. j : Straight(p, ng, k)) => p[j].node = p[i].node \o Turns(p, i, j)
ShapeOK(Alternatives, EdgeType, p, ng) ==
  p \in Seq(EdgeType) /\ EdgesOK(Alternatives, EdgeType, p, ng) /\ CopiesOK(p) /\ BelowOK(p) /\ TurnsOK(p, ng)

LEMMA EmptyShape ==
  ASSUME NEW Node, NEW Alternatives, NEW EdgeType,
         PathAssumption(Node, Alternatives, EdgeType),
         NEW ng \in Nat
  PROVE  ShapeOK(Alternatives, EdgeType, <<>>, ng)
BY DEF ShapeOK, EdgesOK, CopiesOK, BelowOK, TurnsOK

(* the children of an edge's node that are nodes *)
LEMMA EdgeChild ==
  ASSUME NEW Node, NEW Alternatives, NEW EdgeType,
         PathAssumption(Node, Alternatives, EdgeType),
         NEW e, EdgeOK(Alternatives, EdgeType, e)
  PROVE  /\ e.node \in Node /\ e.alt \in Nat /\ e.altMax \in Nat /\ Alternatives[e.node] \in Nat
         /\ ~LAO(e) => Child(e.node, e.alt) \in Node
         /\ Child(e.node, e.altMax) \in Node
         /\ \A a \in e.alt + 1 .. e.altMax : a \in Nat /\ Child(e.node, a) \in Node
<1>1. /\ e.node \in Node /\ e.alt \in Nat /\ e.altMax \in Nat
      /\ e.altMax < Alternatives[e.node]
  BY Fields DEF EdgeOK
<1>2. /\ Alternatives[e.node] \in Nat
      /\ \A a \in 0 .. Alternatives[e.node] - 1 : Child(e.node, a) \in Node
  BY <1>1, TreeIs
<1>3. ~LAO(e) => e.alt \in 0 .. Alternatives[e.node] - 1
  BY <1>1, <1>2 DEF LAO
<1>4. /\ e.altMax \in 0 .. Alternatives[e.node] - 1
      /\ \A a \in e.alt + 1 .. e.altMax : a \in 0 .. Alternatives[e.node] - 1
  BY <1>1, <1>2
<1> QED BY <1>1, <1>2, <1>3, <1>4

(* What is left of a path when it is unwound, advanced, robbed, or when clones are
   placed on it or used up. *)
LEMMA Derived ==
  ASSUME NEW Node, NEW Alternatives, NEW EdgeType,
         PathAssumption(Node, Alternatives, EdgeType),
         NEW ng \in Nat, NEW m \in Nat, NEW p, ShapeOK(Alternatives, EdgeType, p, ng),
         NEW q \in Seq(EdgeType), Len(q) <= Len(p),
         \A j \in 1 .. Len(q) :
           /\ q[j].node = p[j].node /\ EdgeOK(Alternatives, EdgeType, q[j])
           /\ j < Len(q) => q[j].alt = p[j].alt
           /\ LAO(q[j]) => j = Len(q) /\ j > m
           /\ Straight(q, m, j) => Straight(p, ng, j)
           /\ HasWork(q[j]) => HasCopy(q, j)
  PROVE  ShapeOK(Alternatives, EdgeType, q, m)
<1>1. p \in Seq(EdgeType) /\ Len(p) \in Nat /\ Len(q) \in Nat
  BY DEF ShapeOK
<1>2. EdgesOK(Alternatives, EdgeType, q, m) /\ CopiesOK(q)
  BY DEF EdgesOK, CopiesOK
<1>3. BelowOK(q)
  <2> SUFFICES ASSUME NEW i \in 1 .. Len(q), NEW j \in 1 .. Len(q), i < j
               PROVE  Below(Child(q[i].node, q[i].alt), q[j].node)
    BY DEF BelowOK
  <2>1. i \in 1 .. Len(p) /\ j \in 1 .. Len(p) /\ i < Len(q)
    BY <1>1
  <2>2. Below(Child(p[i].node, p[i].alt), p[j].node)
    BY <2>1 DEF ShapeOK, BelowOK
  <2> QED BY <2>1, <2>2
<1>4. TurnsOK(q, m)
  <2> SUFFICES ASSUME NEW i \in 1 .. Len(q), NEW j \in 1 .. Len(q), i <= j,
                      \A k \in i + 1 .. j : Straight(q, m, k)
               PROVE  q[j].node = q[i].node \o Turns(q, i, j)
    BY DEF TurnsOK
  <2>1. i \in 1 .. Len(p) /\ j \in 1 .. Len(p)
    BY <1>1
  <2>2. \A k \in i + 1 .. j : Straight(p, ng, k)
    <3> TAKE k \in i + 1 .. j
    <3>1. k \in 1 .. Len(q)
      BY <1>1
    <3> QED BY <3>1
  <2>3. p[j].node = p[i].node \o Turns(p, i, j)
    BY <2>1, <2>2 DEF ShapeOK, TurnsOK
  <2>4. \A k \in 1 .. j - i : q[i + k - 1].alt = p[i + k - 1].alt
    <3> TAKE k \in 1 .. j - i
    <3>1. i + k - 1 \in 1 .. Len(q) /\ i + k - 1 < Len(q)
      BY <1>1
    <3> QED BY <3>1
  <2>5. Turns(q, i, j) = Turns(p, i, j)
    BY <2>4 DEF Turns
  <2> QED BY <2>3, <2>5
<1> QED BY <1>2, <1>3, <1>4 DEF ShapeOK

(* A smaller depth limit asks for less. *)
LEMMA Lowered ==
  ASSUME NEW Node, NEW Alternatives, NEW EdgeType,
         PathAssumption(Node, Alternatives, EdgeType),
         NEW ng \in Nat, NEW m \in Nat, m <= ng, NEW p, ShapeOK(Alternatives, EdgeType, p, ng)
  PROVE  ShapeOK(Alternatives, EdgeType, p, m)
<1>1. p \in Seq(EdgeType) /\ Len(p) \in Nat
  BY DEF ShapeOK
<1>2. \A j \in 1 .. Len(p) :
        /\ EdgeOK(Alternatives, EdgeType, p[j])
        /\ LAO(p[j]) => j = Len(p) /\ j > m
        /\ Straight(p, m, j) => Straight(p, ng, j)
        /\ HasWork(p[j]) => HasCopy(p, j)
  BY <1>1 DEF ShapeOK, EdgesOK, CopiesOK, Straight
<1> QED BY <1>1, <1>2, Derived

(***************************************************************************)
(* The operations of a path.                                               *)
(***************************************************************************)
LEMMA HasLeast ==
  ASSUME NEW S \in SUBSET Nat, S # {}
  PROVE  Min(S) \in S /\ \A y \in S : Min(S) <= y
<1>1. \E x \in S : \A y \in S : ~(<<y, x>> \in OpToRel(<, Nat))
  BY NatLessThanWellFounded, WFMin
<1>2. PICK x \in S : \A y \in S : ~(<<y, x>> \in OpToRel(<, Nat))
  BY <1>1
<1>3. \A y \in S : x <= y
  <2> TAKE y \in S
  <2>1. ~(y < x)
    BY <1>2 DEF OpToRel
  <2> QED BY <2>1
<1> QED BY <1>3 DEF Min

LEMMA HasGreatest ==
  ASSUME NEW n \in Nat, NEW S \in SUBSET (0 .. n), S # {}
  PROVE  Max(S) \in S /\ \A y \in S : Max(S) >= y
<1> DEFINE T == {n - y : y \in S}
<1>1. T \in SUBSET Nat /\ T # {}
  <2>1. \A y \in S : n - y \in Nat
    OBVIOUS
  <2> QED BY <2>1
<1> HIDE DEF T
<1>2. Min(T) \in T /\ \A u \in T : Min(T) <= u
  BY <1>1, HasLeast
<1>3. PICK x \in S : Min(T) = n - x
  BY <1>2 DEF T
<1>4. \A y \in S : n - x <= n - y
  BY <1>2, <1>3 DEF T
<1>5. \A y \in S : x >= y
  <2> TAKE y \in S
  <2>1. n - x <= n - y
    BY <1>4
  <2> QED BY <2>1
<1> QED BY <1>5 DEF Max

LEMMA EdgeTyped ==
  ASSUME NEW Node, NEW Alternatives, NEW EdgeType,
         PathAssumption(Node, Alternatives, EdgeType),
         NEW p \in Seq(EdgeType)
  PROVE  \A i \in 1 .. Len(p) :
           /\ p[i] \in EdgeType /\ p[i].node \in Node /\ p[i].space \in Node \cup {NoSpace}
           /\ p[i].alt \in Nat /\ p[i].altMax \in Nat /\ p[i].alternatives \in Nat
           /\ HasWork(p[i]) <=> ~Rightmost(p[i])
<1> TAKE i \in 1 .. Len(p)
<1>1. p[i] \in EdgeType
  OBVIOUS
<1>2. /\ p[i].node \in Node /\ p[i].space \in Node \cup {NoSpace}
      /\ p[i].alt \in Nat /\ p[i].altMax \in Nat /\ p[i].alternatives \in Nat
  BY <1>1, Fields
<1> QED BY <1>1, <1>2 DEF HasWork, Rightmost

(* next(): the edges above the deepest open one are popped, and it moves on *)
MovedOn(p, i) == [SubSeq(p, 1, i) EXCEPT ![i].alt = @ + 1]

LEMMA NextAltIs ==
  ASSUME NEW Node, NEW Alternatives, NEW EdgeType,
         PathAssumption(Node, Alternatives, EdgeType),
         NEW ng \in Nat, NEW p, ShapeOK(Alternatives, EdgeType, p, ng)
  PROVE  \/ NextAlt(p) = <<>> /\ \A i \in 1 .. Len(p) : ~HasWork(p[i])
         \/ \E i \in 1 .. Len(p) :
              /\ HasWork(p[i]) /\ \A j \in i + 1 .. Len(p) : ~HasWork(p[j])
              /\ NextAlt(p) = MovedOn(p, i)
<1> DEFINE I == {i \in 1 .. Len(p) : ~Rightmost(p[i])}
           last == IF I # {} THEN Max(I) ELSE 0
<1>1. NextAlt(p) = IF last = 0 THEN <<>> ELSE [SubSeq(p, 1, last) EXCEPT ![last].alt = @ + 1]
  BY DEF NextAlt, SelectLastInSeq
<1>2. p \in Seq(EdgeType) /\ Len(p) \in Nat /\ \A i \in 1 .. Len(p) : HasWork(p[i]) <=> ~Rightmost(p[i])
  BY EdgeTyped DEF ShapeOK
<1>3. CASE I = {}
  BY <1>1, <1>2, <1>3
<1>4. CASE I # {}
  <2>0. I \in SUBSET (0 .. Len(p))
    BY <1>2
  <2> HIDE DEF I
  <2>1. last \in I /\ \A y \in I : last >= y
    BY <1>2, <1>4, <2>0, HasGreatest
  <2> HIDE DEF last
  <2>2. last \in 1 .. Len(p) /\ HasWork(p[last]) /\ last # 0
    BY <2>1, <1>2 DEF I
  <2>3. \A j \in last + 1 .. Len(p) : ~HasWork(p[j])
    <3> TAKE j \in last + 1 .. Len(p)
    <3>1. j \in 1 .. Len(p) /\ ~(last >= j)
      BY <1>2, <2>2
    <3>2. j \notin I
      BY <3>1, <2>1
    <3> QED BY <3>1, <3>2, <1>2 DEF I
  <2>4. NextAlt(p) = MovedOn(p, last)
    BY <1>1, <2>2 DEF MovedOn
  <2> QED BY <2>2, <2>3, <2>4
<1> QED BY <1>3, <1>4

(* what next() and recompute() explore when there is no current space *)
Top(p) == IF p # <<>> THEN {Child(Last(p).node, Last(p).alt)} ELSE {}

LEMMA PendingIs ==
  ASSUME NEW EdgeType, NEW p \in Seq(EdgeType)
  PROVE  \A x : x \in Pending(p) <=>
                \E i \in 1 .. Len(p) : \E a \in p[i].alt + 1 .. p[i].altMax : x = Child(p[i].node, a)
BY DEF Pending

LEMMA OpenFinite ==
  ASSUME NEW EdgeType, NEW p \in Seq(EdgeType)
  PROVE  /\ IsFiniteSet(OpenEdges(p)) /\ Cardinality(OpenEdges(p)) \in Nat
         /\ OpenEdges(p) = {i \in 1 .. Len(p) : HasWork(p[i])}
<1>1. OpenEdges(p) \subseteq 1 .. Len(p) /\ Len(p) \in Nat
  BY DEF OpenEdges
<1>2. IsFiniteSet(1 .. Len(p))
  BY <1>1, FS_Interval
<1> QED BY <1>1, <1>2, FS_Subset, FS_CardinalityType DEF OpenEdges

(* next() leaves a path, moves to its deepest open edge, and counts right *)
LEMMA NextAltOK ==
  ASSUME NEW Node, NEW Alternatives, NEW EdgeType,
         PathAssumption(Node, Alternatives, EdgeType),
         NEW ng \in Nat, NEW p, ShapeOK(Alternatives, EdgeType, p, ng)
  PROVE  /\ ShapeOK(Alternatives, EdgeType, NextAlt(p), ng)
         /\ NextAlt(p) # <<>> => /\ HasCopy(NextAlt(p), Len(NextAlt(p))) 
                                 /\ ~LAO(Last(NextAlt(p)))
         /\ Pending(p) = Pending(NextAlt(p)) \cup Top(NextAlt(p))
         /\ Cardinality(OpenEdges(NextAlt(p))) =
              IF NextAlt(p) # <<>> /\ ~HasWork(Last(NextAlt(p)))
              THEN Cardinality(OpenEdges(p)) - 1 ELSE Cardinality(OpenEdges(p))
<1> DEFINE q == NextAlt(p)
<1>0. p \in Seq(EdgeType) /\ Len(p) \in Nat
  BY DEF ShapeOK
<1>1. CASE q = <<>> /\ \A i \in 1 .. Len(p) : ~HasWork(p[i])
  <2>1. ShapeOK(Alternatives, EdgeType, q, ng)
    BY <1>1, EmptyShape
  <2>2. Pending(p) = {} /\ Pending(q) = {} /\ Top(q) = {}
    <3>1. \A i \in 1 .. Len(p) : p[i].alt + 1 .. p[i].altMax = {}
      BY <1>0, <1>1, EdgeTyped DEF HasWork
    <3>2. \A x : x \notin Pending(p)
      BY <3>1, <1>0, PendingIs
    <3>3. \A x : x \notin Pending(q)
      <4>1. q \in Seq(EdgeType) /\ Len(q) = 0
        BY <1>1
      <4> HIDE DEF q
      <4>2. 1 .. Len(q) = {}
        BY <4>1
      <4>3. \A x : x \in Pending(q) <=>
              \E j \in 1 .. Len(q) : \E a \in q[j].alt + 1 .. q[j].altMax : x = Child(q[j].node, a)
        BY <4>1, PendingIs
      <4> QED BY <4>2, <4>3
    <3> QED BY <3>2, <3>3, <1>1 DEF Top
  <2>3. OpenEdges(p) = {} /\ OpenEdges(q) = {}
    BY <1>0, <1>1 DEF OpenEdges
  <2> QED BY <1>1, <2>1, <2>2, <2>3
<1>2. ASSUME NEW i \in 1 .. Len(p), HasWork(p[i]), \A j \in i + 1 .. Len(p) : ~HasWork(p[j]),
             q = [SubSeq(p, 1, i) EXCEPT ![i].alt = @ + 1]
      PROVE  /\ ShapeOK(Alternatives, EdgeType, q, ng)
             /\ HasCopy(q, Len(q)) /\ ~LAO(Last(q))
             /\ Pending(p) = Pending(q) \cup Top(q)
             /\ Cardinality(OpenEdges(q)) =
                  IF q # <<>> /\ ~HasWork(Last(q))
                  THEN Cardinality(OpenEdges(p)) - 1 ELSE Cardinality(OpenEdges(p))
  <2>1. /\ i \in Nat /\ EdgeOK(Alternatives, EdgeType, p[i]) /\ p[i] \in EdgeType
        /\ p[i].alt \in Nat /\ p[i].altMax \in Nat /\ p[i].alt < p[i].altMax
    BY <1>0, <1>2, EdgeTyped DEF ShapeOK, EdgesOK, HasWork
  <2>2. /\ q \in Seq(EdgeType) /\ Len(q) = i /\ q # <<>>
        /\ \A j \in 1 .. i : j # i => q[j] = p[j]
        /\ q[i] = [p[i] EXCEPT !.alt = @ + 1]
    <3>1. SubSeq(p, 1, i) = [j \in 1 .. i |-> p[j]]
      BY <1>0, <2>1
    <3>2. [p[i] EXCEPT !.alt = @ + 1] \in EdgeType
      <4>1. p[i].alt + 1 \in Nat
        BY <2>1
      <4> QED BY <2>1, <4>1, AltChanged
    <3>3. q = [j \in 1 .. i |-> IF j = i THEN [p[i] EXCEPT !.alt = @ + 1] ELSE p[j]]
      BY <1>2, <3>1, <2>1
    <3>4. \A j \in 1 .. i : p[j] \in EdgeType
      BY <1>0
    <3>5. q \in [1 .. i -> EdgeType]
      BY <3>2, <3>3, <3>4
    <3>6. q \in Seq(EdgeType) /\ Len(q) = i
      BY <3>5, <2>1
    <3>7. q # <<>> /\ \A j \in 1 .. i : j # i => q[j] = p[j]
      BY <3>3, <3>6, <2>1
    <3>8. q[i] = [p[i] EXCEPT !.alt = @ + 1]
      BY <3>3, <2>1
    <3> QED BY <3>6, <3>7, <3>8
  <2> HIDE DEF q
  <2>3. /\ q[i].node = p[i].node /\ q[i].space = p[i].space /\ q[i].altMax = p[i].altMax
        /\ q[i].alt = p[i].alt + 1 /\ q[i].alternatives = p[i].alternatives /\ q[i] \in EdgeType
        /\ Last(q) = q[i]
    <3> DEFINE e == p[i]
               f == [e EXCEPT !.alt = @ + 1]
    <3>1. /\ f.node = e.node /\ f.space = e.space /\ f.altMax = e.altMax
          /\ f.alt = e.alt + 1 /\ f.alternatives = e.alternatives /\ f \in EdgeType
      <4>1. e \in EdgeType /\ e.alt + 1 \in Nat
        BY <2>1
      <4> HIDE DEF e
      <4> QED BY <4>1, AltChanged
    <3>2. q[i] = f
      BY <2>2
    <3>3. Last(q) = q[i]
      BY <2>2 DEF Last
    <3> QED BY <3>1, <3>2, <3>3
  <2>4. EdgeOK(Alternatives, EdgeType, q[i]) /\ ~LAO(q[i])
    BY <2>1, <2>3 DEF EdgeOK, LAO
  <2>5. \A j \in 1 .. i : HasCopy(p, j) => HasCopy(q, j)
    <3>1. \A l \in 1 .. i : q[l].space = p[l].space
      BY <2>2, <2>3
    <3>2. \A j \in 1 .. i : \A l \in 1 .. j : l \in 1 .. i
      BY <2>1
    <3> QED BY <3>1, <3>2 DEF HasCopy
  <2>6. HasCopy(q, i)
    <3>1. HasCopy(p, i) /\ i \in 1 .. i
      BY <1>0, <1>2, <2>1 DEF ShapeOK, CopiesOK
    <3> QED BY <3>1, <2>5
  <2>7. \A j \in 1 .. i :
          /\ q[j].node = p[j].node /\ EdgeOK(Alternatives, EdgeType, q[j])
          /\ j < i => q[j].alt = p[j].alt
          /\ LAO(q[j]) => j = i /\ j > ng
          /\ Straight(q, ng, j) => Straight(p, ng, j)
          /\ HasWork(q[j]) => HasCopy(q, j)
    <3> TAKE j \in 1 .. i
    <3>1. CASE j = i
      BY <3>1, <2>1, <2>3, <2>4, <2>6, <1>2, Fields DEF Straight, HasWork, LAO
    <3>2. CASE j # i
      <4>1. q[j] = p[j] /\ j \in 1 .. Len(p) /\ j # Len(p)
        BY <3>2, <2>2, <2>1, <1>0
      <4>2. EdgeOK(Alternatives, EdgeType, p[j]) /\ ~LAO(p[j]) /\ (HasWork(p[j]) => HasCopy(p, j))
        BY <4>1 DEF ShapeOK, EdgesOK, CopiesOK
      <4> QED BY <4>1, <4>2, <3>2, <2>5 DEF Straight
    <3> QED BY <3>1, <3>2
  <2>8. ShapeOK(Alternatives, EdgeType, q, ng)
    <3>1. Len(q) <= Len(p)
      BY <1>0, <2>2
    <3>2. \A j \in 1 .. Len(q) :
            /\ q[j].node = p[j].node /\ EdgeOK(Alternatives, EdgeType, q[j])
            /\ j < Len(q) => q[j].alt = p[j].alt
            /\ LAO(q[j]) => j = Len(q) /\ j > ng
            /\ Straight(q, ng, j) => Straight(p, ng, j)
            /\ HasWork(q[j]) => HasCopy(q, j)
      BY <2>2, <2>7
    <3> QED BY <2>2, <3>1, <3>2, Derived
  <2>9. Pending(p) = Pending(q) \cup Top(q)
    <3>1. Top(q) = {Child(p[i].node, p[i].alt + 1)}
      BY <2>2, <2>3 DEF Top
    <3>2. ASSUME NEW x, x \in Pending(p) PROVE x \in Pending(q) \cup Top(q)
      <4>0. PICK j \in 1 .. Len(p) : \E a \in p[j].alt + 1 .. p[j].altMax : x = Child(p[j].node, a)
        BY <3>2, <1>0, PendingIs
      <4>1. PICK a \in p[j].alt + 1 .. p[j].altMax : x = Child(p[j].node, a)
        BY <4>0
      <4>2. HasWork(p[j])
        BY <1>0, EdgeTyped DEF HasWork
      <4>3. j \in 1 .. i
        BY <4>2, <1>2, <1>0
      <4>4. CASE j # i
        BY <4>1, <4>3, <4>4, <2>2, PendingIs
      <4>5. CASE j = i /\ a # p[i].alt + 1
        <5>1. a \in q[i].alt + 1 .. q[i].altMax
          BY <4>5, <2>1, <2>3
        <5> QED BY <5>1, <4>1, <4>3, <4>5, <2>2, <2>3, PendingIs
      <4> QED BY <4>1, <4>4, <4>5, <3>1
    <3>3. ASSUME NEW x, x \in Pending(q) PROVE x \in Pending(p)
      <4>0. PICK j \in 1 .. i : \E a \in q[j].alt + 1 .. q[j].altMax : x = Child(q[j].node, a)
        BY <3>3, <2>2, PendingIs
      <4>1. PICK a \in q[j].alt + 1 .. q[j].altMax : x = Child(q[j].node, a)
        BY <4>0
      <4>2. j \in 1 .. Len(p) /\ q[j].node = p[j].node /\ a \in p[j].alt + 1 .. p[j].altMax
        <5>1. CASE j = i
          BY <5>1, <2>1, <2>3, <1>0
        <5>2. CASE j # i
          BY <5>2, <2>1, <2>2, <1>0
        <5> QED BY <5>1, <5>2
      <4> QED BY <4>1, <4>2, <1>0, PendingIs
    <3>4. Child(p[i].node, p[i].alt + 1) \in Pending(p)
      <4>1. p[i].alt + 1 \in p[i].alt + 1 .. p[i].altMax
        BY <2>1
      <4> QED BY <4>1, <1>0, PendingIs
    <3> QED BY <3>1, <3>2, <3>3, <3>4
  <2>10. Cardinality(OpenEdges(q)) =
           IF q # <<>> /\ ~HasWork(Last(q))
           THEN Cardinality(OpenEdges(p)) - 1 ELSE Cardinality(OpenEdges(p))
    <3>1. OpenEdges(p) = {j \in 1 .. Len(p) : HasWork(p[j])} /\ IsFiniteSet(OpenEdges(p))
      BY <1>0, OpenFinite
    <3>2. OpenEdges(q) = {j \in 1 .. i : HasWork(q[j])}
      BY <2>2, OpenFinite
    <3>3. i \in OpenEdges(p) /\ \A j \in OpenEdges(p) : j <= i
      BY <3>1, <1>2, <1>0
    <3>4. OpenEdges(q) = IF HasWork(q[i]) THEN OpenEdges(p) ELSE OpenEdges(p) \ {i}
      BY <3>1, <3>2, <3>3, <2>1, <2>2
    <3> QED BY <3>1, <3>3, <3>4, <2>2, <2>3, FS_RemoveElement
  <2> QED BY <2>2, <2>4, <2>3, <2>6, <2>8, <2>9, <2>10
<1>3. \/ q = <<>> /\ \A i \in 1 .. Len(p) : ~HasWork(p[i])
      \/ \E i \in 1 .. Len(p) :
           HasWork(p[i]) /\ (\A j \in i + 1 .. Len(p) : ~HasWork(p[j])) /\ q = MovedOn(p, i)
  BY NextAltIs
<1>4. CASE \E i \in 1 .. Len(p) :
             HasWork(p[i]) /\ (\A j \in i + 1 .. Len(p) : ~HasWork(p[j])) /\ q = MovedOn(p, i)
  <2>1. PICK i \in 1 .. Len(p) :
             HasWork(p[i]) /\ (\A j \in i + 1 .. Len(p) : ~HasWork(p[j])) /\ q = MovedOn(p, i)
    BY <1>4
  <2>2. q = [SubSeq(p, 1, i) EXCEPT ![i].alt = @ + 1]
    BY <2>1 DEF MovedOn
  <2>3. q # <<>>
    BY <1>0, <2>2
  <2> QED BY <2>1, <2>2, <2>3, <1>2
<1> QED BY <1>1, <1>3, <1>4

(* unwinding to a position *)
From(p, n) == {j \in OpenEdges(p) : j >= n}
LEMMA UnwindCount ==
  ASSUME NEW EdgeType, NEW p \in Seq(EdgeType), NEW n \in 0 .. Len(p), NEW q, q = SubSeq(p, 1, n)
  PROVE  /\ \A j : j \in OpenEdges(q) <=> j \in OpenEdges(p) /\ j <= n
         /\ Cardinality(OpenEdges(q)) = Cardinality(OpenEdges(p)) - Cardinality(From(p, n + 1))
<1>1. Len(p) \in Nat /\ n \in Nat
  OBVIOUS
<1>2. q \in Seq(EdgeType) /\ Len(q) = n /\ \A j \in 1 .. n : q[j] = p[j]
  BY <1>1
<1>3. /\ OpenEdges(p) = {i \in 1 .. Len(p) : HasWork(p[i])} /\ IsFiniteSet(OpenEdges(p))
      /\ OpenEdges(q) = {i \in 1 .. n : HasWork(q[i])}
  BY <1>1, <1>2, OpenFinite
<1>4. OpenEdges(q) = {j \in OpenEdges(p) : j <= n}
  BY <1>1, <1>2, <1>3
<1> DEFINE T == From(p, n + 1)
<1>5. OpenEdges(q) = OpenEdges(p) \ T
  BY <1>1, <1>3, <1>4 DEF From
<1>6. T \subseteq OpenEdges(p) /\ IsFiniteSet(T)
  BY <1>3, FS_Subset DEF From
<1>7. OpenEdges(p) \cap T = T
  BY <1>6
<1> HIDE DEF T
<1>8. Cardinality(OpenEdges(p) \ T) = Cardinality(OpenEdges(p)) - Cardinality(OpenEdges(p) \cap T)
  BY <1>3, <1>6, FS_Difference
<1> QED BY <1>4, <1>5, <1>7, <1>8 DEF T

LEMMA UnwindOK ==
  ASSUME NEW Node, NEW Alternatives, NEW EdgeType,
         PathAssumption(Node, Alternatives, EdgeType),
         NEW ng \in Nat, NEW p, ShapeOK(Alternatives, EdgeType, p, ng), NEW n \in 0 .. Len(p),
         NEW q, q = SubSeq(p, 1, n)
  PROVE  /\ ShapeOK(Alternatives, EdgeType, q, ng) /\ Len(q) = n /\ \A j \in 1 .. n : q[j] = p[j]
         /\ Cardinality(OpenEdges(q)) =
              Cardinality(OpenEdges(p)) - Cardinality(From(p, n + 1))
<1>1. p \in Seq(EdgeType) /\ Len(p) \in Nat /\ n \in Nat
  BY DEF ShapeOK
<1>2. q \in Seq(EdgeType) /\ Len(q) = n
  BY <1>1
<1>3. \A j \in 1 .. n : q[j] = p[j]
  BY <1>1
<1>4. \A j \in 1 .. n : HasCopy(p, j) => HasCopy(q, j)
  <2>1. \A j \in 1 .. n : \A l \in 1 .. j : l \in 1 .. n
    BY <1>1
  <2> QED BY <1>3, <2>1 DEF HasCopy
<1>5. \A j \in 1 .. Len(q) :
        /\ q[j].node = p[j].node /\ EdgeOK(Alternatives, EdgeType, q[j])
        /\ j < Len(q) => q[j].alt = p[j].alt
        /\ LAO(q[j]) => j = Len(q) /\ j > ng
        /\ Straight(q, ng, j) => Straight(p, ng, j)
        /\ HasWork(q[j]) => HasCopy(q, j)
  <2> TAKE j \in 1 .. Len(q)
  <2>1. j \in 1 .. n /\ j \in 1 .. Len(p) /\ q[j] = p[j]
    BY <1>1, <1>2, <1>3
  <2>2. EdgeOK(Alternatives, EdgeType, p[j]) /\ (LAO(p[j]) => j = Len(p) /\ j > ng) /\ (HasWork(p[j]) => HasCopy(p, j))
    BY <2>1 DEF ShapeOK, EdgesOK, CopiesOK
  <2> QED BY <1>1, <1>2, <1>4, <2>1, <2>2 DEF Straight
<1>6. ShapeOK(Alternatives, EdgeType, q, ng)
  <2>1. Len(q) <= Len(p)
    BY <1>1, <1>2
  <2> QED BY <1>2, <1>5, <2>1, Derived
<1> QED BY <1>1, <1>2, <1>3, <1>6, UnwindCount

(* How the path, the current space c and the distance k of a worker belong together:
   the path points to the current space or to the next one, and where a clone will be
   looked for there is one. *)
PointsOK(p, c, k) ==
  /\ c # NoSpace /\ p # <<>> =>
       /\ c = Child(Last(p).node, IF LAO(Last(p)) THEN Last(p).altMax ELSE Last(p).alt)
       /\ LAO(Last(p)) => k = 0
  /\ c # NoSpace /\ k # 0 => HasCopy(p, Len(p))
  /\ c = NoSpace /\ p # <<>> => HasCopy(p, Len(p)) /\ ~LAO(Last(p))

LEMMA AppendIs ==
  ASSUME NEW f \in Seq(Nat), NEW a \in Nat
  PROVE  /\ Append(f, a) \in Seq(Nat) /\ Len(Append(f, a)) = Len(f) + 1
         /\ Append(f, a)[Len(f) + 1] = a
         /\ \A k \in 1 .. Len(f) : Append(f, a)[k] = f[k]
BY ChildIs DEF Child

LEMMA ConcatIs ==
  ASSUME NEW x \in Seq(Nat), NEW f \in Seq(Nat)
  PROVE  /\ x \o f \in Seq(Nat) /\ Len(x \o f) = Len(x) + Len(f)
         /\ Len(x) \in Nat /\ Len(f) \in Nat
         /\ \A k \in 1 .. Len(x) + Len(f) : (x \o f)[k] = IF k <= Len(x) THEN x[k] ELSE f[k - Len(x)]
OBVIOUS

LEMMA AppendConcat ==
  ASSUME NEW x \in Seq(Nat), NEW f \in Seq(Nat), NEW a \in Nat
  PROVE  Append(x \o f, a) = x \o Append(f, a)
<1> DEFINE g == Append(f, a)
           l == Append(x \o f, a)
           r == x \o g
<1>1. /\ g \in Seq(Nat) /\ Len(g) = Len(f) + 1 /\ g[Len(f) + 1] = a
      /\ \A k \in 1 .. Len(f) : g[k] = f[k]
  BY AppendIs
<1> HIDE DEF g
<1>2. /\ x \o f \in Seq(Nat) /\ Len(x \o f) = Len(x) + Len(f)
      /\ Len(x) \in Nat /\ Len(f) \in Nat
      /\ \A k \in 1 .. Len(x) + Len(f) : (x \o f)[k] = IF k <= Len(x) THEN x[k] ELSE f[k - Len(x)]
  BY ConcatIs
<1>3. /\ l \in Seq(Nat) /\ Len(l) = Len(x) + Len(f) + 1 /\ l[Len(x) + Len(f) + 1] = a
      /\ \A k \in 1 .. Len(x) + Len(f) : l[k] = (x \o f)[k]
  BY <1>2, AppendIs
<1>4. /\ r \in Seq(Nat) /\ Len(r) = Len(x) + Len(g)
      /\ \A k \in 1 .. Len(x) + Len(g) : r[k] = IF k <= Len(x) THEN x[k] ELSE g[k - Len(x)]
  BY <1>1, ConcatIs
<1> HIDE DEF l, r
<1>0. Len(l) = Len(r) /\ Len(l) = Len(x) + Len(f) + 1
  BY <1>1, <1>2, <1>3, <1>4
<1>5. \A k \in 1 .. Len(l) : l[k] = r[k]
  <2> TAKE k \in 1 .. Len(l)
  <2>1. CASE k = Len(x) + Len(f) + 1
    <3>1. k - Len(x) = Len(f) + 1 /\ k \in 1 .. Len(x) + Len(g) /\ ~(k <= Len(x))
      BY <2>1, <1>1, <1>2
    <3> QED BY <2>1, <3>1, <1>1, <1>3, <1>4
  <2>2. CASE k \in 1 .. Len(x) + Len(f)
    <3>1. k \in 1 .. Len(x) + Len(g) /\ (~(k <= Len(x)) => k - Len(x) \in 1 .. Len(f))
      BY <2>2, <1>1, <1>2
    <3> QED BY <2>2, <3>1, <1>1, <1>2, <1>3, <1>4
  <2>3. k = Len(x) + Len(f) + 1 \/ k \in 1 .. Len(x) + Len(f)
    <3>1. Len(x) \in Nat /\ Len(f) \in Nat
      OBVIOUS
    <3> QED BY <3>1, <1>0
  <2> QED BY <2>1, <2>2, <2>3
<1>6. l = r
  BY <1>0, <1>3, <1>4, <1>5, SeqSame
<1> QED BY <1>6 DEF l, r, g

(* a node pushed on a path that is free of a reused edge at its top *)
LEMMA AppendOK ==
  ASSUME NEW Node, NEW Alternatives, NEW EdgeType,
         PathAssumption(Node, Alternatives, EdgeType),
         NEW ng \in Nat, NEW b, ShapeOK(Alternatives, EdgeType, b, ng), \A j \in 1 .. Len(b) : ~LAO(b[j]),
         NEW n \in Node, Alternatives[n] > 0, NEW copy \in {n, NoSpace},
         \A i \in 1 .. Len(b) : Below(Child(b[i].node, b[i].alt), n),
         (copy = NoSpace \/ Len(b) + 1 <= ng) /\ Len(b) > 0 =>
           n = Child(b[Len(b)].node, b[Len(b)].alt),
         copy = NoSpace => HasCopy(b, Len(b)),
         NEW e \in EdgeType, e.node = n, e.space = copy, e.alt = 0,
         e.altMax = Alternatives[n] - 1, e.alternatives = Alternatives[n]
  PROVE  LET q == Append(b, e)
         IN  /\ ShapeOK(Alternatives, EdgeType, q, ng) /\ Len(q) = Len(b) + 1 /\ HasCopy(q, Len(q)) /\ Last(q) = e
             /\ Pending(q) = Pending(b) \cup {Child(n, a) : a \in 1 .. Alternatives[n] - 1}
             /\ Cardinality(OpenEdges(q)) =
                  IF HasWork(e) THEN Cardinality(OpenEdges(b)) + 1 ELSE Cardinality(OpenEdges(b))
<1> DEFINE q == Append(b, e)
           m == Len(b) + 1
<1>1. /\ b \in Seq(EdgeType) /\ Len(b) \in Nat /\ m \in Nat /\ m = Len(b) + 1 /\ m > 0
      /\ Alternatives[n] \in Nat
  BY TreeIs DEF ShapeOK
<1>2. /\ e \in EdgeType /\ EdgeOK(Alternatives, EdgeType, e) /\ ~LAO(e)
      /\ e.node = n /\ e.space = copy /\ e.alt = 0 /\ e.altMax = Alternatives[n] - 1
  BY <1>1 DEF EdgeOK, LAO
<1>3. /\ q \in Seq(EdgeType) /\ Len(q) = m /\ q[m] = e
      /\ \A j \in 1 .. Len(b) : q[j] = b[j]
      /\ Last(q) = e
  BY <1>1, <1>2 DEF Last
<1> HIDE DEF q, m
<1>4. \A j \in 1 .. m : j = m \/ j \in 1 .. Len(b)
  BY <1>1
<1>5. EdgesOK(Alternatives, EdgeType, q, ng)
  <2>1. \A j \in 1 .. Len(b) : EdgeOK(Alternatives, EdgeType, b[j])
    BY DEF ShapeOK, EdgesOK
  <2> QED BY <1>2, <1>3, <1>4, <2>1 DEF EdgesOK
<1>6. \A j \in 1 .. Len(b) : HasCopy(b, j) => HasCopy(q, j) /\ HasCopy(q, m)
  <2> SUFFICES ASSUME NEW j \in 1 .. Len(b), HasCopy(b, j) PROVE HasCopy(q, j) /\ HasCopy(q, m)
    OBVIOUS
  <2>1. PICK l \in 1 .. j : b[l].space # NoSpace
    BY DEF HasCopy
  <2>2. l \in 1 .. Len(b) /\ l \in 1 .. m
    BY <1>1
  <2>3. q[l].space # NoSpace
    BY <2>1, <2>2, <1>3
  <2> QED BY <2>1, <2>2, <2>3 DEF HasCopy
<1>7. HasCopy(q, m)
  <2>1. CASE copy = NoSpace
    <3>1. HasCopy(b, Len(b)) /\ Len(b) \in 1 .. Len(b)
      <4>1. HasCopy(b, Len(b))
        BY <2>1
      <4> QED BY <4>1, <1>1 DEF HasCopy
    <3> QED BY <3>1, <1>6
  <2>2. CASE copy # NoSpace
    BY <2>2, <1>1, <1>2, <1>3 DEF HasCopy
  <2> QED BY <2>1, <2>2
<1>8. CopiesOK(q)
  <2> SUFFICES ASSUME NEW j \in 1 .. m, HasWork(q[j]) PROVE HasCopy(q, j)
    BY <1>3 DEF CopiesOK
  <2>1. CASE j = m
    BY <2>1, <1>7
  <2>2. CASE j \in 1 .. Len(b)
    BY <2>2, <1>3, <1>6 DEF ShapeOK, CopiesOK
  <2> QED BY <2>1, <2>2, <1>4
<1>9. BelowOK(q)
  <2> SUFFICES ASSUME NEW i \in 1 .. m, NEW j \in 1 .. m, i < j
               PROVE  Below(Child(q[i].node, q[i].alt), q[j].node)
    BY <1>3 DEF BelowOK
  <2>1. i \in 1 .. Len(b) /\ q[i] = b[i]
    BY <1>1, <1>3, <1>4
  <2>2. CASE j = m
    BY <2>1, <2>2, <1>2, <1>3
  <2>3. CASE j \in 1 .. Len(b)
    BY <2>1, <2>3, <1>3 DEF ShapeOK, BelowOK
  <2> QED BY <2>2, <2>3, <1>4
<1>10. TurnsOK(q, ng)
  <2> SUFFICES ASSUME NEW i \in 1 .. m, NEW j \in 1 .. m, i <= j,
                      \A k \in i + 1 .. j : Straight(q, ng, k)
               PROVE  q[j].node = q[i].node \o Turns(q, i, j)
    BY <1>3 DEF TurnsOK
  <2>1. CASE i = j
    <3>1. Turns(q, i, j) = <<>>
      BY <2>1, <1>1 DEF Turns
    <3>2. q[i].node \in Seq(Nat)
      BY <1>3, EdgeTyped, NodeSeq
    <3> QED BY <2>1, <3>1, <3>2
  <2>2. CASE j \in 1 .. Len(b)
    <3>1. i \in 1 .. Len(b)
      BY <2>2, <1>1
    <3>2. \A k \in i + 1 .. j : Straight(b, ng, k)
      <4> TAKE k \in i + 1 .. j
      <4>1. k \in 1 .. Len(b)
        BY <2>2, <1>1
      <4> QED BY <4>1, <1>3 DEF Straight
    <3>3. b[j].node = b[i].node \o Turns(b, i, j)
      BY <2>2, <3>1, <3>2 DEF ShapeOK, TurnsOK
    <3>4. Turns(b, i, j) = Turns(q, i, j)
      <4>1. \A k \in 1 .. j - i : q[i + k - 1] = b[i + k - 1]
        <5> TAKE k \in 1 .. j - i
        <5>1. i + k - 1 \in 1 .. Len(b)
          BY <2>2, <1>1
        <5> QED BY <5>1, <1>3
      <4> QED BY <4>1 DEF Turns
    <3> QED BY <2>2, <3>1, <3>3, <3>4, <1>3
  <2>3. CASE j = m /\ i # m
    <3> DEFINE o == Len(b)
    <3>1. i \in 1 .. o /\ o \in 1 .. o /\ o \in Nat /\ i <= o /\ m = o + 1
      BY <2>3, <1>1
    <3>2. Straight(q, ng, m)
      BY <2>3, <3>1
    <3>3. n = Child(b[o].node, b[o].alt)
      <4>1. copy = NoSpace \/ m <= ng
        BY <3>2, <1>2, <1>3 DEF Straight
      <4> QED BY <4>1, <3>1
    <3>4. \A k \in i + 1 .. o : Straight(b, ng, k)
      <4> TAKE k \in i + 1 .. o
      <4>1. k \in 1 .. o /\ k \in i + 1 .. j
        BY <2>3, <3>1
      <4> QED BY <4>1, <1>3 DEF Straight
    <3>5. b[o].node = b[i].node \o Turns(b, i, o)
      BY <3>1, <3>4 DEF ShapeOK, TurnsOK
    <3>6. /\ b[i].node \in Seq(Nat) /\ b[o].alt \in Nat /\ q[j].node = n /\ q[i] = b[i]
          /\ \A k \in i .. o : q[k] = b[k] /\ b[k].alt \in Nat
      <4>1. b[i].node \in Seq(Nat) /\ \A k \in i .. o : b[k].alt \in Nat
        BY <3>1, <1>1, EdgeTyped, NodeSeq
      <4>2. \A k \in i .. o : q[k] = b[k]
        BY <3>1, <1>3
      <4> QED BY <4>1, <4>2, <3>1, <2>3, <1>2, <1>3
    <3>7. \A k \in 1 .. m - i : i + k - 1 \in i .. o
      BY <3>1
    <3>8. Turns(b, i, o) \in Seq(Nat) /\ Len(Turns(b, i, o)) = o - i
      <4>1. \A k \in 1 .. o - i : b[i + k - 1].alt \in Nat
        BY <3>1, <3>6, <3>7
      <4> QED BY <4>1, <3>1 DEF Turns
    <3>9. Turns(q, i, m) = Append(Turns(b, i, o), b[o].alt)
      <4> DEFINE f == Turns(b, i, o)
                 g == Append(f, b[o].alt)
      <4>1. g \in Seq(Nat) /\ Len(g) = m - i /\ g[m - i] = b[o].alt /\ (\A k \in 1 .. o - i : g[k] = f[k])
        <5>1. f \in Seq(Nat) /\ Len(f) = o - i /\ b[o].alt \in Nat /\ (o - i) + 1 = m - i
          BY <3>1, <3>6, <3>8
        <5> HIDE DEF f
        <5> QED BY <5>1, AppendIs
      <4>2. \A k \in 1 .. m - i : g[k] = q[i + k - 1].alt
        <5> TAKE k \in 1 .. m - i
        <5>1. CASE k = m - i
          <6>1. i + k - 1 = o /\ o \in i .. o
            BY <5>1, <3>1
          <6> QED BY <5>1, <6>1, <4>1, <3>6
        <5>2. CASE k # m - i
          <6>1. k \in 1 .. o - i
            BY <5>2, <3>1
          <6>2. f[k] = b[i + k - 1].alt
            BY <6>1 DEF Turns
          <6> QED BY <6>1, <6>2, <4>1, <3>6, <3>7
        <5> QED BY <5>1, <5>2
      <4> HIDE DEF g
      <4>3. g = [k \in 1 .. m - i |-> g[k]]
        BY <4>1
      <4>4. g = Turns(q, i, m)
        BY <4>2, <4>3 DEF Turns
      <4> QED BY <4>4 DEF g
    <3>10. Append(b[i].node \o Turns(b, i, o), b[o].alt) = b[i].node \o Append(Turns(b, i, o), b[o].alt)
      <4> DEFINE x == b[i].node
                 f == Turns(b, i, o)
      <4>1. x \in Seq(Nat) /\ f \in Seq(Nat) /\ b[o].alt \in Nat
        BY <3>6, <3>8
      <4> HIDE DEF x, f
      <4>2. Append(x \o f, b[o].alt) = x \o Append(f, b[o].alt)
        BY <4>1, AppendConcat
      <4> QED BY <4>2 DEF x, f
    <3> QED BY <2>3, <3>3, <3>5, <3>6, <3>9, <3>10 DEF Child
  <2> QED BY <2>1, <2>2, <2>3, <1>4
<1>11. ShapeOK(Alternatives, EdgeType, q, ng)
  BY <1>3, <1>5, <1>8, <1>9, <1>10 DEF ShapeOK
<1>12. Pending(q) = Pending(b) \cup {Child(n, a) : a \in 1 .. Alternatives[n] - 1}
  <2>1. \A x : x \in Pending(q) <=>
               \E i \in 1 .. m : \E a \in q[i].alt + 1 .. q[i].altMax : x = Child(q[i].node, a)
    BY <1>3, PendingIs
  <2>2. \A x : x \in Pending(b) <=>
               \E i \in 1 .. Len(b) : \E a \in b[i].alt + 1 .. b[i].altMax : x = Child(b[i].node, a)
    BY <1>1, PendingIs
  <2>3. \A i \in 1 .. Len(b) : i \in 1 .. m
    BY <1>1
  <2>4. m \in 1 .. m
    BY <1>1
  <2>5. e.alt + 1 .. e.altMax = 1 .. Alternatives[n] - 1
    BY <1>2
  <2>6. ASSUME NEW x, x \in Pending(q)
        PROVE  x \in Pending(b) \cup {Child(n, a) : a \in 1 .. Alternatives[n] - 1}
    <3>1. PICK i \in 1 .. m : \E a \in q[i].alt + 1 .. q[i].altMax : x = Child(q[i].node, a)
      BY <2>1, <2>6
    <3>2. CASE i = m
      BY <3>1, <3>2, <1>2, <1>3, <2>5
    <3>3. CASE i \in 1 .. Len(b)
      BY <3>1, <3>3, <1>3, <2>2
    <3> QED BY <3>2, <3>3, <1>4
  <2>7. ASSUME NEW x, x \in Pending(b) PROVE x \in Pending(q)
    BY <2>7, <2>1, <2>2, <2>3, <1>3
  <2>8. ASSUME NEW a \in 1 .. Alternatives[n] - 1 PROVE Child(n, a) \in Pending(q)
    BY <2>1, <2>4, <2>5, <1>2, <1>3
  <2> QED BY <2>6, <2>7, <2>8
<1>13. Cardinality(OpenEdges(q)) =
         IF HasWork(e) THEN Cardinality(OpenEdges(b)) + 1 ELSE Cardinality(OpenEdges(b))
  <2>1. /\ OpenEdges(q) = {i \in 1 .. m : HasWork(q[i])}
        /\ OpenEdges(b) = {i \in 1 .. Len(b) : HasWork(b[i])} /\ IsFiniteSet(OpenEdges(b))
    BY <1>1, <1>3, OpenFinite
  <2>2. OpenEdges(q) = IF HasWork(e) THEN OpenEdges(b) \cup {m} ELSE OpenEdges(b)
    BY <2>1, <1>1, <1>3
  <2>3. m \notin OpenEdges(b)
    BY <2>1, <1>1
  <2>4. Cardinality(OpenEdges(b) \cup {m}) = Cardinality(OpenEdges(b)) + 1
    BY <2>1, <2>3, FS_AddElement
  <2> QED BY <2>2, <2>4
<1> QED BY <1>3, <1>7, <1>11, <1>12, <1>13 DEF q, m

(* BRANCH: where the node goes on the path *)
LEMMA PushOK ==
  ASSUME NEW Node, NEW Alternatives, NEW EdgeType,
         PathAssumption(Node, Alternatives, EdgeType),
         NEW ng \in Nat, NEW p, ShapeOK(Alternatives, EdgeType, p, ng), NEW n \in Node, NEW k \in Nat,
         PointsOK(p, n, k), Alternatives[n] > 0,
         NEW copy \in {n, NoSpace}, copy = NoSpace => k # 0,
         NEW e \in EdgeType, e.node = n, e.space = copy, e.alt = 0,
         e.altMax = Alternatives[n] - 1, e.alternatives = Alternatives[n]
  PROVE  LET q == Push(p, e)
         IN  /\ ShapeOK(Alternatives, EdgeType, q, ng) /\ q # <<>> /\ HasCopy(q, Len(q)) /\ Last(q) = e
             /\ Pending(q) = Pending(p) \cup {Child(n, a) : a \in 1 .. Alternatives[n] - 1}
             /\ Cardinality(OpenEdges(q)) =
                  IF HasWork(e) THEN Cardinality(OpenEdges(p)) + 1 ELSE Cardinality(OpenEdges(p))
<1> DEFINE b == IF p # <<>> /\ LAO(Last(p)) THEN Front(p) ELSE p
<1>1. p \in Seq(EdgeType) /\ Len(p) \in Nat /\ n # NoSpace
  BY NodeSeq DEF ShapeOK
<1>2. /\ ShapeOK(Alternatives, EdgeType, b, ng) /\ \A j \in 1 .. Len(b) : ~LAO(b[j])
      /\ \A i \in 1 .. Len(b) : Below(Child(b[i].node, b[i].alt), n)
      /\ (copy = NoSpace \/ Len(b) + 1 <= ng) /\ Len(b) > 0 =>
           n = Child(b[Len(b)].node, b[Len(b)].alt)
      /\ copy = NoSpace => HasCopy(b, Len(b))
      /\ Pending(b) = Pending(p) /\ Cardinality(OpenEdges(b)) = Cardinality(OpenEdges(p))
  <2>1. CASE p = <<>>
    <3>1. b = <<>> /\ Len(b) = 0
      BY <2>1
    <3>2. copy = NoSpace => HasCopy(b, Len(b))
      BY <2>1, <1>1 DEF PointsOK
    <3>3. \A j \in 1 .. 0 : FALSE
      OBVIOUS
    <3> QED BY <2>1, <3>1, <3>2, <3>3
  <2>2. CASE p # <<>> /\ LAO(Last(p))
    <3> DEFINE o == Len(p)
    <3>0. PICK r \in 0 .. o : r = o - 1
      <4>1. o # 0 /\ o \in Nat
        BY <1>1, <2>2
      <4>2. o - 1 \in 0 .. o
        BY <4>1
      <4> QED BY <4>2
    <3>1. o \in 1 .. o /\ o \in Nat /\ r \in Nat /\ Last(p) = p[o] /\ r + 1 = o
      BY <1>1, <2>2, <3>0 DEF Last
    <3>2. b = SubSeq(p, 1, r)
      BY <2>2, <3>0 DEF Front
    <3> HIDE DEF b
    <3>3. ShapeOK(Alternatives, EdgeType, b, ng) /\ Len(b) = r /\ \A j \in 1 .. r : b[j] = p[j]
      <4> HIDE DEF o
      <4>1. r \in 0 .. Len(p) /\ ng \in Nat /\ ShapeOK(Alternatives, EdgeType, p, ng)
        BY <3>0 DEF o
      <4>2. ShapeOK(Alternatives, EdgeType, b, ng)
        BY <4>1, <3>2, UnwindOK
      <4>3. Len(b) = r 
        BY <4>1, <3>2, UnwindOK
      <4>4. \A j \in 1 .. r : b[j] = p[j]
        BY <4>1, <3>2, UnwindOK
      <4> QED BY <4>2, <4>3, <4>4
    <3>4. EdgeOK(Alternatives, EdgeType, p[o]) /\ o > ng /\ \A j \in 1 .. r : ~LAO(p[j])
      <4>1. \A j \in 1 .. r : j \in 1 .. o /\ j # o
        BY <3>1
      <4> QED BY <2>2, <3>1, <4>1 DEF ShapeOK, EdgesOK
    <3>5. /\ n = Child(p[o].node, p[o].altMax) /\ k = 0 /\ copy = n
          /\ p[o].node \in Node /\ p[o].altMax \in Nat
      BY <1>1, <2>2, <3>1, <3>4, EdgeChild DEF PointsOK
    <3>6. \A i \in 1 .. r : Below(Child(b[i].node, b[i].alt), n)
      <4> TAKE i \in 1 .. r
      <4>1. i \in 1 .. o /\ i < o /\ b[i] = p[i]
        BY <3>1, <3>3
      <4>2. Below(Child(p[i].node, p[i].alt), p[o].node)
        BY <3>1, <4>1 DEF ShapeOK, BelowOK
      <4>3. Child(p[i].node, p[i].alt) \in Node
        BY <3>4, <4>1, EdgeChild DEF ShapeOK, EdgesOK
      <4>4. Below(p[o].node, n)
        BY <3>5, Children
      <4> QED BY <4>1, <4>2, <4>3, <4>4, <3>5, BelowOrder
    <3>7. Pending(b) = Pending(p)
      <4>1. b \in Seq(EdgeType) /\ \A i \in 1 .. r : i \in 1 .. o
        BY <3>1, <3>3 DEF ShapeOK
      <4>2. \A x : x \in Pending(b) <=>
                   \E i \in 1 .. r : \E a \in b[i].alt + 1 .. b[i].altMax : x = Child(b[i].node, a)
        BY <4>1, <3>3, PendingIs
      <4>3. \A x : x \in Pending(p) <=>
                   \E i \in 1 .. o : \E a \in p[i].alt + 1 .. p[i].altMax : x = Child(p[i].node, a)
        BY <1>1, PendingIs
      <4>4. p[o].alt + 1 .. p[o].altMax = {}
        BY <2>2, <3>1, <1>1, EdgeTyped DEF LAO
      <4>5. \A i \in 1 .. o : i = o \/ i \in 1 .. r
        BY <3>1
      <4>6. \A x : x \in Pending(b) <=> x \in Pending(p)
        BY <4>1, <4>2, <4>3, <4>4, <4>5, <3>3
      <4> QED BY <4>6
    <3>8. OpenEdges(b) = OpenEdges(p)
      <4>1. \A j : j \in OpenEdges(b) <=> j \in OpenEdges(p) /\ j <= r
        <5> HIDE DEF o
        <5>1. r \in 0 .. Len(p) /\ ng \in Nat /\ ShapeOK(Alternatives, EdgeType, p, ng)
          BY <3>0 DEF o
        <5>2. \A q : q = SubSeq(p, 1, r) =>
                 \A j : j \in OpenEdges(q) <=> j \in OpenEdges(p) /\ j <= r
          BY <5>1, UnwindCount DEF ShapeOK
        <5> QED BY <5>2, <3>2
      <4>2. ~HasWork(p[o])
        BY <2>2, <3>1, <1>1, EdgeTyped DEF LAO, HasWork
      <4>3. OpenEdges(p) = {j \in 1 .. o : HasWork(p[j])}
        BY <1>1, OpenFinite
      <4>4. \A j \in OpenEdges(p) : j <= r
        BY <3>1, <4>2, <4>3
      <4> QED BY <4>1, <4>4
    <3>9. ~(copy = NoSpace) /\ ~(r + 1 <= ng)
      BY <1>1, <3>1, <3>4, <3>5
    <3> QED BY <3>3, <3>4, <3>6, <3>7, <3>8, <3>9
  <2>3. CASE p # <<>> /\ ~LAO(Last(p))
    <3> DEFINE o == Len(p)
    <3>1. b = p /\ o \in 1 .. o /\ Last(p) = p[o] /\ o \in Nat
      BY <1>1, <2>3 DEF Last
    <3>2. \A j \in 1 .. o : EdgeOK(Alternatives, EdgeType, p[j]) /\ ~LAO(p[j])
      BY <2>3, <3>1 DEF ShapeOK, EdgesOK
    <3>3. n = Child(p[o].node, p[o].alt)
      BY <1>1, <2>3, <3>1 DEF PointsOK
    <3>4. \A i \in 1 .. o : Below(Child(p[i].node, p[i].alt), n)
      <4> TAKE i \in 1 .. o
      <4>1. CASE i = o
        BY <4>1, <3>3, BelowOrder
      <4>2. CASE i # o
        <5>1. i < o
          BY <4>2, <3>1
        <5>2. Below(Child(p[i].node, p[i].alt), p[o].node)
          BY <5>1, <3>1 DEF ShapeOK, BelowOK
        <5>3. Child(p[i].node, p[i].alt) \in Node /\ p[o].node \in Node /\ p[o].alt \in Nat
          BY <3>1, <3>2, EdgeChild
        <5>4. Below(p[o].node, n)
          BY <3>3, <5>3, Children
        <5> QED BY <5>2, <5>3, <5>4, BelowOrder
      <4> QED BY <4>1, <4>2
    <3>5. copy = NoSpace => HasCopy(p, o)
      BY <1>1 DEF PointsOK
    <3> QED BY <3>1, <3>2, <3>3, <3>4, <3>5
  <2> QED BY <2>1, <2>2, <2>3
<1> HIDE DEF b
<1>3. /\ ShapeOK(Alternatives, EdgeType, Append(b, e), ng) /\ Len(Append(b, e)) = Len(b) + 1
      /\ HasCopy(Append(b, e), Len(Append(b, e))) /\ Last(Append(b, e)) = e
      /\ Pending(Append(b, e)) = Pending(b) \cup {Child(n, a) : a \in 1 .. Alternatives[n] - 1}
      /\ Cardinality(OpenEdges(Append(b, e))) =
           IF HasWork(e) THEN Cardinality(OpenEdges(b)) + 1 ELSE Cardinality(OpenEdges(b))
  BY <1>2, AppendOK
<1>4. Push(p, e) = Append(b, e)
  BY DEF Push, b
<1>5. Append(b, e) # <<>>
  <2>1. b \in Seq(EdgeType)
    BY <1>2 DEF ShapeOK
  <2> QED BY <2>1
<1> QED BY <1>2, <1>3, <1>4, <1>5

LEMMA UpdateIs ==
  ASSUME NEW Node, NEW Alternatives, NEW EdgeType,
         PathAssumption(Node, Alternatives, EdgeType),
         NEW p \in Seq(EdgeType), NEW i \in 1 .. Len(p), NEW f \in EdgeType,
         NEW q, q = [p EXCEPT ![i] = f]
  PROVE  /\ q \in Seq(EdgeType) /\ Len(q) = Len(p) /\ q[i] = f
         /\ \A j \in 1 .. Len(p) : j # i => q[j] = p[j]
OBVIOUS

(* one edge of a path is replaced by one of the same node *)
LEMMA ReplaceOK ==
  ASSUME NEW Node, NEW Alternatives, NEW EdgeType,
         PathAssumption(Node, Alternatives, EdgeType),
         NEW ng \in Nat, NEW m \in Nat, m <= ng, NEW p, ShapeOK(Alternatives, EdgeType, p, ng),
         NEW i \in 1 .. Len(p), NEW f, EdgeOK(Alternatives, EdgeType, f), f.node = p[i].node,
         i < Len(p) => f.alt = p[i].alt,
         LAO(f) => i = Len(p) /\ i > m,
         f.space = NoSpace /\ ~LAO(f) => i <= ng \/ (p[i].space = NoSpace /\ ~LAO(p[i])),
         HasWork(f) => HasWork(p[i]),
         f.space = NoSpace /\ p[i].space # NoSpace => i = Len(p) /\ ~HasWork(f),
         NEW q \in Seq(EdgeType), Len(q) = Len(p), q[i] = f,
         \A j \in 1 .. Len(p) : j # i => q[j] = p[j]
  PROVE  /\ ShapeOK(Alternatives, EdgeType, q, m) /\ q # <<>>
         /\ Cardinality(OpenEdges(q)) =
              IF HasWork(p[i]) /\ ~HasWork(f)
              THEN Cardinality(OpenEdges(p)) - 1 ELSE Cardinality(OpenEdges(p))
<1>1. p \in Seq(EdgeType) /\ Len(p) \in Nat /\ f \in EdgeType
  BY DEF ShapeOK, EdgeOK
<1>2. q \in Seq(EdgeType) /\ Len(q) = Len(p) /\ q[i] = f
  OBVIOUS
<1>3. \A j \in 1 .. Len(p) : j # i => q[j] = p[j]
  OBVIOUS
<1>4. q # <<>>
  <2>1. Len(q) # 0
    BY <1>1, <1>2
  <2> QED BY <2>1
<1>5. \A j \in 1 .. Len(q) : HasWork(q[j]) => HasCopy(q, j)
  <2> SUFFICES ASSUME NEW j \in 1 .. Len(q), HasWork(q[j]) PROVE HasCopy(q, j)
    OBVIOUS
  <2>1. j \in 1 .. Len(p) /\ HasWork(p[j])
    BY <1>2, <1>3
  <2>2. PICK l \in 1 .. j : p[l].space # NoSpace
    BY <2>1 DEF ShapeOK, CopiesOK, HasCopy
  <2>3. l \in 1 .. Len(p) /\ (l = Len(p) => j = Len(p))
    BY <2>1, <1>1
  <2>4. q[l].space # NoSpace
    <3>1. CASE l # i
      BY <3>1, <2>2, <2>3, <1>3
    <3>2. CASE l = i
      <4>1. CASE f.space = NoSpace
        <5>1. i = Len(p) /\ ~HasWork(f) /\ j = i
          BY <3>2, <4>1, <2>2, <2>3
        <5> QED BY <5>1, <1>2
      <4> QED BY <4>1, <3>2, <1>2
    <3> QED BY <3>1, <3>2
  <2> QED BY <2>2, <2>4 DEF HasCopy
<1>6. \A j \in 1 .. Len(q) :
        /\ q[j].node = p[j].node /\ EdgeOK(Alternatives, EdgeType, q[j])
        /\ j < Len(q) => q[j].alt = p[j].alt
        /\ LAO(q[j]) => j = Len(q) /\ j > m
        /\ Straight(q, m, j) => Straight(p, ng, j)
  <2> TAKE j \in 1 .. Len(q)
  <2>1. CASE j = i
    BY <2>1, <1>2, <1>1 DEF Straight
  <2>2. CASE j # i
    <3>1. j \in 1 .. Len(p) /\ q[j] = p[j]
      BY <2>2, <1>2, <1>3
    <3>2. EdgeOK(Alternatives, EdgeType, p[j]) /\ (LAO(p[j]) => j = Len(p) /\ j > ng)
      BY <3>1 DEF ShapeOK, EdgesOK
    <3> QED BY <3>1, <3>2, <1>1, <1>2 DEF Straight
  <2> QED BY <2>1, <2>2
<1>7. ShapeOK(Alternatives, EdgeType, q, m)
  <2>1. Len(q) <= Len(p)
    BY <1>1, <1>2
  <2> QED BY <1>2, <1>5, <1>6, <2>1, Derived
<1>8. Cardinality(OpenEdges(q)) =
        IF HasWork(p[i]) /\ ~HasWork(f)
        THEN Cardinality(OpenEdges(p)) - 1 ELSE Cardinality(OpenEdges(p))
  <2>1. /\ OpenEdges(p) = {j \in 1 .. Len(p) : HasWork(p[j])} /\ IsFiniteSet(OpenEdges(p))
        /\ OpenEdges(q) = {j \in 1 .. Len(p) : HasWork(q[j])}
    BY <1>1, <1>2, OpenFinite
  <2>2. CASE HasWork(p[i]) /\ ~HasWork(f)
    <3>1. OpenEdges(q) = OpenEdges(p) \ {i} /\ i \in OpenEdges(p)
      BY <2>1, <2>2, <1>2, <1>3
    <3> QED BY <2>1, <2>2, <3>1, FS_RemoveElement
  <2>3. CASE ~(HasWork(p[i]) /\ ~HasWork(f))
    <3>1. OpenEdges(q) = OpenEdges(p)
      BY <2>1, <2>3, <1>2, <1>3
    <3> QED BY <2>3, <3>1
  <2> QED BY <2>2, <2>3
<1> QED BY <1>4, <1>7, <1>8

(* the same alternatives are left to take *)
LEMMA SamePending ==
  ASSUME NEW Node, NEW Alternatives, NEW EdgeType,
         PathAssumption(Node, Alternatives, EdgeType),
         NEW p \in Seq(EdgeType), NEW q \in Seq(EdgeType), Len(q) = Len(p),
         \A j \in 1 .. Len(p) : /\ q[j].node = p[j].node
                                /\ q[j].alt + 1 .. q[j].altMax = p[j].alt + 1 .. p[j].altMax
  PROVE  Pending(q) = Pending(p)
<1>1. \A x : x \in Pending(q) <=>
             \E i \in 1 .. Len(p) : \E a \in q[i].alt + 1 .. q[i].altMax : x = Child(q[i].node, a)
  BY PendingIs
<1>2. \A x : x \in Pending(p) <=>
             \E i \in 1 .. Len(p) : \E a \in p[i].alt + 1 .. p[i].altMax : x = Child(p[i].node, a)
  BY PendingIs
<1>3. \A x : x \in Pending(p) <=> x \in Pending(q)
  BY <1>1, <1>2
<1> QED BY <1>3

(* a clone is left in the middle *)
Placed(p, i) == [p EXCEPT ![i].space = p[i].node]

LEMMA PlaceOK ==
  ASSUME NEW Node, NEW Alternatives, NEW EdgeType,
         PathAssumption(Node, Alternatives, EdgeType),
         NEW ng \in Nat, NEW p, ShapeOK(Alternatives, EdgeType, p, ng), NEW i \in 1 .. Len(p), ~LAO(p[i]),
         NEW q, q = Placed(p, i)
  PROVE  /\ ShapeOK(Alternatives, EdgeType, q, ng) /\ Len(q) = Len(p) /\ q # <<>>
         /\ Pending(q) = Pending(p) /\ Cardinality(OpenEdges(q)) = Cardinality(OpenEdges(p))
         /\ Last(q).node = Last(p).node /\ Last(q).alt = Last(p).alt /\ (LAO(Last(q)) <=> LAO(Last(p)))
         /\ HasCopy(q, Len(q))
<1> DEFINE e == p[i]
           f == [e EXCEPT !.space = e.node]
<1>1. /\ p \in Seq(EdgeType) /\ Len(p) \in Nat /\ EdgeOK(Alternatives, EdgeType, e) /\ e \in EdgeType
      /\ e.node \in Node /\ e.node # NoSpace
  BY EdgeTyped, NodeSeq DEF ShapeOK, EdgesOK
<1>2. /\ f \in EdgeType /\ f.node = e.node /\ f.space = e.node /\ f.alt = e.alt
      /\ f.altMax = e.altMax /\ f.alternatives = e.alternatives
  BY <1>1, CopyChanged
<1>3. q = [p EXCEPT ![i] = f]
  BY DEF Placed
<1> HIDE DEF f
<1>4. EdgeOK(Alternatives, EdgeType, f) /\ ~LAO(f) /\ (HasWork(f) <=> HasWork(e))
  BY <1>1, <1>2 DEF EdgeOK, LAO, HasWork
<1>5. /\ ShapeOK(Alternatives, EdgeType, q, ng) /\ Len(q) = Len(p) /\ q # <<>> /\ q[i] = f
      /\ \A j \in 1 .. Len(p) : j # i => q[j] = p[j]
      /\ Cardinality(OpenEdges(q)) = Cardinality(OpenEdges(p))
  <2>1. /\ q \in Seq(EdgeType) /\ Len(q) = Len(p) /\ q[i] = f
        /\ \A j \in 1 .. Len(p) : j # i => q[j] = p[j]
    BY <1>1, <1>2, <1>3, UpdateIs
  <2> HIDE DEF e
  <2>2. i < Len(p) => f.alt = p[i].alt
    BY <1>2 DEF e
  <2>3. /\ ng <= ng /\ f.node = p[i].node /\ (HasWork(f) <=> HasWork(p[i]))
        /\ f.space # NoSpace
    BY <1>1, <1>2, <1>4 DEF e
  <2>4. ShapeOK(Alternatives, EdgeType, q, ng) /\ q # <<>> /\ Cardinality(OpenEdges(q)) = Cardinality(OpenEdges(p))
    <3>1. \A r \in Seq(EdgeType) :
            /\ Len(r) = Len(p) /\ r[i] = f
            /\ \A j \in 1 .. Len(p) : j # i => r[j] = p[j]
            => ShapeOK(Alternatives, EdgeType, r, ng) /\ r # <<>> /\ Cardinality(OpenEdges(r)) = Cardinality(OpenEdges(p))
      BY <1>4, <2>2, <2>3, ReplaceOK
    <3> QED BY <2>1, <3>1
  <2> QED BY <2>1, <2>4
<1>6. Pending(q) = Pending(p)
  <2>1. \A j \in 1 .. Len(p) : /\ q[j].node = p[j].node
                               /\ q[j].alt + 1 .. q[j].altMax = p[j].alt + 1 .. p[j].altMax
    BY <1>2, <1>5
  <2>2. q \in Seq(EdgeType)
    BY <1>5 DEF ShapeOK
  <2> QED BY <1>1, <1>5, <2>1, <2>2, SamePending
<1>7. Last(q).node = Last(p).node /\ Last(q).alt = Last(p).alt /\ (LAO(Last(q)) <=> LAO(Last(p)))
  <2>1. Len(p) \in 1 .. Len(p)
    BY <1>1
  <2>2. CASE Len(p) = i
    BY <2>2, <1>2, <1>4, <1>5 DEF Last
  <2>3. CASE Len(p) # i
    BY <2>1, <2>3, <1>5 DEF Last
  <2> QED BY <2>2, <2>3
<1>8. HasCopy(q, Len(q))
  BY <1>1, <1>2, <1>5 DEF HasCopy
<1> QED BY <1>5, <1>6, <1>7, <1>8

(* the clone on the topmost edge is used up *)
LEMMA ReuseOK ==
  ASSUME NEW Node, NEW Alternatives, NEW EdgeType,
         PathAssumption(Node, Alternatives, EdgeType),
         NEW ng \in Nat, NEW p, ShapeOK(Alternatives, EdgeType, p, ng), p # <<>>, ~LAO(Last(p)), CanReuse(p),
         NEW q, q = Reuse(p, ng)
  PROVE  /\ ShapeOK(Alternatives, EdgeType, q, ng)
         /\ Last(p).space = Last(p).node /\ Child(Last(p).node, Last(p).alt) \in Node
         /\ PointsOK(q, Child(Last(p).node, Last(p).alt), 0)
         /\ Pending(q) = Pending(p) /\ Cardinality(OpenEdges(q)) = Cardinality(OpenEdges(p))
<1> DEFINE o == Len(p)
           e == p[o]
           x == IF o > ng THEN e.alt + 1 ELSE e.alt
           f == [e EXCEPT !.space = NoSpace, !.alt = x]
<1>1. p \in Seq(EdgeType) /\ o \in Nat /\ o # 0 /\ o \in 1 .. o
  BY DEF ShapeOK
<1>2. Last(p) = e
  BY DEF Last
<1>3. /\ EdgeOK(Alternatives, EdgeType, e) /\ e \in EdgeType /\ e.node \in Node /\ e.alt \in Nat /\ e.altMax \in Nat
      /\ e.space \in Node \cup {NoSpace} /\ e.alternatives \in Nat
  BY <1>1, EdgeTyped DEF ShapeOK, EdgesOK
<1>4. e.space = e.node /\ e.alt = e.altMax /\ ~HasWork(e)
  BY <1>2, <1>3 DEF CanReuse, Rightmost, LAO, EdgeOK, HasWork
<1>5. /\ f \in EdgeType /\ f.node = e.node /\ f.space = NoSpace
      /\ f.alt = (IF o > ng THEN e.alt + 1 ELSE e.alt)
      /\ f.altMax = e.altMax /\ f.alternatives = e.alternatives
  <2>1. x \in Nat
    BY <1>1, <1>3
  <2> HIDE DEF x
  <2>2. /\ f \in EdgeType /\ f.node = e.node /\ f.space = NoSpace
        /\ f.alt = x /\ f.altMax = e.altMax /\ f.alternatives = e.alternatives
    BY <1>3, <2>1 DEF PathAssumption, EdgeFacts, Changed
  <2> QED BY <2>2 DEF x
<1>6. q = [p EXCEPT ![o] = f]
  BY DEF Reuse, Last
<1> HIDE DEF f
<1>7. /\ EdgeOK(Alternatives, EdgeType, f) /\ ~HasWork(f) /\ (LAO(f) <=> o > ng)
  BY <1>1, <1>3, <1>4, <1>5 DEF EdgeOK, LAO, HasWork
<1>8. /\ ShapeOK(Alternatives, EdgeType, q, ng) /\ Len(q) = o /\ q # <<>> /\ q[o] = f
      /\ \A j \in 1 .. o : j # o => q[j] = p[j]
      /\ Cardinality(OpenEdges(q)) = Cardinality(OpenEdges(p))
  <2>1. f.space = NoSpace /\ ~LAO(f) => o <= ng
    BY <1>1, <1>7
  <2>2. /\ q \in Seq(EdgeType) /\ Len(q) = o /\ q[o] = f
        /\ \A j \in 1 .. o : j # o => q[j] = p[j]
    BY <1>1, <1>5, <1>6, UpdateIs
  <2>3. ShapeOK(Alternatives, EdgeType, q, ng) /\ q # <<>> /\ Cardinality(OpenEdges(q)) = Cardinality(OpenEdges(p))
    <3>1. ng <= ng /\ f.node = p[o].node /\ ~HasWork(p[o]) /\ ~(o < Len(p))
      BY <1>1, <1>4, <1>5
    <3>2. \A r \in Seq(EdgeType) :
            /\ Len(r) = Len(p) /\ r[o] = f
            /\ \A j \in 1 .. Len(p) : j # o => r[j] = p[j]
            => ShapeOK(Alternatives, EdgeType, r, ng) /\ r # <<>> /\ Cardinality(OpenEdges(r)) = Cardinality(OpenEdges(p))
      <4> HIDE DEF e, o
      <4>1. o \in 1 .. Len(p) /\ (o < Len(p) => f.alt = p[o].alt) /\ o = Len(p)
        BY <1>1, <3>1 DEF o
      <4> QED BY <4>1, <1>7, <2>1, <3>1, ReplaceOK
    <3> QED BY <2>2, <3>2
  <2> QED BY <2>2, <2>3
<1>9. Pending(q) = Pending(p)
  <2>1. e.alt + 1 .. e.altMax = {} /\ f.alt + 1 .. f.altMax = {}
    BY <1>1, <1>3, <1>4, <1>5
  <2>2. \A j \in 1 .. o : /\ q[j].node = p[j].node
                          /\ q[j].alt + 1 .. q[j].altMax = p[j].alt + 1 .. p[j].altMax
    BY <1>5, <1>8, <2>1
  <2>3. q \in Seq(EdgeType)
    BY <1>8 DEF ShapeOK
  <2> QED BY <1>1, <1>8, <2>2, <2>3, SamePending
<1>10. Child(e.node, e.alt) \in Node
  BY <1>2, <1>3, EdgeChild
<1>11. PointsOK(q, Child(e.node, e.alt), 0)
  <2>1. Last(q) = f /\ Child(e.node, e.alt) # NoSpace
    BY <1>8, <1>10, NodeSeq DEF Last
  <2> QED BY <2>1, <1>1, <1>4, <1>5, <1>7 DEF PointsOK
<1> QED BY <1>2, <1>4, <1>8, <1>9, <1>10, <1>11

(* what is left to take on an edge is apart from all that is above the edge *)
LEMMA Apart ==
  ASSUME NEW Node, NEW Alternatives, NEW EdgeType,
         PathAssumption(Node, Alternatives, EdgeType),
         NEW ng \in Nat, NEW p, ShapeOK(Alternatives, EdgeType, p, ng),
         NEW i \in 1 .. Len(p), NEW a \in p[i].alt + 1 .. p[i].altMax
  PROVE  /\ a \in Nat /\ Child(p[i].node, a) \in Node
         /\ \A j \in 1 .. Len(p) : \A x \in Node :
              i < j /\ Below(p[j].node, x) => ~Below(Child(p[i].node, a), x) /\ x # Child(p[i].node, a)
<1>1. p \in Seq(EdgeType) /\ Len(p) \in Nat
  BY DEF ShapeOK
<1>2. EdgeOK(Alternatives, EdgeType, p[i]) /\ p[i].alt \in Nat /\ p[i].altMax \in Nat /\ p[i].node \in Node
  BY <1>1, EdgeTyped DEF ShapeOK, EdgesOK
<1>3. a \in Nat /\ Child(p[i].node, a) \in Node /\ a # p[i].alt
  BY <1>2, EdgeChild
<1>4. ASSUME NEW j \in 1 .. Len(p), NEW x \in Node, i < j, Below(p[j].node, x)
      PROVE  ~Below(Child(p[i].node, a), x) /\ x # Child(p[i].node, a)
  <2>1. ~LAO(p[i])
    BY <1>1, <1>4 DEF ShapeOK, EdgesOK
  <2>2. Child(p[i].node, p[i].alt) \in Node
    BY <1>2, <2>1, EdgeChild
  <2>3. p[j].node \in Node
    BY <1>1, EdgeTyped
  <2>4. Below(Child(p[i].node, p[i].alt), p[j].node)
    BY <1>4 DEF ShapeOK, BelowOK
  <2>5. Below(Child(p[i].node, p[i].alt), x)
    BY <1>4, <2>2, <2>3, <2>4, BelowOrder
  <2>6. ~Below(Child(p[i].node, a), x)
    BY <1>2, <1>3, <2>2, <2>5, Children
  <2> QED BY <2>6, <1>3, BelowOrder
<1> QED BY <1>3, <1>4

LEMMA PendingNodes ==
  ASSUME NEW Node, NEW Alternatives, NEW EdgeType,
         PathAssumption(Node, Alternatives, EdgeType),
         NEW ng \in Nat, NEW p, ShapeOK(Alternatives, EdgeType, p, ng)
  PROVE  Pending(p) \subseteq Node
<1>1. p \in Seq(EdgeType)
  BY DEF ShapeOK
<1>2. ASSUME NEW x, x \in Pending(p) PROVE x \in Node
  <2>1. PICK i \in 1 .. Len(p) : \E a \in p[i].alt + 1 .. p[i].altMax : x = Child(p[i].node, a)
    BY <1>1, <1>2, PendingIs
  <2>2. PICK a \in p[i].alt + 1 .. p[i].altMax : x = Child(p[i].node, a)
    BY <2>1
  <2> QED BY <2>2, Apart
<1> QED BY <1>2

(* an edge and an alternative are given by the child *)
LEMMA Distinct ==
  ASSUME NEW Node, NEW Alternatives, NEW EdgeType,
         PathAssumption(Node, Alternatives, EdgeType),
         NEW ng \in Nat, NEW p, ShapeOK(Alternatives, EdgeType, p, ng),
         NEW i \in 1 .. Len(p), NEW a \in p[i].alt + 1 .. p[i].altMax,
         NEW j \in 1 .. Len(p), NEW b \in p[j].alt + 1 .. p[j].altMax,
         Child(p[i].node, a) = Child(p[j].node, b)
  PROVE  i = j /\ a = b
<1>1. /\ p \in Seq(EdgeType) /\ Len(p) \in Nat /\ p[i].node \in Node /\ p[j].node \in Node
  BY EdgeTyped DEF ShapeOK
<1>2. /\ a \in Nat /\ b \in Nat /\ Child(p[i].node, a) \in Node /\ Child(p[j].node, b) \in Node
  BY Apart
<1>3. Below(p[i].node, Child(p[i].node, a)) /\ Below(p[j].node, Child(p[j].node, b))
  BY <1>1, <1>2, Children
<1>4. ~(i < j)
  BY <1>2, <1>3, Apart
<1>5. ~(j < i)
  BY <1>2, <1>3, Apart
<1>6. i = j
  BY <1>1, <1>4, <1>5
<1> QED BY <1>1, <1>2, <1>6, Children

(* the current space, or the next one, is none of those left to take *)
LEMMA NotPending ==
  ASSUME NEW Node, NEW Alternatives, NEW EdgeType,
         PathAssumption(Node, Alternatives, EdgeType),
         NEW ng \in Nat, NEW p, ShapeOK(Alternatives, EdgeType, p, ng), p # <<>>,
         NEW a \in Nat, Child(Last(p).node, a) \in Node, LAO(Last(p)) \/ a = Last(p).alt
  PROVE  Child(Last(p).node, a) \notin Pending(p)
<1> DEFINE o == Len(p)
           x == Child(Last(p).node, a)
<1>1. p \in Seq(EdgeType) /\ o \in Nat /\ o # 0 /\ o \in 1 .. o /\ Last(p) = p[o]
  BY DEF ShapeOK, Last
<1>2. p[o].node \in Node /\ p[o].alt \in Nat /\ p[o].altMax \in Nat
  BY <1>1, EdgeTyped
<1> SUFFICES ASSUME x \in Pending(p) PROVE FALSE
  OBVIOUS
<1>3. PICK i \in 1 .. o : \E b \in p[i].alt + 1 .. p[i].altMax : x = Child(p[i].node, b)
  BY <1>1, PendingIs
<1>4. PICK b \in p[i].alt + 1 .. p[i].altMax : x = Child(p[i].node, b)
  BY <1>3
<1>5. Below(p[o].node, x)
  BY <1>1, <1>2, Children
<1>6. ~(i < o)
  BY <1>1, <1>4, <1>5, Apart
<1>7. i = o
  BY <1>1, <1>6
<1>8. a = b /\ b \in Nat
  BY <1>1, <1>2, <1>4, <1>7, Apart, Children
<1> QED BY <1>1, <1>2, <1>7, <1>8 DEF LAO

(* steal(): the last alternative of an open edge is given away *)
LEMMA GiveAwayOK ==
  ASSUME NEW Node, NEW Alternatives, NEW EdgeType,
         PathAssumption(Node, Alternatives, EdgeType),
         NEW ng \in Nat, NEW m \in Nat, m <= ng, NEW p, ShapeOK(Alternatives, EdgeType, p, ng),
         NEW n \in OpenEdges(p), NEW q, q = GiveAway(p, n)
  PROVE  /\ ShapeOK(Alternatives, EdgeType, q, m) /\ q # <<>>
         /\ Child(p[n].node, p[n].altMax) \in Pending(p)
         /\ Pending(q) = Pending(p) \ {Child(p[n].node, p[n].altMax)}
         /\ Top(q) = Top(p)
         /\ \A c, k : PointsOK(p, c, k) => PointsOK(q, c, k)
         /\ Cardinality(OpenEdges(q)) =
              IF HasWork(q[n]) THEN Cardinality(OpenEdges(p)) ELSE Cardinality(OpenEdges(p)) - 1
<1> DEFINE e == p[n]
           f == [e EXCEPT !.altMax = @ - 1]
           s == Child(e.node, e.altMax)
<1>1. /\ p \in Seq(EdgeType) /\ Len(p) \in Nat /\ n \in 1 .. Len(p) /\ HasWork(e)
  BY OpenFinite DEF ShapeOK
<1>2. /\ EdgeOK(Alternatives, EdgeType, e) /\ e \in EdgeType /\ e.node \in Node /\ e.alt \in Nat /\ e.altMax \in Nat
      /\ e.alt < e.altMax /\ e.altMax - 1 \in Nat
  <2>1. /\ EdgeOK(Alternatives, EdgeType, e) /\ e \in EdgeType /\ e.node \in Node /\ e.alt \in Nat /\ e.altMax \in Nat
    BY <1>1, EdgeTyped DEF ShapeOK, EdgesOK
  <2> QED BY <2>1, <1>1 DEF HasWork
<1>3. /\ f \in EdgeType /\ f.node = e.node /\ f.space = e.space
      /\ f.alt = e.alt /\ f.altMax = e.altMax - 1 /\ f.alternatives = e.alternatives
  BY <1>2, AltMaxChanged
<1>4. /\ q \in Seq(EdgeType) /\ Len(q) = Len(p) /\ q[n] = f
      /\ \A j \in 1 .. Len(p) : j # n => q[j] = p[j]
  <2>1. q = [p EXCEPT ![n] = f]
    BY DEF GiveAway
  <2> HIDE DEF f
  <2> QED BY <1>1, <1>3, <2>1, UpdateIs
<1> HIDE DEF f
<1>5. EdgeOK(Alternatives, EdgeType, f) /\ ~LAO(f)
  <2>1. /\ e.alternatives = Alternatives[e.node] /\ e.altMax < e.alternatives
        /\ e.space \in {NoSpace, e.node}
    BY <1>2 DEF EdgeOK
  <2>2. e.alternatives \in Nat
    BY <1>2, Fields
  <2> HIDE DEF e
  <2>3. e.altMax - 1 < e.alternatives /\ e.alt <= (e.altMax - 1) + 1 /\ ~(e.alt > e.altMax - 1)
    BY <1>2, <2>1, <2>2
  <2>4. ~LAO(f)
    BY <1>3, <2>3 DEF LAO
  <2> QED BY <1>3, <2>1, <2>3, <2>4 DEF EdgeOK
<1>6. /\ ShapeOK(Alternatives, EdgeType, q, m) /\ q # <<>>
      /\ Cardinality(OpenEdges(q)) =
              IF HasWork(q[n]) THEN Cardinality(OpenEdges(p)) ELSE Cardinality(OpenEdges(p)) - 1
  <2>1. f.node = p[n].node /\ f.alt = p[n].alt /\ f.space = p[n].space /\ ~LAO(p[n])
    BY <1>2, <1>3 DEF LAO
  <2> HIDE DEF e
  <2>2. HasWork(p[n])
    BY <1>1 DEF e
  <2>3. \A r \in Seq(EdgeType) :
          /\ Len(r) = Len(p) /\ r[n] = f
          /\ \A j \in 1 .. Len(p) : j # n => r[j] = p[j]
          => /\ ShapeOK(Alternatives, EdgeType, r, m) /\ r # <<>>
             /\ Cardinality(OpenEdges(r)) =
                  IF HasWork(f) THEN Cardinality(OpenEdges(p)) ELSE Cardinality(OpenEdges(p)) - 1
    BY <1>1, <1>5, <2>1, <2>2, ReplaceOK
  <2> QED BY <1>4, <2>3
<1>7. s \in Pending(p)
  <2>1. e.altMax \in e.alt + 1 .. e.altMax
    BY <1>2
  <2> QED BY <1>1, <2>1, PendingIs
<1>8. Pending(q) = Pending(p) \ {s}
  <2>1. \A x : x \in Pending(q) <=>
               \E i \in 1 .. Len(p) : \E a \in q[i].alt + 1 .. q[i].altMax : x = Child(q[i].node, a)
    BY <1>4, PendingIs
  <2>2. \A x : x \in Pending(p) <=>
               \E i \in 1 .. Len(p) : \E a \in p[i].alt + 1 .. p[i].altMax : x = Child(p[i].node, a)
    BY <1>1, PendingIs
  <2>3. \A i \in 1 .. Len(p) :
          /\ q[i].node = p[i].node
          /\ i # n => q[i].alt + 1 .. q[i].altMax = p[i].alt + 1 .. p[i].altMax
    BY <1>3, <1>4
  <2>4. \A a : a \in q[n].alt + 1 .. q[n].altMax <=> a \in e.alt + 1 .. e.altMax /\ a # e.altMax
    BY <1>2, <1>3, <1>4
  <2>5. ASSUME NEW x, x \in Pending(q) PROVE x \in Pending(p) /\ x # s
    <3>1. PICK i \in 1 .. Len(p) : \E a \in q[i].alt + 1 .. q[i].altMax : x = Child(q[i].node, a)
      BY <2>1, <2>5
    <3>2. PICK a \in q[i].alt + 1 .. q[i].altMax : x = Child(q[i].node, a)
      BY <3>1
    <3>3. a \in p[i].alt + 1 .. p[i].altMax /\ (i = n => a # e.altMax)
      BY <2>3, <2>4
    <3>4. e.altMax \in p[n].alt + 1 .. p[n].altMax
      BY <1>2
    <3>5. x # s
      BY <3>2, <3>3, <3>4, <2>3, <1>1, Distinct
    <3> QED BY <3>2, <3>3, <3>5, <2>2, <2>3
  <2>6. ASSUME NEW x, x \in Pending(p), x # s PROVE x \in Pending(q)
    <3>1. PICK i \in 1 .. Len(p) : \E a \in p[i].alt + 1 .. p[i].altMax : x = Child(p[i].node, a)
      BY <2>2, <2>6
    <3>2. PICK a \in p[i].alt + 1 .. p[i].altMax : x = Child(p[i].node, a)
      BY <3>1
    <3>3. a \in q[i].alt + 1 .. q[i].altMax
      BY <2>3, <2>4, <2>6, <3>2
    <3> QED BY <3>2, <3>3, <2>1, <2>3
  <2> QED BY <2>5, <2>6
<1>9. /\ Last(q).node = Last(p).node /\ Last(q).alt = Last(p).alt
      /\ LAO(Last(q)) <=> LAO(Last(p))
      /\ LAO(Last(p)) => Last(q) = Last(p)
  <2>1. Len(p) \in 1 .. Len(p)
    BY <1>1
  <2>2. CASE Len(p) = n
    BY <2>2, <1>2, <1>3, <1>4, <1>5 DEF Last, LAO
  <2>3. CASE Len(p) # n
    BY <2>1, <2>3, <1>4 DEF Last
  <2> QED BY <2>2, <2>3
<1>10. p # <<>>
  BY <1>1
<1>11. HasCopy(p, Len(p)) => HasCopy(q, Len(q))
  BY <1>3, <1>4 DEF HasCopy
<1>12. Top(q) = Top(p)
  BY <1>6, <1>9, <1>10 DEF Top
<1>13. \A c, k : PointsOK(p, c, k) => PointsOK(q, c, k)
  BY <1>6, <1>9, <1>10, <1>11 DEF PointsOK
<1> QED BY <1>6, <1>7, <1>8, <1>12, <1>13

(* lc() *)
LEMMA LastCopyIs ==
  ASSUME NEW EdgeType, NEW p \in Seq(EdgeType), NEW n \in 1 .. Len(p), HasCopy(p, n),
         NEW l, l = SelectLastInSubSeq(p, 1, n, LAMBDA e : e.space # NoSpace)
  PROVE  l \in 1 .. n /\ p[l].space # NoSpace /\ \A j \in l + 1 .. n : p[j].space = NoSpace
<1> DEFINE I == {i \in 1 .. n : p[i].space # NoSpace}
<1>1. l = IF I # {} THEN Max(I) ELSE 0
  BY DEF SelectLastInSubSeq
<1>2. I # {} /\ I \in SUBSET (0 .. n) /\ n \in Nat
  BY DEF HasCopy
<1> HIDE DEF I
<1>3. l \in I /\ \A y \in I : l >= y
  BY <1>1, <1>2, HasGreatest
<1>4. l \in 1 .. n /\ p[l].space # NoSpace
  BY <1>3 DEF I
<1>5. ASSUME NEW j \in l + 1 .. n PROVE p[j].space = NoSpace
  <2>1. j \in 1 .. n /\ ~(l >= j)
    BY <1>2, <1>4
  <2> QED BY <2>1, <1>3 DEF I
<1> QED BY <1>4, <1>5

LEMMA FunctionSeq == \A k \in Nat : \A g \in [1 .. k -> Nat] : g \in Seq(Nat) /\ Len(g) = k
OBVIOUS

(* the commits from a clone, up to an edge and beyond it *)
LEMMA CommitsOK ==
  ASSUME NEW Node, NEW Alternatives, NEW EdgeType,
         PathAssumption(Node, Alternatives, EdgeType),
         NEW ng \in Nat, NEW p, ShapeOK(Alternatives, EdgeType, p, ng), NEW l \in 1 .. Len(p), NEW i \in l .. Len(p),
         p[l].space # NoSpace, \A k \in l + 1 .. i : p[k].space = NoSpace /\ ~LAO(p[k])
  PROVE  /\ Commits(p, l, i - 1) = p[i].node
         /\ Commits(p, l, i) = Child(p[i].node, p[i].alt)
<1>1. /\ p \in Seq(EdgeType) /\ Len(p) \in Nat /\ i \in 1 .. Len(p) /\ l \in Nat /\ i \in Nat
      /\ l <= i
  BY DEF ShapeOK
<1>2. p[l].space = p[l].node /\ p[l].node \in Seq(Nat)
  BY <1>1, EdgeTyped, NodeSeq DEF ShapeOK, EdgesOK, EdgeOK
<1>3. p[i].node = p[l].node \o Turns(p, l, i)
  BY <1>1 DEF ShapeOK, TurnsOK, Straight
<1>4. i - 1 - l + 1 = i - l
  BY <1>1
<1>5. Commits(p, l, i - 1) = p[i].node
  BY <1>2, <1>3, <1>4 DEF Commits, Turns
<1> DEFINE t == Turns(p, l, i)
           u == [j \in 1 .. i - l + 1 |-> p[l + j - 1].alt]
<1>6. \A j \in 1 .. i - l + 1 : l + j - 1 \in 1 .. Len(p) /\ p[l + j - 1].alt \in Nat
  <2>1. \A j \in 1 .. i - l + 1 : l + j - 1 \in 1 .. Len(p)
    BY <1>1
  <2> QED BY <2>1, <1>1, EdgeTyped
<1>7. /\ t \in Seq(Nat) /\ Len(t) = i - l
      /\ u \in Seq(Nat) /\ Len(u) = i - l + 1 /\ p[i].alt \in Nat
      /\ u[i - l + 1] = p[i].alt
      /\ \A j \in 1 .. i - l : t[j] = u[j]
  <2>1. i - l \in Nat /\ i - l + 1 \in Nat /\ i - l + 1 \in 1 .. i - l + 1
        /\ l + (i - l + 1) - 1 = i /\ \A j \in 1 .. i - l : j \in 1 .. i - l + 1
    BY <1>1
  <2>2. t \in [1 .. i - l -> Nat] /\ u \in [1 .. i - l + 1 -> Nat]
    BY <1>6, <2>1 DEF Turns
  <2>3. u[i - l + 1] = p[i].alt /\ p[i].alt \in Nat
    BY <2>1, <1>6
  <2>4. \A j \in 1 .. i - l : t[j] = u[j]
    BY <2>1 DEF Turns
  <2> HIDE DEF t, u
  <2>5. t \in Seq(Nat) /\ Len(t) = i - l
    BY <2>1, <2>2, FunctionSeq
  <2>6. u \in Seq(Nat) /\ Len(u) = i - l + 1
    BY <2>1, <2>2, FunctionSeq
  <2> QED BY <2>3, <2>4, <2>5, <2>6
<1>8. u = Append(t, p[i].alt)
  <2> HIDE DEF t, u
  <2>1. /\ Append(t, p[i].alt) \in Seq(Nat) /\ Len(Append(t, p[i].alt)) = Len(t) + 1
        /\ Append(t, p[i].alt)[Len(t) + 1] = p[i].alt
        /\ \A k \in 1 .. Len(t) : Append(t, p[i].alt)[k] = t[k]
    BY <1>7, AppendIs
  <2>2. \A k \in 1 .. Len(u) : u[k] = Append(t, p[i].alt)[k]
    <3> TAKE k \in 1 .. Len(u)
    <3>1. k = i - l + 1 \/ k \in 1 .. i - l
      BY <1>1, <1>7
    <3> QED BY <3>1, <2>1, <1>7
  <2> QED BY <1>7, <2>1, <2>2, SeqSame
<1>9. Commits(p, l, i) = Child(p[i].node, p[i].alt)
  <2>1. Commits(p, l, i) = p[l].node \o u
    BY <1>2 DEF Commits
  <2> HIDE DEF t, u
  <2>2. Append(p[l].node \o t, p[i].alt) = p[l].node \o Append(t, p[i].alt)
    BY <1>2, <1>7, AppendConcat
  <2>3. p[i].node = p[l].node \o t
    BY <1>3 DEF t
  <2> QED BY <1>8, <2>1, <2>2, <2>3 DEF Child
<1> QED BY <1>5, <1>9

(* recompute(): where the commits lead, and where another clone is placed *)
LEMMA RecomputeOK ==
  ASSUME NEW Node, NEW Alternatives, NEW EdgeType,
         PathAssumption(Node, Alternatives, EdgeType),
         NEW ng \in Nat, NEW p, ShapeOK(Alternatives, EdgeType, p, ng), p # <<>>, NEW k, PointsOK(p, NoSpace, k),
         NEW aD \in Nat
  PROVE  /\ Commits(p, LastCopy(p), Len(p)) = Child(Last(p).node, Last(p).alt)
         /\ Child(Last(p).node, Last(p).alt) \in Node
         /\ Distance(p) \in Nat
         /\ PlacesCopy(p, aD) =>
              LET i == AdaptiveEdge(p)
              IN  /\ i \in 1 .. Len(p) /\ ~LAO(p[i]) /\ Len(p) - i + 1 \in Nat
                  /\ Commits(p, LastCopy(p), i - 1) = p[i].node
<1> DEFINE l == LastCopy(p)
           o == Len(p)
           m == l + Distance(p) \div 2
           I == {j \in m .. o : ~Rightmost(p[j])}
           i == AdaptiveEdge(p)
<1>1. p \in Seq(EdgeType) /\ o \in Nat /\ o # 0 /\ o \in 1 .. o /\ Last(p) = p[o]
  BY DEF ShapeOK, Last
<1>2. HasCopy(p, o) /\ ~LAO(p[o])
  BY <1>1 DEF PointsOK
<1>3. l = SelectLastInSubSeq(p, 1, o, LAMBDA e : e.space # NoSpace)
  BY DEF LastCopy, SelectLastInSeq, SelectLastInSubSeq
<1>4. l \in 1 .. o /\ p[l].space # NoSpace /\ \A j \in l + 1 .. o : p[j].space = NoSpace
  <2> HIDE DEF l
  <2> QED BY <1>1, <1>2, <1>3, LastCopyIs
<1>5. \A j \in 1 .. o : ~LAO(p[j])
  BY <1>1, <1>2 DEF ShapeOK, EdgesOK
<1>6. \A j \in l + 1 .. o : p[j].space = NoSpace /\ ~LAO(p[j])
  <2>1. \A j \in l + 1 .. o : j \in 1 .. o
    BY <1>1, <1>4
  <2> QED BY <2>1, <1>4, <1>5
<1>7. Distance(p) = o - l + 1
  BY DEF Distance
<1>8. Distance(p) \in Nat /\ l \in Nat /\ l <= o
  BY <1>1, <1>4, <1>7
<1>9. Child(p[o].node, p[o].alt) \in Node
  BY <1>1, <1>2, EdgeChild DEF ShapeOK, EdgesOK
<1>10. Commits(p, l, o) = Child(p[o].node, p[o].alt)
  <2> HIDE DEF l
  <2>1. o \in l .. o
    BY <1>1, <1>8
  <2> QED BY <2>1, <1>1, <1>4, <1>6, CommitsOK
<1>11. ASSUME PlacesCopy(p, aD)
       PROVE  /\ i \in 1 .. o /\ ~LAO(p[i]) /\ o - i + 1 \in Nat
              /\ Commits(p, l, i - 1) = p[i].node
  <2>1. i = LET x == IF I # {} THEN Min(I) ELSE 0 IN IF x = 0 THEN o + 1 ELSE x
    BY DEF AdaptiveEdge, SelectInSubSeq
  <2>2. i < o
    BY <1>11 DEF PlacesCopy
  <2>3. Distance(p) \div 2 \in Nat
    BY <1>8
  <2>4. I # {}
    BY <2>1, <2>2, <1>1
  <2>5. I \in SUBSET Nat
    <3>1. m \in Nat
      BY <1>8, <2>3
    <3> QED BY <3>1, <1>1
  <2> HIDE DEF I
  <2>6. Min(I) \in I
    BY <2>4, <2>5, HasLeast
  <2>7. i = Min(I)
    <3>1. ~(o + 1 < o)
      BY <1>1
    <3> QED BY <2>1, <2>2, <2>4, <3>1
  <2> HIDE DEF i
  <2>8. i \in m .. o
    BY <2>6, <2>7 DEF I
  <2>9. i \in l .. o /\ i \in 1 .. o /\ o - i + 1 \in Nat
    BY <2>8, <2>3, <1>1, <1>4, <1>8
  <2>10. \A j \in l + 1 .. i : p[j].space = NoSpace /\ ~LAO(p[j])
    <3>1. \A j \in l + 1 .. i : j \in l + 1 .. o
      BY <2>9, <1>8, <1>1
    <3> QED BY <3>1, <1>6
  <2> HIDE DEF l
  <2>11. Commits(p, l, i - 1) = p[i].node
    BY <2>9, <2>10, <1>1, <1>4, CommitsOK
  <2> QED BY <2>9, <2>11, <1>5
<1> QED BY <1>1, <1>8, <1>9, <1>10, <1>11

(* steal(): the edge that is robbed *)
LEMMA StealEdgeOK ==
  ASSUME NEW Node, NEW Alternatives, NEW EdgeType,
         PathAssumption(Node, Alternatives, EdgeType),
         NEW p \in Seq(EdgeType), NEW limit \in Nat, Cardinality(OpenEdges(p)) > limit
  PROVE  StealEdge(p, limit) \in OpenEdges(p)
<1> DEFINE o == Len(p)
           open(i) == {j \in OpenEdges(p) : j >= i}
           f == [i \in DOMAIN p |-> open(i)]
           I == {i \in 1 .. Len(f) : Cardinality(f[i]) > limit}
           n == StealEdge(p, limit)
<1>1. /\ IsFiniteSet(OpenEdges(p)) /\ Cardinality(OpenEdges(p)) \in Nat /\ o \in Nat
      /\ OpenEdges(p) \subseteq 1 .. o
  BY OpenFinite
<1>2. Len(f) = o /\ DOMAIN p = 1 .. o
  <2>1. f = [i \in 1 .. o |-> open(i)]
    OBVIOUS
  <2> QED BY <2>1, <1>1
<1>3. I = {i \in 1 .. o : Cardinality(open(i)) > limit}
  BY <1>2
<1>4. n = IF I # {} THEN Max(I) ELSE 0
  BY DEF StealEdge, SelectLastInSeq
<1> HIDE DEF f, I, n
<1>5. OpenEdges(p) # {}
  <2>1. Cardinality({}) = 0 /\ ~(0 > limit)
    BY FS_EmptySet
  <2> QED BY <2>1
<1>6. 1 \in I
  <2>1. 1 \in 1 .. o
    BY <1>1, <1>5
  <2>2. open(1) = OpenEdges(p)
    BY <1>1
  <2> QED BY <2>1, <2>2, <1>3
<1>7. n \in I /\ \A y \in I : n >= y
  <2>1. I \in SUBSET (0 .. o) /\ I # {}
    BY <1>1, <1>3, <1>6
  <2> QED BY <2>1, <1>1, <1>4, HasGreatest
<1>8. n \in 1 .. o /\ Cardinality(open(n)) > limit
  BY <1>3, <1>7
<1> SUFFICES ASSUME n \notin OpenEdges(p) PROVE FALSE
  BY DEF n
<1>9. open(n) = open(n + 1)
  BY <1>1, <1>8
<1>10. CASE n = o
  <2>1. open(n + 1) = {}
    BY <1>1, <1>10
  <2>2. Cardinality(open(n + 1)) > limit
    BY <1>8, <1>9
  <2> HIDE DEF open
  <2>3. Cardinality({}) > limit /\ Cardinality({}) = 0
    BY <2>1, <2>2, FS_EmptySet
  <2> QED BY <2>3
<1>11. CASE n # o
  <2>1. n + 1 \in 1 .. o /\ ~(n >= n + 1)
    BY <1>1, <1>8, <1>11
  <2>2. Cardinality(open(n + 1)) > limit
    BY <1>8, <1>9
  <2> HIDE DEF open
  <2>3. n + 1 \in I
    BY <2>1, <2>2, <1>3
  <2> QED BY <2>1, <2>3, <1>7
<1> QED BY <1>10, <1>11

(* steal(): the space handed over *)
LEMMA StolenIs ==
  ASSUME NEW Node, NEW Alternatives, NEW EdgeType,
         PathAssumption(Node, Alternatives, EdgeType),
         NEW ng \in Nat, NEW p, ShapeOK(Alternatives, EdgeType, p, ng), NEW n \in OpenEdges(p)
  PROVE  Stolen(p, n) = Child(p[n].node, p[n].altMax)
<1> DEFINE l == SelectLastInSubSeq(p, 1, n, LAMBDA e : e.space # NoSpace)
<1>1. /\ p \in Seq(EdgeType) /\ Len(p) \in Nat /\ n \in 1 .. Len(p) /\ HasWork(p[n])
      /\ p[n].alt \in Nat /\ p[n].altMax \in Nat
  BY OpenFinite, EdgeTyped DEF ShapeOK
<1>2. HasCopy(p, n)
  BY <1>1 DEF ShapeOK, CopiesOK
<1>3. l \in 1 .. n /\ p[l].space # NoSpace /\ \A j \in l + 1 .. n : p[j].space = NoSpace
  <2>1. \A x : x = l => x \in 1 .. n /\ p[x].space # NoSpace /\ \A j \in x + 1 .. n : p[j].space = NoSpace
    <3> HIDE DEF l
    <3> QED BY <1>1, <1>2, LastCopyIs DEF l
  <2> HIDE DEF l
  <2> QED BY <2>1
<1>4. Stolen(p, n) = Append(IF l = n THEN p[n].space ELSE Commits(p, l, n - 1), p[n].altMax)
  BY DEF Stolen
<1> HIDE DEF l
<1>5. \A j \in l + 1 .. n : p[j].space = NoSpace /\ ~LAO(p[j])
  <2> TAKE j \in l + 1 .. n
  <2>1. j \in 1 .. Len(p) /\ (j = Len(p) => j = n)
    BY <1>1, <1>3
  <2>2. LAO(p[j]) => j = n
    BY <2>1 DEF ShapeOK, EdgesOK
  <2>3. ~LAO(p[n])
    BY <1>1 DEF HasWork, LAO
  <2> QED BY <2>2, <2>3, <1>3
<1>6. Commits(p, l, n - 1) = p[n].node
  <2>1. l \in 1 .. Len(p) /\ n \in l .. Len(p)
    BY <1>1, <1>3
  <2> QED BY <2>1, <1>3, <1>5, CommitsOK
<1>7. l = n => p[n].space = p[n].node
  BY <1>1, <1>3 DEF ShapeOK, EdgesOK, EdgeOK
<1> QED BY <1>4, <1>6, <1>7 DEF Child

(***************************************************************************)
(* The steps of a worker on its own path p, current space c, distance k    *)
(* and number of open edges.                                               *)
(***************************************************************************)
WorkerOK(Node, Alternatives, EdgeType, p, c, k, ng, open) ==
  /\ ng \in Nat /\ k \in Nat /\ c \in Node \cup {NoSpace}
  /\ ShapeOK(Alternatives, EdgeType, p, ng) /\ PointsOK(p, c, k) /\ open = Cardinality(OpenEdges(p))

Own(p, c) == Pending(p) \cup (IF c # NoSpace THEN {c} ELSE Top(p))

LEMMA NothingLeft ==
  ASSUME NEW Node, NEW Alternatives, NEW EdgeType, PathAssumption(Node, Alternatives, EdgeType)
  PROVE  /\ Pending(<<>>) = {} /\ Top(<<>>) = {} /\ OpenEdges(<<>>) = {}
         /\ \A ng, k \in Nat : \A c \in Node \cup {NoSpace} :
              WorkerOK(Node, Alternatives, EdgeType, <<>>, c, k, ng, 0) <=> (c # NoSpace => k = 0)
<1>1. Pending(<<>>) = {} /\ Top(<<>>) = {} /\ OpenEdges(<<>>) = {}
  BY DEF Pending, Top, OpenEdges
<1>2. Len(<<>>) = 0 /\ ~HasCopy(<<>>, 0)
  BY DEF HasCopy
<1>3. \A c, k : PointsOK(<<>>, c, k) <=> (c # NoSpace => k = 0)
  BY <1>2 DEF PointsOK
<1> QED BY <1>1, <1>3, EmptyShape, FS_EmptySet DEF WorkerOK

(* the space explored next is a node, and none of those left to take *)
LEMMA OwnNodes ==
  ASSUME NEW Node, NEW Alternatives, NEW EdgeType,
         PathAssumption(Node, Alternatives, EdgeType),
         NEW p, NEW c, NEW k, NEW ng, NEW open, WorkerOK(Node, Alternatives, EdgeType, p, c, k, ng, open)
  PROVE  Own(p, c) \subseteq Node /\ (c # NoSpace => c \notin Pending(p))
<1>1. Pending(p) \subseteq Node /\ p \in Seq(EdgeType) /\ Len(p) \in Nat
  BY PendingNodes DEF WorkerOK, ShapeOK
<1>2. p # <<>> => /\ Last(p) = p[Len(p)] /\ EdgeOK(Alternatives, EdgeType, Last(p)) /\ Len(p) \in 1 .. Len(p)
  BY <1>1 DEF WorkerOK, ShapeOK, EdgesOK, Last
<1>3. Top(p) \subseteq Node \/ c # NoSpace
  BY <1>2, EdgeChild DEF Top, WorkerOK, PointsOK
<1>4. ASSUME c # NoSpace PROVE c \notin Pending(p)
  <2>1. CASE p = <<>>
    BY <2>1, NothingLeft
  <2>2. CASE p # <<>>
    <3> DEFINE a == IF LAO(Last(p)) THEN Last(p).altMax ELSE Last(p).alt
    <3>1. c = Child(Last(p).node, a) /\ c \in Node /\ a \in Nat /\ (LAO(Last(p)) \/ a = Last(p).alt)
      BY <1>2, <1>4, <2>2, EdgeChild DEF WorkerOK, PointsOK
    <3> HIDE DEF a
    <3> QED BY <2>2, <3>1, NotPending DEF WorkerOK
  <2> QED BY <2>1, <2>2
<1> QED BY <1>1, <1>3, <1>4 DEF Own, WorkerOK

(* the current space is done with *)
LEMMA AdvanceOK ==
  ASSUME NEW Node, NEW Alternatives, NEW EdgeType,
         PathAssumption(Node, Alternatives, EdgeType),
         NEW p, NEW k \in Nat, NEW ng \in Nat, ShapeOK(Alternatives, EdgeType, p, ng), NEW q, q = NextAlt(p),
         NEW open, open = Cardinality(OpenEdges(p))
  PROVE  /\ WorkerOK(Node, Alternatives, EdgeType, q, NoSpace, k, ng, IF q # <<>> /\ ~HasWork(Last(q)) THEN open - 1 ELSE open)
         /\ Own(q, NoSpace) = Pending(p)
BY NextAltOK DEF WorkerOK, Own, PointsOK

(* it is a choice *)
LEMMA BranchOK ==
  ASSUME NEW Node, NEW Alternatives, NEW EdgeType,
         PathAssumption(Node, Alternatives, EdgeType),
         NEW p, NEW c \in Node, NEW k, NEW ng, NEW open, WorkerOK(Node, Alternatives, EdgeType, p, c, k, ng, open),
         Alternatives[c] > 0, NEW copy \in {c, NoSpace}, copy = NoSpace => k # 0,
         NEW e \in EdgeType, e.node = c, e.space = copy, e.alt = 0,
         e.altMax = Alternatives[c] - 1, e.alternatives = Alternatives[c],
         NEW j \in Nat \ {0}
  PROVE  /\ WorkerOK(Node, Alternatives, EdgeType, Push(p, e), Child(c, 0), j, ng, IF HasWork(e) THEN open + 1 ELSE open)
         /\ Own(Push(p, e), Child(c, 0)) =
              (Own(p, c) \ {c}) \cup {Child(c, a) : a \in 0 .. Alternatives[c] - 1}
<1> DEFINE q == Push(p, e)
<1>1. /\ k \in Nat /\ ng \in Nat /\ ShapeOK(Alternatives, EdgeType, p, ng) /\ PointsOK(p, c, k) /\ c # NoSpace
      /\ Alternatives[c] \in Nat
  BY NodeSeq, TreeIs DEF WorkerOK
<1>2. /\ ShapeOK(Alternatives, EdgeType, q, ng) /\ q # <<>> /\ HasCopy(q, Len(q)) /\ Last(q) = e
      /\ Pending(q) = Pending(p) \cup {Child(c, a) : a \in 1 .. Alternatives[c] - 1}
      /\ Cardinality(OpenEdges(q)) =
           IF HasWork(e) THEN Cardinality(OpenEdges(p)) + 1 ELSE Cardinality(OpenEdges(p))
  BY <1>1, PushOK
<1>3. e.node = c /\ e.alt = 0 /\ ~LAO(e)
  BY <1>1 DEF LAO
<1>4. Child(c, 0) \in Node /\ Child(c, 0) # NoSpace
  <2>1. 0 \in 0 .. Alternatives[c] - 1
    BY <1>1
  <2> QED BY <2>1, TreeIs, NodeSeq
<1> HIDE DEF q
<1>5. PointsOK(q, Child(c, 0), j)
  BY <1>2, <1>3, <1>4 DEF PointsOK
<1>6. WorkerOK(Node, Alternatives, EdgeType, q, Child(c, 0), j, ng, IF HasWork(e) THEN open + 1 ELSE open)
  BY <1>1, <1>2, <1>4, <1>5 DEF WorkerOK
<1>7. Own(p, c) \ {c} = Pending(p)
  BY <1>1, OwnNodes DEF Own
<1>8. {Child(c, a) : a \in 0 .. Alternatives[c] - 1}
        = {Child(c, a) : a \in 1 .. Alternatives[c] - 1} \cup {Child(c, 0)}
  <2>1. 0 .. Alternatives[c] - 1 = (1 .. Alternatives[c] - 1) \cup {0}
    BY <1>1
  <2> QED BY <2>1
<1>9. Own(q, Child(c, 0)) = (Own(p, c) \ {c}) \cup {Child(c, a) : a \in 0 .. Alternatives[c] - 1}
  BY <1>2, <1>4, <1>7, <1>8 DEF Own
<1> QED BY <1>6, <1>9 DEF q

LEMMA EdgesAbove ==
  ASSUME NEW Node, NEW Alternatives, NEW EdgeType,
         PathAssumption(Node, Alternatives, EdgeType),
         NEW ng \in Nat, NEW p, ShapeOK(Alternatives, EdgeType, p, ng), NEW i \in 1 .. Len(p), NEW j \in 1 .. Len(p), i <= j
  PROVE  Below(p[i].node, p[j].node)
<1>1. p \in Seq(EdgeType) /\ Len(p) \in Nat
  BY DEF ShapeOK
<1>2. p[i].node \in Node /\ p[j].node \in Node
  BY <1>1, EdgeTyped
<1>3. CASE i = j
  BY <1>2, <1>3, BelowOrder
<1>4. CASE i < j
  <2>1. EdgeOK(Alternatives, EdgeType, p[i]) /\ ~LAO(p[i])
    BY <1>1, <1>4 DEF ShapeOK, EdgesOK
  <2>2. p[i].alt \in Nat /\ Child(p[i].node, p[i].alt) \in Node
    BY <2>1, EdgeChild
  <2>3. Below(Child(p[i].node, p[i].alt), p[j].node)
    BY <1>4 DEF ShapeOK, BelowOK
  <2> QED BY <1>2, <2>2, <2>3, Children, BelowOrder
<1> QED BY <1>1, <1>3, <1>4

(* recomputation fails on the way: the path is unwound and advanced *)
LEMMA UnwoundOK ==
  ASSUME NEW Node, NEW Alternatives, NEW EdgeType,
         PathAssumption(Node, Alternatives, EdgeType),
         NEW p, NEW k, NEW ng, NEW open, WorkerOK(Node, Alternatives, EdgeType, p, NoSpace, k, ng, open), p # <<>>,
         NEW i \in 1 .. Len(p), NEW j \in Nat,
         NEW q, q = NextAlt(SubSeq(p, 1, i - 1)),
         NEW left, left = open - Cardinality({x \in OpenEdges(p) : x >= i})
  PROVE  /\ WorkerOK(Node, Alternatives, EdgeType, q, NoSpace, j, ng, IF q # <<>> /\ ~HasWork(Last(q)) THEN left - 1 ELSE left)
         /\ Own(q, NoSpace) \subseteq Own(p, NoSpace)
         /\ \A n \in Own(p, NoSpace) \ Own(q, NoSpace) : Below(p[i].node, n)
<1> DEFINE r == SubSeq(p, 1, i - 1)
           f == p[i].node
<1>1. /\ ng \in Nat /\ ShapeOK(Alternatives, EdgeType, p, ng) /\ p \in Seq(EdgeType) /\ Len(p) \in Nat
      /\ i - 1 \in 0 .. Len(p) /\ (i - 1) + 1 = i /\ ~LAO(Last(p)) /\ Last(p) = p[Len(p)]
      /\ Len(p) \in 1 .. Len(p) /\ i <= Len(p)
  BY DEF WorkerOK, ShapeOK, PointsOK, Last
<1>2. /\ ShapeOK(Alternatives, EdgeType, r, ng) /\ Len(r) = i - 1 /\ \A x \in 1 .. i - 1 : r[x] = p[x]
      /\ Cardinality(OpenEdges(r)) =
           Cardinality(OpenEdges(p)) - Cardinality({x \in OpenEdges(p) : x >= i})
  <2>1. /\ ShapeOK(Alternatives, EdgeType, r, ng) /\ Len(r) = i - 1 /\ \A x \in 1 .. i - 1 : r[x] = p[x]
        /\ Cardinality(OpenEdges(r)) =
             Cardinality(OpenEdges(p)) - Cardinality(From(p, (i - 1) + 1))
    <3>1. /\ r \in Seq(EdgeType) /\ Len(r) = i - 1 /\ \A x \in 1 .. i - 1 : r[x] = p[x]
      BY <1>1
    <3>2. ShapeOK(Alternatives, EdgeType, r, ng)
      BY <1>1, UnwindOK, Zenon
    <3>3. ASSUME NEW y \in 0 .. Len(p), NEW z, z = SubSeq(p, 1, y)
          PROVE  Cardinality(OpenEdges(z)) = Cardinality(OpenEdges(p)) - Cardinality(From(p, y + 1))
      BY <1>1, <3>3, UnwindCount
    <3> QED BY <1>1, <3>1, <3>2, <3>3
  <2>2. From(p, i) = {x \in OpenEdges(p) : x >= i}
    BY DEF From
  <2> HIDE DEF r
  <2> QED BY <2>1, <2>2, <1>1
<1> HIDE DEF r
<1>3. left = Cardinality(OpenEdges(r))
  BY <1>2 DEF WorkerOK
<1>4. /\ WorkerOK(Node, Alternatives, EdgeType, q, NoSpace, j, ng, IF q # <<>> /\ ~HasWork(Last(q)) THEN left - 1 ELSE left)
      /\ Own(q, NoSpace) = Pending(r)
  <2>1. q = NextAlt(r)
    BY DEF r
  <2> QED BY <1>1, <1>2, <1>3, <2>1, AdvanceOK
<1>5. r \in Seq(EdgeType) /\ Own(p, NoSpace) = Pending(p) \cup Top(p)
  BY <1>2 DEF ShapeOK, Own
<1>6. Pending(r) \subseteq Pending(p)
  <2>1. \A x \in 1 .. Len(r) : x \in 1 .. Len(p) /\ r[x] = p[x]
    BY <1>1, <1>2
  <2> QED BY <2>1, <1>1, <1>5, PendingIs
<1>7. f \in Node
  BY <1>1, EdgeTyped
<1>9. ASSUME NEW x \in i .. Len(p), NEW a \in Nat, Child(p[x].node, a) \in Node
      PROVE  Below(f, Child(p[x].node, a))
  <2>1. x \in 1 .. Len(p) /\ i <= x
    BY <1>1
  <2>2. p[x].node \in Node /\ Below(f, p[x].node)
    BY <1>1, <2>1, EdgeTyped, EdgesAbove
  <2>3. Below(p[x].node, Child(p[x].node, a))
    BY <2>2, <1>9, Children
  <2> QED BY <1>7, <1>9, <2>2, <2>3, BelowOrder
<1>10. ASSUME NEW n \in Own(p, NoSpace), n \notin Pending(r)
       PROVE  Below(f, n)
  <2>0. n \in Node
    BY OwnNodes
  <2>1. CASE n \in Pending(p)
    <3>1. PICK x \in 1 .. Len(p) : \E a \in p[x].alt + 1 .. p[x].altMax : n = Child(p[x].node, a)
      BY <1>1, <2>1, PendingIs
    <3>2. PICK a \in p[x].alt + 1 .. p[x].altMax : n = Child(p[x].node, a)
      BY <3>1
    <3>3. x \notin 1 .. Len(r)
      BY <1>2, <1>5, <1>10, <3>2, PendingIs
    <3>4. x \in i .. Len(p) /\ a \in Nat
      BY <1>1, <1>2, <3>2, <3>3, Apart
    <3> QED BY <2>0, <3>2, <3>4, <1>9
  <2>2. CASE n \in Top(p)
    <3>1. n = Child(p[Len(p)].node, p[Len(p)].alt) /\ p[Len(p)].alt \in Nat /\ Len(p) \in i .. Len(p)
      BY <1>1, <2>2, EdgeTyped DEF Top
    <3> QED BY <2>0, <3>1, <1>9
  <2> QED BY <2>1, <2>2, <1>5
<1> QED BY <1>4, <1>5, <1>6, <1>10
(* an edge that differs only in what SearchPath does not look at *)
Alike(EdgeType, q, p) ==
  /\ q \in Seq(EdgeType) /\ Len(q) = Len(p)
  /\ \A j \in 1 .. Len(p) :
       /\ q[j].node = p[j].node /\ q[j].space = p[j].space /\ q[j].alternatives = p[j].alternatives
       /\ q[j].alt = p[j].alt /\ q[j].altMax = p[j].altMax

LEMMA AlikeOK ==
  ASSUME NEW Node, NEW Alternatives, NEW EdgeType,
         PathAssumption(Node, Alternatives, EdgeType),
         NEW ng \in Nat, NEW p, ShapeOK(Alternatives, EdgeType, p, ng), NEW q, Alike(EdgeType, q, p)
  PROVE  /\ ShapeOK(Alternatives, EdgeType, q, ng) /\ Pending(q) = Pending(p) /\ Top(q) = Top(p)
         /\ OpenEdges(q) = OpenEdges(p)
         /\ \A c, k : PointsOK(p, c, k) => PointsOK(q, c, k)
<1>1. /\ p \in Seq(EdgeType) /\ q \in Seq(EdgeType) /\ Len(p) \in Nat /\ Len(q) = Len(p)
      /\ p = <<>> <=> q = <<>>
  BY DEF ShapeOK, Alike
<1>2. \A j \in 1 .. Len(p) :
        /\ q[j].node = p[j].node /\ q[j].space = p[j].space
        /\ q[j].alt = p[j].alt /\ q[j].altMax = p[j].altMax
        /\ LAO(q[j]) <=> LAO(p[j])
        /\ HasWork(q[j]) <=> HasWork(p[j])
        /\ HasCopy(q, j) <=> HasCopy(p, j)
        /\ \A m : Straight(q, m, j) <=> Straight(p, m, j)
  BY <1>1 DEF Alike, LAO, HasWork, HasCopy, Straight
<1>3. \A j \in 1 .. Len(p) : EdgeOK(Alternatives, EdgeType, q[j])
  <2> TAKE j \in 1 .. Len(p)
  <2>1. EdgeOK(Alternatives, EdgeType, p[j]) /\ q[j] \in EdgeType
    BY <1>1 DEF ShapeOK, EdgesOK
  <2>2. q[j].alternatives = p[j].alternatives
    BY DEF Alike
  <2> QED BY <1>2, <2>1, <2>2 DEF EdgeOK
<1>4. ShapeOK(Alternatives, EdgeType, q, ng)
  <2>1. \A j \in 1 .. Len(p) : (LAO(p[j]) => j = Len(p) /\ j > ng) /\ (HasWork(p[j]) => HasCopy(p, j))
    BY DEF ShapeOK, EdgesOK, CopiesOK
  <2>2. \A j \in 1 .. Len(q) :
          /\ q[j].node = p[j].node /\ EdgeOK(Alternatives, EdgeType, q[j])
          /\ j < Len(q) => q[j].alt = p[j].alt
          /\ LAO(q[j]) => j = Len(q) /\ j > ng
          /\ Straight(q, ng, j) => Straight(p, ng, j)
          /\ HasWork(q[j]) => HasCopy(q, j)
    BY <1>1, <1>2, <1>3, <2>1
  <2>3. Len(q) <= Len(p)
    BY <1>1
  <2> QED BY <1>1, <2>2, <2>3, Derived
<1>5. OpenEdges(q) = OpenEdges(p)
  <2>1. /\ OpenEdges(q) = {i \in 1 .. Len(p) : HasWork(q[i])}
        /\ OpenEdges(p) = {i \in 1 .. Len(p) : HasWork(p[i])}
    BY <1>1, OpenFinite
  <2> QED BY <1>2, <2>1
<1>6. Pending(q) = Pending(p)
  BY <1>1, <1>2, SamePending
<1>7. p # <<>> => /\ Len(p) \in 1 .. Len(p) /\ Last(q) = q[Len(p)] /\ Last(p) = p[Len(p)]
                  /\ HasCopy(q, Len(q)) <=> HasCopy(p, Len(p))
  BY <1>1, <1>2 DEF Last
<1>8. p # <<>> => /\ Last(q).node = Last(p).node /\ Last(q).alt = Last(p).alt
                  /\ Last(q).altMax = Last(p).altMax /\ (LAO(Last(q)) <=> LAO(Last(p)))
  BY <1>2, <1>7
<1>9. p = <<>> => ~HasCopy(q, Len(q)) /\ ~HasCopy(p, Len(p))
  BY <1>1 DEF HasCopy
<1>10. \A c, k : PointsOK(p, c, k) => PointsOK(q, c, k)
  BY <1>1, <1>7, <1>8, <1>9 DEF PointsOK
<1>11. Top(q) = Top(p)
  BY <1>1, <1>8 DEF Top
<1> QED BY <1>4, <1>5, <1>6, <1>10, <1>11

(* the clone that a recomputation starts from *)
LEMMA LastCopyOK ==
  ASSUME NEW Node, NEW Alternatives, NEW EdgeType,
         PathAssumption(Node, Alternatives, EdgeType),
         NEW ng \in Nat, NEW p, ShapeOK(Alternatives, EdgeType, p, ng), HasCopy(p, Len(p)),
         NEW l, l = LastCopy(p)
  PROVE  /\ l \in 1 .. Len(p) /\ p[l].space = p[l].node /\ p[l].space # NoSpace
         /\ \A j \in l + 1 .. Len(p) : p[j].space = NoSpace
<1>1. p \in Seq(EdgeType) /\ Len(p) \in Nat /\ Len(p) # 0
  BY DEF ShapeOK, HasCopy
<1>2. Len(p) \in 1 .. Len(p)
  BY <1>1
<1>3. l = SelectLastInSubSeq(p, 1, Len(p), LAMBDA e : e.space # NoSpace)
  BY DEF LastCopy, SelectLastInSeq, SelectLastInSubSeq
<1>4. l \in 1 .. Len(p) /\ p[l].space # NoSpace /\ \A j \in l + 1 .. Len(p) : p[j].space = NoSpace
  BY <1>1, <1>2, <1>3, LastCopyIs
<1>5. p[l].space = p[l].node
  BY <1>4 DEF ShapeOK, EdgesOK, EdgeOK
<1> QED BY <1>4, <1>5

LEMMA LastCopySame ==
  ASSUME NEW Node, NEW Alternatives, NEW EdgeType,
         PathAssumption(Node, Alternatives, EdgeType),
         NEW ng \in Nat, NEW p, ShapeOK(Alternatives, EdgeType, p, ng), HasCopy(p, Len(p)),
         NEW q, Alike(EdgeType, q, p)
  PROVE  LastCopy(q) = LastCopy(p)
<1> DEFINE l == LastCopy(p)
           k == LastCopy(q)
<1>1. Len(q) = Len(p) /\ Len(p) \in Nat /\ \A j \in 1 .. Len(p) : q[j].space = p[j].space
  BY DEF Alike, ShapeOK
<1>2. l \in 1 .. Len(p) /\ p[l].space # NoSpace /\ \A j \in l + 1 .. Len(p) : p[j].space = NoSpace
  <2> HIDE DEF l
  <2> QED BY LastCopyOK DEF l
<1>3. HasCopy(q, Len(q)) /\ ShapeOK(Alternatives, EdgeType, q, ng)
  BY <1>1, AlikeOK DEF HasCopy
<1>4. k \in 1 .. Len(q) /\ q[k].space # NoSpace /\ \A j \in k + 1 .. Len(q) : q[j].space = NoSpace
  <2> HIDE DEF k
  <2> QED BY <1>3, LastCopyOK DEF k
<1> HIDE DEF l, k
<1>5. l = k
  <2>1. ~(l < k) /\ ~(k < l)
    <3>1. ASSUME l < k PROVE FALSE
      <4>1. k \in l + 1 .. Len(p)
        BY <1>1, <1>2, <1>4, <3>1
      <4> QED BY <4>1, <1>1, <1>2, <1>4
    <3>2. ASSUME k < l PROVE FALSE
      <4>1. l \in k + 1 .. Len(q)
        BY <1>1, <1>2, <1>4, <3>2
      <4> QED BY <4>1, <1>1, <1>2, <1>4
    <3> QED BY <3>1, <3>2
  <2> QED BY <2>1, <1>2, <1>4
<1> QED BY <1>5 DEF l, k

(***************************************************************************)
(* The path of a sequential engine: every alternative of an edge is its    *)
(* own to take, and no open edge is w or more above the last clone.        *)
(***************************************************************************)
CopyNear(p, i, w) == \E j \in 1 .. i : p[j].space # NoSpace /\ i - j < w
Whole(p) == \A i \in 1 .. Len(p) : p[i].altMax = p[i].alternatives - 1
Near(p, w) == \A i \in 1 .. Len(p) : HasWork(p[i]) => CopyNear(p, i, w)

SeqOK(Node, Alternatives, EdgeType, p, c, x, ng, w) ==
  /\ WorkerOK(Node, Alternatives, EdgeType, p, c, x, ng, Cardinality(OpenEdges(p)))
  /\ w \in Nat /\ w > 0
  /\ Whole(p) /\ Near(p, w)
  /\ c = NoSpace /\ p # <<>> => CopyNear(p, Len(p), w)
  /\ c # NoSpace /\ p # <<>> => x \in {0, Distance(p)}

LEMMA CopyAt ==
  ASSUME NEW T, NEW p \in Seq(T), NEW j \in 1 .. Len(p), p[j].space # NoSpace,
         \A i \in j + 1 .. Len(p) : p[i].space = NoSpace
  PROVE  LastCopy(p) = j
<1> DEFINE c == LastCopy(p)
<1>1. Len(p) \in Nat /\ Len(p) \in 1 .. Len(p) /\ HasCopy(p, Len(p))
  BY DEF HasCopy
<1>2. c = SelectLastInSubSeq(p, 1, Len(p), LAMBDA e : e.space # NoSpace)
  BY DEF LastCopy, SelectLastInSeq, SelectLastInSubSeq
<1>3. c \in 1 .. Len(p) /\ p[c].space # NoSpace /\ \A i \in c + 1 .. Len(p) : p[i].space = NoSpace
  <2> HIDE DEF c
  <2> QED BY <1>1, <1>2, LastCopyIs
<1> HIDE DEF c
<1>4. ~(c < j) /\ ~(j < c)
  BY <1>1, <1>3
<1> QED BY <1>3, <1>4 DEF c

(* a clone nearby bounds the distance of a recomputation *)
LEMMA NearDistance ==
  ASSUME NEW Node, NEW Alternatives, NEW EdgeType,
         PathAssumption(Node, Alternatives, EdgeType),
         NEW ng \in Nat, NEW p, ShapeOK(Alternatives, EdgeType, p, ng), NEW w \in Nat, CopyNear(p, Len(p), w)
  PROVE  Distance(p) \in Nat /\ Distance(p) <= w
<1>1. p \in Seq(EdgeType) /\ Len(p) \in Nat
  BY DEF ShapeOK
<1>2. PICK j \in 1 .. Len(p) : p[j].space # NoSpace /\ Len(p) - j < w
  BY DEF CopyNear
<1>3. HasCopy(p, Len(p))
  BY <1>2 DEF HasCopy
<1>4. PICK c \in 1 .. Len(p) : c = LastCopy(p) /\ \A i \in c + 1 .. Len(p) : p[i].space = NoSpace
  BY <1>3, LastCopyOK
<1>5. ~(c < j)
  BY <1>1, <1>2, <1>4
<1> QED BY <1>1, <1>2, <1>4, <1>5 DEF Distance

(* unwinding keeps the edges below *)
LEMMA NearCut ==
  ASSUME NEW p, NEW q, NEW w \in Nat, Whole(p), Near(p, w), Len(q) \in Nat, Len(p) \in Nat, Len(q) <= Len(p),
         \A i \in 1 .. Len(q) : q[i] = p[i]
  PROVE  Whole(q) /\ Near(q, w)
<1>1. \A i \in 1 .. Len(q) : i \in 1 .. Len(p) /\ \A j \in 1 .. i : j \in 1 .. Len(q)
  OBVIOUS
<1>2. Whole(q)
  BY <1>1 DEF Whole
<1>3. \A i \in 1 .. Len(q) : CopyNear(p, i, w) => CopyNear(q, i, w)
  BY <1>1 DEF CopyNear
<1> QED BY <1>1, <1>2, <1>3 DEF Near

LEMMA NearNext ==
  ASSUME NEW Node, NEW Alternatives, NEW EdgeType,
         PathAssumption(Node, Alternatives, EdgeType),
         NEW ng \in Nat, NEW p, ShapeOK(Alternatives, EdgeType, p, ng), NEW w \in Nat,
         Whole(p), Near(p, w), NEW q, q = NextAlt(p)
  PROVE  Whole(q) /\ Near(q, w) /\ (q # <<>> => CopyNear(q, Len(q), w))
<1>0. p \in Seq(EdgeType) /\ Len(p) \in Nat
  BY DEF ShapeOK
<1>1. CASE q = <<>>
  BY <1>1 DEF Whole, Near
<1>2. ASSUME NEW i \in 1 .. Len(p), HasWork(p[i]), q = MovedOn(p, i)
      PROVE  Whole(q) /\ Near(q, w) /\ CopyNear(q, Len(q), w)
  <2> DEFINE s == SubSeq(p, 1, i)
  <2>1. s \in Seq(EdgeType) /\ Len(s) = i /\ \A j \in 1 .. i : s[j] = p[j]
    BY <1>0
  <2>2. q = [s EXCEPT ![i] = [s[i] EXCEPT !.alt = s[i].alt + 1]]
    BY <1>2 DEF MovedOn
  <2> HIDE DEF s
  <2>3. p[i] \in EdgeType /\ p[i].alt \in Nat /\ p[i].altMax \in Nat /\ p[i].alt + 1 \in Nat
    BY <1>0, EdgeTyped
  <2> DEFINE f == [p[i] EXCEPT !.alt = p[i].alt + 1]
  <2>4. /\ f \in EdgeType /\ f.space = p[i].space /\ f.alt = p[i].alt + 1
        /\ f.altMax = p[i].altMax /\ f.alternatives = p[i].alternatives
    BY <2>3, AltChanged
  <2>5. q = [s EXCEPT ![i] = f] /\ i \in 1 .. Len(s)
    <3>1. s[i] = p[i] /\ i \in 1 .. Len(s)
      BY <2>1
    <3>2. [s[i] EXCEPT !.alt = s[i].alt + 1] = f
      BY <3>1
    <3> HIDE DEF f
    <3> QED BY <2>2, <3>1, <3>2
  <2> HIDE DEF f
  <2>6. Len(q) = i /\ q[i] = f /\ \A j \in 1 .. i : j # i => q[j] = p[j]
    BY <2>1, <2>4, <2>5, UpdateIs
  <2>7. \A j \in 1 .. i : /\ j \in 1 .. Len(p) /\ q[j].space = p[j].space /\ q[j].altMax = p[j].altMax
                          /\ q[j].alternatives = p[j].alternatives /\ (HasWork(q[j]) => HasWork(p[j]))
    BY <1>0, <1>2, <2>4, <2>6
  <2>8. \A j \in 1 .. i : CopyNear(p, j, w) => CopyNear(q, j, w)
    BY <2>7 DEF CopyNear
  <2>9. \A j \in 1 .. i : HasWork(p[j]) => CopyNear(q, j, w)
    BY <2>7, <2>8 DEF Near
  <2>10. Whole(q)
    BY <2>6, <2>7 DEF Whole
  <2>11. i \in 1 .. i
    OBVIOUS
  <2> QED BY <1>2, <2>6, <2>7, <2>9, <2>10, <2>11 DEF Near
<1> QED BY <1>1, <1>2, NextAltIs

(* the current space is done with *)
LEMMA SeqAdvance ==
  ASSUME NEW Node, NEW Alternatives, NEW EdgeType,
         PathAssumption(Node, Alternatives, EdgeType),
         NEW p, NEW c, NEW x, NEW ng, NEW w, SeqOK(Node, Alternatives, EdgeType, p, c, x, ng, w),
         NEW y \in Nat, NEW q, q = NextAlt(p)
  PROVE  /\ SeqOK(Node, Alternatives, EdgeType, q, NoSpace, y, ng, w)
         /\ Own(q, NoSpace) = Pending(p)
<1>1. /\ ng \in Nat /\ w \in Nat /\ w > 0 /\ ShapeOK(Alternatives, EdgeType, p, ng)
      /\ Whole(p) /\ Near(p, w)
  BY DEF SeqOK, WorkerOK
<1>2. Whole(q) /\ Near(q, w) /\ (q # <<>> => CopyNear(q, Len(q), w))
  BY <1>1, NearNext
<1>3. \E n : WorkerOK(Node, Alternatives, EdgeType, q, NoSpace, y, ng, n)
  BY <1>1, AdvanceOK
<1>4. Own(q, NoSpace) = Pending(p)
  BY <1>1, AdvanceOK
<1> QED BY <1>1, <1>2, <1>3, <1>4 DEF SeqOK, WorkerOK

(* the path is unwound to below an edge, and advanced *)
LEMMA SeqUnwind ==
  ASSUME NEW Node, NEW Alternatives, NEW EdgeType,
         PathAssumption(Node, Alternatives, EdgeType),
         NEW p, NEW x, NEW ng, NEW w, SeqOK(Node, Alternatives, EdgeType, p, NoSpace, x, ng, w), p # <<>>,
         NEW i \in 1 .. Len(p), NEW y \in Nat, NEW q, q = NextAlt(SubSeq(p, 1, i - 1))
  PROVE  /\ SeqOK(Node, Alternatives, EdgeType, q, NoSpace, y, ng, w)
         /\ Own(q, NoSpace) \subseteq Own(p, NoSpace)
         /\ \A n \in Own(p, NoSpace) \ Own(q, NoSpace) : Below(p[i].node, n)
<1> DEFINE s == SubSeq(p, 1, i - 1)
<1>1. /\ ng \in Nat /\ w \in Nat /\ w > 0 /\ ShapeOK(Alternatives, EdgeType, p, ng)
      /\ Whole(p) /\ Near(p, w) /\ Len(p) \in Nat
  BY DEF SeqOK, WorkerOK, ShapeOK
<1>2. ShapeOK(Alternatives, EdgeType, s, ng) /\ Len(s) = i - 1 /\ \A j \in 1 .. i - 1 : s[j] = p[j]
  <2>1. i - 1 \in 0 .. Len(p)
    BY <1>1
  <2> DEFINE m == i - 1
  <2>2. s = SubSeq(p, 1, m)
    OBVIOUS
  <2>3. m = i - 1 /\ m \in 0 .. Len(p)
    BY <2>1
  <2> HIDE DEF s, m
  <2>4. ShapeOK(Alternatives, EdgeType, s, ng)
    BY <1>1, <2>2, <2>3, UnwindOK
  <2>5. Len(s) = m
    BY <1>1, <2>2, <2>3, UnwindOK
  <2>6. \A j \in 1 .. m : s[j] = p[j]
    BY <1>1, <2>2, <2>3, UnwindOK
  <2> QED BY <2>3, <2>4, <2>5, <2>6
<1> HIDE DEF s
<1>3. Whole(s) /\ Near(s, w)
  BY <1>1, <1>2, NearCut
<1>4. Whole(q) /\ Near(q, w) /\ (q # <<>> => CopyNear(q, Len(q), w))
  BY <1>1, <1>2, <1>3, NearNext DEF s
<1>5. WorkerOK(Node, Alternatives, EdgeType, p, NoSpace, x, ng, Cardinality(OpenEdges(p)))
  BY DEF SeqOK
<1>6. /\ \E n : WorkerOK(Node, Alternatives, EdgeType, q, NoSpace, y, ng, n)
      /\ Own(q, NoSpace) \subseteq Own(p, NoSpace)
      /\ \A n \in Own(p, NoSpace) \ Own(q, NoSpace) : Below(p[i].node, n)
  <2> DEFINE left == Cardinality(OpenEdges(p)) - Cardinality({z \in OpenEdges(p) : z >= i})
  <2>1. left = Cardinality(OpenEdges(p)) - Cardinality({z \in OpenEdges(p) : z >= i})
    OBVIOUS
  <2> HIDE DEF left
  <2> QED BY <1>5, <2>1, UnwoundOK
<1> QED BY <1>1, <1>4, <1>6 DEF SeqOK, WorkerOK

(* the clone on the topmost edge is used up *)
LEMMA SeqReuse ==
  ASSUME NEW Node, NEW Alternatives, NEW EdgeType,
         PathAssumption(Node, Alternatives, EdgeType),
         NEW p, NEW x, NEW ng, NEW w, SeqOK(Node, Alternatives, EdgeType, p, NoSpace, x, ng, w), p # <<>>,
         CanReuse(p), NEW q, q = Reuse(p, ng), NEW c, c = Child(Last(p).node, Last(p).alt)
  PROVE  /\ SeqOK(Node, Alternatives, EdgeType, q, c, 0, ng, w)
         /\ Last(p).space = Last(p).node /\ c \in Node
         /\ Own(q, c) = Own(p, NoSpace)
<1>1. /\ ng \in Nat /\ w \in Nat /\ w > 0 /\ ShapeOK(Alternatives, EdgeType, p, ng)
      /\ Whole(p) /\ Near(p, w) /\ PointsOK(p, NoSpace, x) /\ p \in Seq(EdgeType) /\ Len(p) \in Nat /\ Len(p) # 0
  BY DEF SeqOK, WorkerOK, ShapeOK
<1>2. ~LAO(Last(p)) /\ Last(p) = p[Len(p)] /\ Len(p) \in 1 .. Len(p)
  BY <1>1 DEF PointsOK, Last
<1>3. /\ ShapeOK(Alternatives, EdgeType, q, ng)
      /\ Last(p).space = Last(p).node /\ c \in Node
      /\ PointsOK(q, c, 0)
      /\ Pending(q) = Pending(p)
  BY <1>1, <1>2, ReuseOK
<1>4. c # NoSpace
  BY <1>3, NodeSeq
<1>5. WorkerOK(Node, Alternatives, EdgeType, q, c, 0, ng, Cardinality(OpenEdges(q)))
  BY <1>1, <1>3 DEF WorkerOK
<1>6. Own(q, c) = Own(p, NoSpace)
  BY <1>3, <1>4 DEF Own, Top
<1> DEFINE o == Len(p)
           y == IF o > ng THEN p[o].alt + 1 ELSE p[o].alt
           f == [p[o] EXCEPT !.space = NoSpace, !.alt = y]
<1>7. p[o] \in EdgeType /\ p[o].alt \in Nat /\ p[o].altMax \in Nat /\ y \in Nat
  BY <1>1, <1>2, EdgeTyped
<1>8. f \in EdgeType /\ f.alternatives = p[o].alternatives /\ f.altMax = p[o].altMax /\ f.alt = y
  <2> HIDE DEF y
  <2> QED BY <1>7 DEF PathAssumption, EdgeFacts, Changed
<1>9. q = [p EXCEPT ![o] = f]
  BY <1>2 DEF Reuse
<1>10. Rightmost(p[o])
  BY <1>2 DEF CanReuse
<1> HIDE DEF f
<1>11. Len(q) = o /\ q[o] = f /\ \A j \in 1 .. o : j # o => q[j] = p[j]
  BY <1>1, <1>2, <1>8, <1>9, UpdateIs
<1>12. ~HasWork(q[o])
  BY <1>7, <1>8, <1>10, <1>11 DEF HasWork, Rightmost
<1>13. Whole(q)
  BY <1>1, <1>8, <1>11 DEF Whole
<1>14. Near(q, w)
  <2> SUFFICES ASSUME NEW i \in 1 .. Len(q), HasWork(q[i]) PROVE CopyNear(q, i, w)
    BY DEF Near
  <2>1. i # o /\ q[i] = p[i] /\ i \in 1 .. Len(p)
    BY <1>11, <1>12
  <2>2. CopyNear(p, i, w)
    BY <1>1, <2>1 DEF Near
  <2>3. \A j \in 1 .. i : j \in 1 .. o /\ j # o
    BY <1>1, <1>11, <2>1
  <2> QED BY <1>11, <2>2, <2>3 DEF CopyNear
<1> QED BY <1>1, <1>3, <1>4, <1>5, <1>6, <1>13, <1>14 DEF SeqOK

(* recomputation from the last clone *)
LEMMA SeqRecompute ==
  ASSUME NEW Node, NEW Alternatives, NEW EdgeType,
         PathAssumption(Node, Alternatives, EdgeType),
         NEW p, NEW x, NEW ng, NEW w, SeqOK(Node, Alternatives, EdgeType, p, NoSpace, x, ng, w), p # <<>>,
         NEW c, c = Commits(p, LastCopy(p), Len(p))
  PROVE  /\ c = Child(Last(p).node, Last(p).alt) /\ c \in Node
         /\ SeqOK(Node, Alternatives, EdgeType, p, c, Distance(p), ng, w)
         /\ Distance(p) \in Nat /\ Distance(p) <= w
         /\ Own(p, c) = Own(p, NoSpace)
<1>1. /\ ng \in Nat /\ w \in Nat /\ w > 0 /\ ShapeOK(Alternatives, EdgeType, p, ng)
      /\ Whole(p) /\ Near(p, w) /\ PointsOK(p, NoSpace, x) /\ CopyNear(p, Len(p), w)
  BY DEF SeqOK, WorkerOK
<1>2. c = Child(Last(p).node, Last(p).alt) /\ c \in Node /\ Distance(p) \in Nat
  <2>1. 0 \in Nat
    OBVIOUS
  <2> QED BY <1>1, <2>1, RecomputeOK
<1>3. c # NoSpace
  BY <1>2, NodeSeq
<1>4. Distance(p) <= w
  BY <1>1, NearDistance
<1>5. HasCopy(p, Len(p)) /\ ~LAO(Last(p))
  BY <1>1 DEF PointsOK
<1>6. WorkerOK(Node, Alternatives, EdgeType, p, c, Distance(p), ng, Cardinality(OpenEdges(p)))
  BY <1>1, <1>2, <1>5 DEF WorkerOK, PointsOK
<1>7. Own(p, c) = Own(p, NoSpace)
  BY <1>2, <1>3 DEF Own, Top
<1> QED BY <1>1, <1>2, <1>3, <1>4, <1>6, <1>7 DEF SeqOK

(* the edge for another clone is above the last one *)
LEMMA AdaptiveAbove ==
  ASSUME NEW Node, NEW Alternatives, NEW EdgeType,
         PathAssumption(Node, Alternatives, EdgeType),
         NEW ng \in Nat, NEW p, ShapeOK(Alternatives, EdgeType, p, ng), HasCopy(p, Len(p)),
         NEW aD \in Nat, PlacesCopy(p, aD)
  PROVE  AdaptiveEdge(p) \in LastCopy(p) + 1 .. Len(p)
<1> DEFINE c == LastCopy(p)
           o == Len(p)
           h == Distance(p) \div 2
           I == {j \in c + h .. o : ~Rightmost(p[j])}
           i == AdaptiveEdge(p)
<1>1. o \in Nat /\ c \in 1 .. o
  <2>1. c \in 1 .. o
    BY LastCopyOK
  <2> QED BY <2>1 DEF ShapeOK
<1>2. Distance(p) = o - c + 1
  BY DEF Distance
<1>3. i = LET x == IF I # {} THEN Min(I) ELSE 0 IN IF x = 0 THEN o + 1 ELSE x
  BY DEF AdaptiveEdge, SelectInSubSeq
<1>4. i < o
  BY DEF PlacesCopy
<1> HIDE DEF c
<1>5. h \in Nat /\ Distance(p) \in Nat /\ (Distance(p) >= 2 => h >= 1)
  BY <1>1, <1>2
<1> HIDE DEF h
<1>6. I # {}
  BY <1>1, <1>3, <1>4
<1>7. I \in SUBSET Nat
  BY <1>1, <1>5
<1> HIDE DEF I
<1>8. Min(I) \in I
  BY <1>6, <1>7, HasLeast
<1>9. i = Min(I)
  <2>1. ~(o + 1 < o)
    BY <1>1
  <2> HIDE DEF i
  <2> QED BY <1>3, <1>4, <1>6, <2>1
<1> HIDE DEF i
<1>10. i \in c + h .. o
  BY <1>8, <1>9 DEF I
<1>11. Distance(p) >= 2
  BY <1>1, <1>2, <1>4, <1>5, <1>10
<1>12. i \in c + 1 .. o
  BY <1>1, <1>5, <1>10, <1>11
<1> QED BY <1>12 DEF i, c, o

(* and leaving another clone on the way *)
LEMMA SeqPlace ==
  ASSUME NEW Node, NEW Alternatives, NEW EdgeType,
         PathAssumption(Node, Alternatives, EdgeType),
         NEW p, NEW x, NEW ng, NEW w, SeqOK(Node, Alternatives, EdgeType, p, NoSpace, x, ng, w), p # <<>>,
         NEW aD \in Nat, PlacesCopy(p, aD), NEW i, i = AdaptiveEdge(p),
         NEW c, c = Child(Last(p).node, Last(p).alt), NEW q, q = Placed(p, i)
  PROVE  /\ i \in 1 .. Len(p) /\ p[i].node \in Node
         /\ Commits(p, LastCopy(p), i - 1) = p[i].node
         /\ SeqOK(Node, Alternatives, EdgeType, q, c, Len(p) - i + 1, ng, w)
         /\ Own(q, c) = Own(p, NoSpace)
<1>1. /\ ng \in Nat /\ w \in Nat /\ w > 0 /\ ShapeOK(Alternatives, EdgeType, p, ng) /\ p \in Seq(EdgeType)
      /\ Whole(p) /\ Near(p, w) /\ PointsOK(p, NoSpace, x) /\ HasCopy(p, Len(p)) /\ Len(p) \in Nat /\ Len(p) # 0
  BY DEF SeqOK, WorkerOK, ShapeOK, PointsOK
<1>2. /\ i \in 1 .. Len(p) /\ ~LAO(p[i]) /\ Len(p) - i + 1 \in Nat
      /\ Commits(p, LastCopy(p), i - 1) = p[i].node
      /\ Child(Last(p).node, Last(p).alt) \in Node
  BY <1>1, RecomputeOK
<1>3. i \in LastCopy(p) + 1 .. Len(p)
  BY <1>1, AdaptiveAbove
<1>4. \A j \in LastCopy(p) + 1 .. Len(p) : p[j].space = NoSpace
  BY <1>1, LastCopyOK
<1>5. LastCopy(p) \in 1 .. Len(p)
  BY <1>1, LastCopyOK
<1>6. p[i].node \in Node /\ p[i].node # NoSpace
  BY <1>1, <1>2, EdgeTyped, NodeSeq
<1>7. /\ ShapeOK(Alternatives, EdgeType, q, ng) /\ Len(q) = Len(p) /\ q # <<>>
      /\ Pending(q) = Pending(p)
      /\ Last(q).node = Last(p).node /\ Last(q).alt = Last(p).alt /\ (LAO(Last(q)) <=> LAO(Last(p)))
      /\ HasCopy(q, Len(q))
  BY <1>1, <1>2, PlaceOK
<1>8. /\ q \in Seq(EdgeType)
      /\ q[i].space = p[i].node
      /\ \A j \in 1 .. Len(p) : /\ q[j].alt = p[j].alt /\ q[j].altMax = p[j].altMax
                                /\ q[j].alternatives = p[j].alternatives
                                /\ j # i => q[j].space = p[j].space
  <2> DEFINE f == [p[i] EXCEPT !.space = p[i].node]
  <2>1. p[i] \in EdgeType
    BY <1>1, <1>2
  <2>2. /\ f \in EdgeType /\ f.node = p[i].node /\ f.alternatives = p[i].alternatives
        /\ f.space = p[i].node /\ f.alt = p[i].alt /\ f.altMax = p[i].altMax
    BY <2>1, <1>6, CopyChanged
  <2>3. q = [p EXCEPT ![i] = f]
    BY DEF Placed
  <2> HIDE DEF f
  <2>4. q \in Seq(EdgeType) /\ q[i] = f /\ \A j \in 1 .. Len(p) : j # i => q[j] = p[j]
    BY <1>1, <1>2, <2>2, <2>3, UpdateIs
  <2> QED BY <2>2, <2>4
<1>9. LastCopy(q) = i
  <2>1. i \in 1 .. Len(q) /\ q[i].space # NoSpace
    BY <1>2, <1>6, <1>7, <1>8
  <2>2. \A j \in i + 1 .. Len(q) : q[j].space = NoSpace
    <3> TAKE j \in i + 1 .. Len(q)
    <3>1. j \in LastCopy(p) + 1 .. Len(p) /\ j # i /\ j \in 1 .. Len(p)
      BY <1>1, <1>2, <1>3, <1>5, <1>7
    <3> QED BY <3>1, <1>4, <1>8
  <2> QED BY <1>8, <2>1, <2>2, CopyAt
<1>10. Distance(q) = Len(p) - i + 1
  BY <1>7, <1>9 DEF Distance
<1>11. Whole(q)
  <2>1. Whole(p) /\ Len(q) = Len(p)
    BY <1>1, <1>7
  <2> QED BY <1>8, <2>1 DEF Whole
<1>12. \A j \in 1 .. Len(p) : q[j].space = NoSpace => p[j].space = NoSpace
  BY <1>6, <1>8
<1>13. Near(q, w)
  <2> SUFFICES ASSUME NEW j \in 1 .. Len(q), HasWork(q[j]) PROVE CopyNear(q, j, w)
    BY DEF Near
  <2>1. j \in 1 .. Len(p) /\ HasWork(p[j])
    BY <1>7, <1>8 DEF HasWork
  <2>2. CopyNear(p, j, w)
    BY <1>1, <2>1 DEF Near
  <2>3. \A y \in 1 .. j : y \in 1 .. Len(p)
    BY <1>1, <2>1
  <2> QED BY <1>12, <2>2, <2>3 DEF CopyNear
<1>14. c \in Node /\ c # NoSpace
  BY <1>2, NodeSeq
<1>15. ~LAO(Last(q))
  BY <1>1, <1>7 DEF PointsOK
<1>16. WorkerOK(Node, Alternatives, EdgeType, q, c, Len(p) - i + 1, ng, Cardinality(OpenEdges(q)))
  BY <1>1, <1>2, <1>7, <1>14, <1>15 DEF WorkerOK, PointsOK
<1>17. Own(q, c) = Own(p, NoSpace)
  BY <1>7, <1>14 DEF Own, Top
<1> QED BY <1>1, <1>2, <1>6, <1>10, <1>11, <1>13, <1>14, <1>16, <1>17 DEF SeqOK

(* push() replaces a reusable topmost edge *)
Pushed(T, p, e, q) ==
  /\ q \in Seq(T) /\ q # <<>> /\ Len(q) \in 1 .. Len(p) + 1 /\ Len(q) >= Len(p) /\ q[Len(q)] = e
  /\ \A i \in 1 .. Len(q) : i # Len(q) => i \in 1 .. Len(p) /\ q[i] = p[i]
  /\ p = <<>> \/ ~LAO(Last(p)) => Len(q) = Len(p) + 1

LEMMA PushIs ==
  ASSUME NEW T, NEW p \in Seq(T), NEW e \in T
  PROVE  Pushed(T, p, e, Push(p, e))
<1> DEFINE q == Push(p, e)
<1>0. q = Push(p, e)
  OBVIOUS
<1> HIDE DEF q
<1>1. CASE p # <<>> /\ LAO(Last(p))
  <2>1. q = Append(SubSeq(p, 1, Len(p) - 1), e)
    BY <1>0, <1>1 DEF Push, Front
  <2>2. Len(p) \in Nat /\ Len(p) # 0
    BY <1>1
  <2> DEFINE b == SubSeq(p, 1, Len(p) - 1)
  <2>3. b \in Seq(T) /\ Len(b) = Len(p) - 1 /\ \A i \in 1 .. Len(b) : b[i] = p[i]
    <3> DEFINE n == Len(p) - 1
    <3>1. n \in 0 .. Len(p) /\ n \in Nat
      BY <2>2
    <3> HIDE DEF n
    <3>2. SubSeq(p, 1, n) \in Seq(T) /\ Len(SubSeq(p, 1, n)) = n
      BY <3>1
    <3>3. \A i \in 1 .. n : SubSeq(p, 1, n)[i] = p[i]
      BY <3>1
    <3> QED BY <3>2, <3>3 DEF n
  <2>4. q = Append(b, e)
    BY <2>1
  <2> HIDE DEF b
  <2>5. q \in Seq(T) /\ q # <<>> /\ Len(q) = Len(b) + 1 /\ q[Len(q)] = e /\ \A i \in 1 .. Len(b) : q[i] = b[i]
    BY <2>3, <2>4
  <2>6. Pushed(T, p, e, q)
    BY <1>1, <2>2, <2>3, <2>5 DEF Pushed
  <2> QED BY <2>6 DEF q
<1>2. CASE ~(p # <<>> /\ LAO(Last(p)))
  <2>1. q = Append(p, e)
    BY <1>0, <1>2 DEF Push
  <2>2. q \in Seq(T) /\ q # <<>> /\ Len(q) = Len(p) + 1 /\ q[Len(q)] = e /\ \A i \in 1 .. Len(p) : q[i] = p[i]
    BY <2>1
  <2>3. Pushed(T, p, e, q)
    BY <1>2, <2>2 DEF Pushed
  <2> QED BY <2>3 DEF q
<1> QED BY <1>1, <1>2 DEF q

(* a node gives way to its children *)
Split(F, c, n) == (F \ {c}) \cup {Child(c, a) : a \in 0 .. n - 1}

(* a choice goes on the path, with a clone if the last one is too far away *)
LEMMA SeqBranch ==
  ASSUME NEW Node, NEW Alternatives, NEW EdgeType,
         PathAssumption(Node, Alternatives, EdgeType),
         NEW p, NEW c \in Node, NEW x, NEW ng, NEW w, SeqOK(Node, Alternatives, EdgeType, p, c, x, ng, w),
         Alternatives[c] > 0, NEW copy \in {c, NoSpace}, copy = NoSpace => x # 0 /\ x < w,
         NEW e \in EdgeType, e.node = c, e.space = copy, e.alt = 0,
         e.altMax = Alternatives[c] - 1, e.alternatives = Alternatives[c],
         NEW y, y = IF copy = c THEN 1 ELSE x + 1, NEW q, q = Push(p, e)
  PROVE  /\ SeqOK(Node, Alternatives, EdgeType, q, Child(c, 0), y, ng, w)
         /\ Own(q, Child(c, 0)) = Split(Own(p, c), c, Alternatives[c])
<1>1. /\ ng \in Nat /\ x \in Nat /\ w \in Nat /\ w > 0 /\ c # NoSpace /\ ShapeOK(Alternatives, EdgeType, p, ng)
      /\ Whole(p) /\ Near(p, w) /\ PointsOK(p, c, x) /\ p \in Seq(EdgeType) /\ Len(p) \in Nat
      /\ (p # <<>> => x \in {0, Distance(p)})
      /\ WorkerOK(Node, Alternatives, EdgeType, p, c, x, ng, Cardinality(OpenEdges(p)))
  BY NodeSeq DEF SeqOK, WorkerOK, ShapeOK
<1>2. y \in Nat \ {0}
  BY <1>1
<1>3. /\ \E n : WorkerOK(Node, Alternatives, EdgeType, q, Child(c, 0), y, ng, n)
      /\ Own(q, Child(c, 0)) = (Own(p, c) \ {c}) \cup {Child(c, a) : a \in 0 .. Alternatives[c] - 1}
  <2> DEFINE open == Cardinality(OpenEdges(p))
             m == IF HasWork(e) THEN open + 1 ELSE open
  <2>1. WorkerOK(Node, Alternatives, EdgeType, p, c, x, ng, open) /\ (copy = NoSpace => x # 0)
    BY <1>1
  <2> HIDE DEF open
  <2>2. WorkerOK(Node, Alternatives, EdgeType, Push(p, e), Child(c, 0), y, ng, m)
    BY <1>2, <2>1, BranchOK
  <2>3. Own(Push(p, e), Child(c, 0)) = (Own(p, c) \ {c}) \cup {Child(c, a) : a \in 0 .. Alternatives[c] - 1}
    BY <1>2, <2>1, BranchOK
  <2> HIDE DEF m
  <2> QED BY <2>2, <2>3
<1>4. /\ q \in Seq(EdgeType) /\ q # <<>> /\ Len(q) \in 1 .. Len(p) + 1 /\ Len(q) >= Len(p) /\ q[Len(q)] = e
      /\ \A i \in 1 .. Len(q) : i # Len(q) => i \in 1 .. Len(p) /\ q[i] = p[i]
      /\ p = <<>> \/ ~LAO(Last(p)) => Len(q) = Len(p) + 1
  <2>1. Pushed(EdgeType, p, e, q)
    BY <1>1, PushIs
  <2> QED BY <2>1 DEF Pushed
<1>5. Len(q) \in Nat /\ Len(q) \in 1 .. Len(q) /\ Len(q) # 0
  BY <1>1, <1>4
<1>6. Whole(q)
  <2> SUFFICES ASSUME NEW i \in 1 .. Len(q) PROVE q[i].altMax = q[i].alternatives - 1
    BY DEF Whole
  <2>1. CASE i = Len(q)
    BY <2>1, <1>4
  <2>2. CASE i # Len(q)
    <3>1. i \in 1 .. Len(p) /\ q[i] = p[i]
      BY <2>2, <1>4
    <3> QED BY <3>1, <1>1 DEF Whole
  <2> QED BY <2>1, <2>2
<1>7. \E j \in 1 .. Len(q) : /\ q[j].space # NoSpace /\ (\A i \in j + 1 .. Len(q) : q[i].space = NoSpace)
                            /\ Len(q) - j + 1 = y /\ Len(q) - j < w
  <2>1. CASE copy = c
    <3>1. q[Len(q)].space # NoSpace /\ y = 1
      BY <2>1, <1>1, <1>4
    <3>2. Len(q) - Len(q) + 1 = 1 /\ Len(q) - Len(q) < w /\ \A i \in Len(q) + 1 .. Len(q) : FALSE
      BY <1>1, <1>5
    <3> QED BY <3>1, <3>2, <1>5
  <2>2. CASE copy # c
    <3>1. copy = NoSpace /\ x # 0 /\ x < w /\ y = x + 1
      BY <2>2
    <3>2. HasCopy(p, Len(p)) /\ p # <<>> /\ ~LAO(Last(p)) /\ x = Distance(p)
      BY <3>1, <1>1 DEF PointsOK, HasCopy
    <3>3. Len(q) = Len(p) + 1
      BY <3>2, <1>4
    <3>4. PICK j \in 1 .. Len(p) : /\ j = LastCopy(p) /\ p[j].space # NoSpace
                                   /\ \A i \in j + 1 .. Len(p) : p[i].space = NoSpace
      BY <1>1, <3>2, LastCopyOK
    <3>5. x = Len(p) - j + 1
      BY <3>2, <3>4 DEF Distance
    <3>6. j \in 1 .. Len(q) /\ j # Len(q)
      BY <3>3, <1>1
    <3>7. q[j].space # NoSpace
      BY <3>4, <3>6, <1>4
    <3>8. \A i \in j + 1 .. Len(q) : q[i].space = NoSpace
      <4> TAKE i \in j + 1 .. Len(q)
      <4>1. CASE i = Len(q)
        BY <4>1, <1>4, <3>1
      <4>2. CASE i # Len(q)
        <5>1. i \in 1 .. Len(q) /\ i \in j + 1 .. Len(p)
          BY <4>2, <3>3, <1>1
        <5> QED BY <5>1, <4>2, <1>4, <3>4
      <4> QED BY <4>1, <4>2
    <3>9. Len(q) - j + 1 = y /\ Len(q) - j < w
      BY <3>1, <3>3, <3>5, <1>1
    <3> QED BY <3>6, <3>7, <3>8, <3>9
  <2> QED BY <2>1, <2>2
<1>8. PICK j \in 1 .. Len(q) : /\ q[j].space # NoSpace /\ (\A i \in j + 1 .. Len(q) : q[i].space = NoSpace)
                              /\ Len(q) - j + 1 = y /\ Len(q) - j < w
  BY <1>7
<1>9. LastCopy(q) = j
  BY <1>4, <1>8, CopyAt
<1>10. Distance(q) = y
  BY <1>8, <1>9 DEF Distance
<1>11. Near(q, w)
  <2> SUFFICES ASSUME NEW i \in 1 .. Len(q), HasWork(q[i]) PROVE CopyNear(q, i, w)
    BY DEF Near
  <2>1. CASE i = Len(q)
    BY <2>1, <1>8 DEF CopyNear
  <2>2. CASE i # Len(q)
    <3>1. i \in 1 .. Len(p) /\ q[i] = p[i]
      BY <2>2, <1>4
    <3>2. CopyNear(p, i, w)
      BY <3>1, <1>1 DEF Near
    <3>3. \A m \in 1 .. i : m \in 1 .. Len(q) /\ m # Len(q)
      BY <2>2, <1>5
    <3> QED BY <3>2, <3>3, <1>4 DEF CopyNear
  <2> QED BY <2>1, <2>2
<1>12. Child(c, 0) # NoSpace
  <2>1. Child(c, 0) \in Node
    <3>1. Alternatives[c] \in Nat
      BY TreeIs
    <3>2. 0 \in 0 .. Alternatives[c] - 1
      BY <3>1
    <3> QED BY <3>2, TreeIs
  <2> QED BY <2>1, NodeSeq
<1>13. WorkerOK(Node, Alternatives, EdgeType, q, Child(c, 0), y, ng, Cardinality(OpenEdges(q)))
  BY <1>3 DEF WorkerOK
<1> QED BY <1>1, <1>3, <1>6, <1>10, <1>11, <1>12, <1>13 DEF SeqOK, Split

(***************************************************************************)
(* A search tree is a tree for PathProofs: its nodes are those that are    *)
(* reached from the root.                                                  *)
(***************************************************************************)
Reached(t) == {n \in DOMAIN t.alternatives : InTree(t, n)}
Offers(t) == [n \in Reached(t) |-> t.alternatives[n]]

LEMMA PrefixIs ==
  ASSUME NEW n \in Seq(Nat), NEW i \in 1 .. Len(n) + 1
  PROVE  /\ SubSeq(n, 1, i - 1) \in Seq(Nat) /\ Len(SubSeq(n, 1, i - 1)) = i - 1
         /\ \A j \in 1 .. i - 1 : SubSeq(n, 1, i - 1)[j] = n[j]
<1> DEFINE m == i - 1
<1>1. m \in 0 .. Len(n) /\ m \in Nat
  OBVIOUS
<1> HIDE DEF m
<1>2. SubSeq(n, 1, m) \in Seq(Nat) /\ Len(SubSeq(n, 1, m)) = m
  BY <1>1
<1>3. \A j \in 1 .. m : SubSeq(n, 1, m)[j] = n[j]
  BY <1>1
<1> QED BY <1>2, <1>3 DEF m

LEMMA PrefixSame ==
  ASSUME NEW n \in Seq(Nat), NEW m \in Seq(Nat), NEW i \in Nat, i >= 1, i - 1 <= Len(n), i - 1 <= Len(m),
         \A j \in 1 .. i - 1 : n[j] = m[j]
  PROVE  SubSeq(n, 1, i - 1) = SubSeq(m, 1, i - 1)
<1>1. i \in 1 .. Len(n) + 1 /\ i \in 1 .. Len(m) + 1
  OBVIOUS
<1>2. /\ SubSeq(n, 1, i - 1) \in Seq(Nat) /\ Len(SubSeq(n, 1, i - 1)) = i - 1
      /\ \A j \in 1 .. i - 1 : SubSeq(n, 1, i - 1)[j] = n[j]
  BY <1>1, PrefixIs
<1>3. /\ SubSeq(m, 1, i - 1) \in Seq(Nat) /\ Len(SubSeq(m, 1, i - 1)) = i - 1
      /\ \A j \in 1 .. i - 1 : SubSeq(m, 1, i - 1)[j] = m[j]
  BY <1>1, PrefixIs
<1> DEFINE x == SubSeq(n, 1, i - 1)
           y == SubSeq(m, 1, i - 1)
<1>4. x \in Seq(Nat) /\ y \in Seq(Nat) /\ Len(x) = Len(y) /\ \A j \in 1 .. Len(x) : x[j] = y[j]
  BY <1>2, <1>3
<1> HIDE DEF x, y
<1>5. x = y
  BY <1>4, SeqSame
<1> QED BY <1>5 DEF x, y

LEMMA TreeAssumed ==
  ASSUME NEW t, NEW S, IsTree(t, S), NoSpace \notin S
  PROVE  TreeFacts(Reached(t), Offers(t)) /\ Reached(t) \subseteq S /\ t.solved \subseteq Reached(t)
<1>1. /\ S \subseteq Seq(Nat) /\ <<>> \in S /\ t.alternatives \in [S -> Nat] /\ t.solved \subseteq S
      /\ \A n \in S : \A a \in 0 .. t.alternatives[n] - 1 : Child(n, a) \in S
      /\ \A s \in t.solved : t.alternatives[s] = 0 /\ InTree(t, s)
  BY DEF IsTree
<1>2. DOMAIN t.alternatives = S
  BY <1>1
<1>3. Reached(t) = {n \in S : InTree(t, n)}
  BY <1>2 DEF Reached
<1>4. <<>> \in Reached(t)
  BY <1>1, <1>3 DEF InTree
<1>5. Offers(t) \in [Reached(t) -> Nat] /\ \A n \in Reached(t) : Offers(t)[n] = t.alternatives[n]
  BY <1>1, <1>3 DEF Offers
<1>6. ASSUME NEW n \in Reached(t), NEW a \in 0 .. t.alternatives[n] - 1 PROVE Child(n, a) \in Reached(t)
  <2>1. n \in S /\ n \in Seq(Nat) /\ Child(n, a) \in S /\ t.alternatives[n] \in Nat /\ a \in Nat /\ InTree(t, n)
    BY <1>1, <1>3, <1>6
  <2>2. /\ Child(n, a) \in Seq(Nat) /\ Len(Child(n, a)) = Len(n) + 1 /\ Child(n, a)[Len(n) + 1] = a
        /\ \A i \in 1 .. Len(n) : Child(n, a)[i] = n[i]
    BY <2>1, ChildIs
  <2>3. InTree(t, Child(n, a))
    <3> SUFFICES ASSUME NEW i \in 1 .. Len(Child(n, a))
                 PROVE  /\ SubSeq(Child(n, a), 1, i - 1) \in S
                        /\ Child(n, a)[i] \in 0 .. t.alternatives[SubSeq(Child(n, a), 1, i - 1)] - 1
      BY <1>2 DEF InTree
    <3>1. Len(n) \in Nat /\ i \in Nat /\ i >= 1 /\ i <= Len(n) + 1
      BY <2>1, <2>2
    <3>2. SubSeq(Child(n, a), 1, i - 1) = SubSeq(n, 1, i - 1)
      <4>1. i - 1 <= Len(n) /\ i - 1 <= Len(Child(n, a)) /\ \A j \in 1 .. i - 1 : Child(n, a)[j] = n[j]
        BY <2>2, <3>1
      <4> QED BY <2>1, <2>2, <3>1, <4>1, PrefixSame
    <3>3. CASE i = Len(n) + 1
      <4>1. SubSeq(n, 1, i - 1) = n
        <5>1. /\ SubSeq(n, 1, i - 1) \in Seq(Nat) /\ Len(SubSeq(n, 1, i - 1)) = i - 1
              /\ \A j \in 1 .. i - 1 : SubSeq(n, 1, i - 1)[j] = n[j]
          BY <2>1, <3>1, PrefixIs
        <5> DEFINE x == SubSeq(n, 1, i - 1)
        <5>2. x \in Seq(Nat) /\ Len(x) = Len(n) /\ \A j \in 1 .. Len(x) : x[j] = n[j]
          BY <3>1, <3>3, <5>1
        <5> HIDE DEF x
        <5>3. x = n
          BY <2>1, <5>2, SeqSame
        <5> QED BY <5>3 DEF x
      <4> QED BY <2>1, <2>2, <3>2, <3>3, <4>1, <1>6
    <3>4. CASE i # Len(n) + 1
      <4>1. i \in 1 .. Len(n) /\ Child(n, a)[i] = n[i]
        BY <2>2, <3>1, <3>4
      <4>2. SubSeq(n, 1, i - 1) \in S /\ n[i] \in 0 .. t.alternatives[SubSeq(n, 1, i - 1)] - 1
        BY <1>2, <2>1, <4>1 DEF InTree
      <4> QED BY <3>2, <4>1, <4>2
    <3> QED BY <3>3, <3>4
  <2> QED BY <1>3, <2>1, <2>3
<1>7. ASSUME NEW n \in Reached(t), NEW i \in 1 .. Len(n)
      PROVE  SubSeq(n, 1, i - 1) \in Reached(t) /\ n[i] \in 0 .. t.alternatives[SubSeq(n, 1, i - 1)] - 1
  <2>1. n \in S /\ n \in Seq(Nat) /\ InTree(t, n) /\ Len(n) \in Nat /\ i \in 1 .. Len(n) + 1
    BY <1>1, <1>3
  <2>2. /\ SubSeq(n, 1, i - 1) \in Seq(Nat) /\ Len(SubSeq(n, 1, i - 1)) = i - 1
        /\ \A j \in 1 .. i - 1 : SubSeq(n, 1, i - 1)[j] = n[j]
    BY <2>1, PrefixIs
  <2>3. SubSeq(n, 1, i - 1) \in S /\ n[i] \in 0 .. t.alternatives[SubSeq(n, 1, i - 1)] - 1
    BY <1>2, <2>1 DEF InTree
  <2> DEFINE x == SubSeq(n, 1, i - 1)
  <2>4. InTree(t, x)
    <3> SUFFICES ASSUME NEW j \in 1 .. Len(x)
                 PROVE  SubSeq(x, 1, j - 1) \in S /\ x[j] \in 0 .. t.alternatives[SubSeq(x, 1, j - 1)] - 1
      BY <1>2 DEF InTree
    <3>1. x \in Seq(Nat) /\ Len(x) = i - 1 /\ \A y \in 1 .. i - 1 : x[y] = n[y]
      BY <2>2
    <3> HIDE DEF x
    <3>2. j \in Nat /\ j >= 1 /\ j - 1 <= Len(x) /\ j - 1 <= Len(n) /\ x[j] = n[j] /\ j \in 1 .. Len(n)
          /\ \A y \in 1 .. j - 1 : x[y] = n[y]
      BY <2>1, <3>1
    <3>3. SubSeq(x, 1, j - 1) = SubSeq(n, 1, j - 1)
      BY <2>1, <3>1, <3>2, PrefixSame
    <3>4. SubSeq(n, 1, j - 1) \in S /\ n[j] \in 0 .. t.alternatives[SubSeq(n, 1, j - 1)] - 1
      BY <1>2, <2>1, <3>2 DEF InTree
    <3> QED BY <3>2, <3>3, <3>4
  <2> QED BY <1>3, <2>3, <2>4
<1>8. Reached(t) \subseteq S /\ t.solved \subseteq Reached(t)
  BY <1>1, <1>3
<1>9. Reached(t) \subseteq Seq(Nat) /\ NoSpace \notin Reached(t)
  BY <1>1, <1>8
<1>10. \A n \in Reached(t) : \A a \in 0 .. Offers(t)[n] - 1 : Child(n, a) \in Reached(t)
  BY <1>5, <1>6
<1>11. \A n \in Reached(t) : \A i \in 1 .. Len(n) :
         SubSeq(n, 1, i - 1) \in Reached(t) /\ n[i] \in 0 .. Offers(t)[SubSeq(n, 1, i - 1)] - 1
  BY <1>5, <1>7
<1> QED BY <1>4, <1>5, <1>8, <1>9, <1>10, <1>11 DEF TreeFacts

(* every edge's clone is a clone of its node, and the path points to the current space *)
PointsTo(p, c) ==
  /\ \A i \in DOMAIN p : p[i].space \in {NoSpace, p[i].node}
  /\ \A i \in 1 .. Len(p) - 1 :
       LET n == Child(p[i].node, p[i].alt)
       IN  IF p[i+1].space = NoSpace /\ ~LAO(p[i+1])
           THEN p[i+1].node = n ELSE Below(n, p[i+1].node)
  /\ p # <<>> /\ c # NoSpace => c = Child(Last(p).node, TrueAlt(Last(p)))

LEMMA TrueAltIs ==
  ASSUME NEW Node, NEW Alternatives, NEW EdgeType,
         PathAssumption(Node, Alternatives, EdgeType),
         NEW ng \in Nat, NEW p, ShapeOK(Alternatives, EdgeType, p, ng), Whole(p), NEW i \in 1 .. Len(p)
  PROVE  TrueAlt(p[i]) = (IF LAO(p[i]) THEN p[i].altMax ELSE p[i].alt) /\ TrueAlt(p[i]) \in Nat
<1>1. /\ p[i].alt \in Nat /\ p[i].altMax \in Nat /\ p[i].alternatives \in Nat
      /\ p[i].altMax = p[i].alternatives - 1 /\ p[i].alt <= p[i].altMax + 1
  BY EdgeTyped DEF ShapeOK, EdgesOK, EdgeOK, Whole
<1> QED BY <1>1 DEF TrueAlt, LAO

LEMMA SeqPoints ==
  ASSUME NEW Node, NEW Alternatives, NEW EdgeType,
         PathAssumption(Node, Alternatives, EdgeType),
         NEW p, NEW c, NEW x, NEW ng, NEW w, SeqOK(Node, Alternatives, EdgeType, p, c, x, ng, w)
  PROVE  PointsTo(p, c)
<1>1. ng \in Nat /\ ShapeOK(Alternatives, EdgeType, p, ng) /\ PointsOK(p, c, x) /\ Whole(p)
  BY DEF SeqOK, WorkerOK
<1>2. p \in Seq(EdgeType) /\ Len(p) \in Nat /\ DOMAIN p = 1 .. Len(p)
  BY <1>1 DEF ShapeOK
<1>3. \A i \in DOMAIN p : p[i].space \in {NoSpace, p[i].node}
  BY <1>1, <1>2 DEF ShapeOK, EdgesOK, EdgeOK
<1>4. ASSUME NEW i \in 1 .. Len(p) - 1
      PROVE  IF p[i+1].space = NoSpace /\ ~LAO(p[i+1])
             THEN p[i+1].node = Child(p[i].node, p[i].alt) ELSE Below(Child(p[i].node, p[i].alt), p[i+1].node)
  <2> DEFINE j == i + 1
  <2>1. i \in 1 .. Len(p) /\ j \in 1 .. Len(p) /\ i < j /\ i <= j /\ i + 1 .. j = {j} /\ j - i = 1 /\ i \in Nat
    BY <1>2
  <2>2. Below(Child(p[i].node, p[i].alt), p[j].node)
    BY <1>1, <2>1 DEF ShapeOK, BelowOK
  <2>3. ASSUME p[j].space = NoSpace, ~LAO(p[j]) PROVE p[j].node = Child(p[i].node, p[i].alt)
    <3>1. Straight(p, ng, j)
      BY <2>3 DEF Straight
    <3>2. p[j].node = p[i].node \o Turns(p, i, j)
      <4>1. \A k \in i + 1 .. j : Straight(p, ng, k)
        BY <2>1, <3>1
      <4> HIDE DEF j
      <4> QED BY <1>1, <2>1, <4>1 DEF ShapeOK, TurnsOK
    <3>3. p[i].node \in Node /\ p[i].alt \in Nat
      BY <1>2, <2>1, EdgeTyped
    <3>4. p[i].node \in Seq(Nat)
      BY <3>3, NodeSeq
    <3>5. Turns(p, i, j) = <<p[i].alt>>
      <4>1. Turns(p, i, j) = [k \in 1 .. 1 |-> p[i + k - 1].alt]
        BY <2>1 DEF Turns
      <4>2. \A k \in 1 .. 1 : i + k - 1 = i
        BY <2>1
      <4>3. Turns(p, i, j) = [k \in 1 .. 1 |-> p[i].alt]
        BY <4>1, <4>2
      <4> HIDE DEF j
      <4> QED BY <4>3, <3>3
    <3> HIDE DEF j
    <3> DEFINE n == p[i].node
               a == p[i].alt
    <3>6. n \in Seq(Nat) /\ a \in Nat /\ p[j].node = n \o <<a>>
      BY <3>2, <3>3, <3>4, <3>5
    <3> HIDE DEF n, a
    <3>7. n \o <<a>> = Append(n, a)
      BY <3>6
    <3>8. p[j].node = Child(n, a)
      BY <3>6, <3>7 DEF Child
    <3> QED BY <3>8 DEF n, a
  <2> QED BY <2>2, <2>3
<1>5. ASSUME p # <<>>, c # NoSpace PROVE c = Child(Last(p).node, TrueAlt(Last(p)))
  <2>1. Len(p) \in 1 .. Len(p) /\ Last(p) = p[Len(p)]
    BY <1>2, <1>5 DEF Last
  <2>2. TrueAlt(Last(p)) = IF LAO(Last(p)) THEN Last(p).altMax ELSE Last(p).alt
    BY <1>1, <2>1, TrueAltIs
  <2> QED BY <1>1, <1>5, <2>2 DEF PointsOK
<1> QED BY <1>3, <1>4, <1>5 DEF PointsTo

(* where the subtrees are that are still to be explored *)
LEMMA OwnWhere ==
  ASSUME NEW Node, NEW Alternatives, NEW EdgeType,
         PathAssumption(Node, Alternatives, EdgeType),
         NEW p, NEW c, NEW x, NEW ng, NEW w, SeqOK(Node, Alternatives, EdgeType, p, c, x, ng, w),
         NEW n \in Own(p, c), NEW i \in 1 .. Len(p)
  PROVE  /\ TrueAlt(p[i]) \in Nat /\ p[i].node \in Node
         /\ \/ \E b \in Nat : b >= TrueAlt(p[i]) /\ Child(p[i].node, b) \in Node /\ Below(Child(p[i].node, b), n)
            \/ \E j \in 1 .. i - 1 : \E b \in p[j].alt + 1 .. p[j].altMax : n = Child(p[j].node, b)
<1>1. ng \in Nat /\ ShapeOK(Alternatives, EdgeType, p, ng) /\ PointsOK(p, c, x) /\ Whole(p)
  BY DEF SeqOK, WorkerOK
<1>2. p \in Seq(EdgeType) /\ Len(p) \in Nat /\ p # <<>> /\ Last(p) = p[Len(p)] /\ Len(p) \in 1 .. Len(p)
  BY <1>1 DEF ShapeOK, Last
<1>3. /\ p[i].node \in Node /\ p[i].alt \in Nat /\ p[i].altMax \in Nat
      /\ TrueAlt(p[i]) = (IF LAO(p[i]) THEN p[i].altMax ELSE p[i].alt) /\ TrueAlt(p[i]) \in Nat
  BY <1>1, <1>2, EdgeTyped, TrueAltIs
<1>4. n \in Node
  BY OwnNodes DEF SeqOK
<1>5. CASE n \in Pending(p)
  <2>1. PICK j \in 1 .. Len(p) : \E b \in p[j].alt + 1 .. p[j].altMax : n = Child(p[j].node, b)
    BY <1>2, <1>5, PendingIs
  <2>2. PICK b \in p[j].alt + 1 .. p[j].altMax : n = Child(p[j].node, b)
    BY <2>1
  <2>3. b \in Nat /\ Child(p[j].node, b) \in Node /\ p[j].node \in Node
    BY <1>1, <1>2, <2>2, Apart, EdgeTyped
  <2>4. Below(n, n) /\ Below(p[j].node, n)
    BY <1>4, <2>2, <2>3, BelowOrder, Children
  <2>5. CASE j < i
    <3>1. j \in 1 .. i - 1
      BY <2>5, <1>2
    <3> QED BY <1>3, <2>2, <3>1
  <2>6. CASE j = i
    <3>1. b >= TrueAlt(p[i])
      BY <1>3, <2>2, <2>6 DEF LAO
    <3> QED BY <1>3, <2>2, <2>3, <2>4, <2>6, <3>1
  <2>7. CASE i < j
    <3>1. ~LAO(p[i])
      BY <1>1, <1>2, <2>7 DEF ShapeOK, EdgesOK
    <3>2. Child(p[i].node, p[i].alt) \in Node
      BY <1>1, <3>1, EdgeChild DEF ShapeOK, EdgesOK
    <3>3. Below(Child(p[i].node, p[i].alt), p[j].node)
      BY <1>1, <2>7 DEF ShapeOK, BelowOK
    <3>4. Below(Child(p[i].node, p[i].alt), n)
      BY <1>4, <2>3, <2>4, <3>2, <3>3, BelowOrder
    <3> QED BY <1>3, <3>1, <3>2, <3>4
  <2> QED BY <1>2, <2>5, <2>6, <2>7
<1>6. CASE n \notin Pending(p)
  <2> DEFINE o == Len(p)
             a == IF LAO(p[o]) THEN p[o].altMax ELSE p[o].alt
  <2>1. n = Child(p[o].node, a)
    BY <1>1, <1>2, <1>6 DEF Own, Top, PointsOK
  <2>2. p[o].node \in Node /\ a \in Nat
    BY <1>2, EdgeTyped
  <2> HIDE DEF a
  <2>3. Below(n, n) /\ Below(p[o].node, n)
    BY <1>4, <2>1, <2>2, BelowOrder, Children
  <2>4. CASE i = o
    <3>1. TrueAlt(p[i]) = a
      BY <1>3, <2>4 DEF a
    <3> HIDE DEF o
    <3>2. a >= TrueAlt(p[i])
      BY <2>2, <3>1
    <3> QED BY <1>3, <1>4, <2>1, <2>2, <2>3, <2>4, <3>2
  <2>5. CASE i # o
    <3>0. i < o
      BY <1>2, <2>5
    <3>1. ~LAO(p[i])
      BY <1>1, <1>2, <3>0 DEF ShapeOK, EdgesOK
    <3>2. Child(p[i].node, p[i].alt) \in Node
      BY <1>1, <3>1, EdgeChild DEF ShapeOK, EdgesOK
    <3>3. Below(Child(p[i].node, p[i].alt), p[o].node)
      BY <1>1, <1>2, <3>0 DEF ShapeOK, BelowOK
    <3>4. Below(Child(p[i].node, p[i].alt), n)
      BY <1>4, <2>2, <2>3, <3>2, <3>3, BelowOrder
    <3> QED BY <1>3, <3>1, <3>2, <3>4
  <2> QED BY <2>4, <2>5
<1> QED BY <1>5, <1>6

LEMMA SeqNogoods ==
  ASSUME NEW Node, NEW Alternatives, NEW EdgeType,
         PathAssumption(Node, Alternatives, EdgeType),
         NEW p, NEW c, NEW x, NEW ng, NEW w, SeqOK(Node, Alternatives, EdgeType, p, c, x, ng, w),
         NEW i \in 1 .. Len(p), NEW a \in Nat, a < TrueAlt(p[i]), NEW n \in Own(p, c)
  PROVE  ~Below(Child(p[i].node, a), n)
<1>1. ng \in Nat /\ ShapeOK(Alternatives, EdgeType, p, ng) /\ Whole(p) /\ p \in Seq(EdgeType) /\ n \in Node
  BY OwnNodes DEF SeqOK, WorkerOK, ShapeOK
<1>2. /\ TrueAlt(p[i]) \in Nat /\ p[i].node \in Node
      /\ \/ \E b \in Nat : b >= TrueAlt(p[i]) /\ Child(p[i].node, b) \in Node /\ Below(Child(p[i].node, b), n)
         \/ \E j \in 1 .. i - 1 : \E b \in p[j].alt + 1 .. p[j].altMax : n = Child(p[j].node, b)
  BY OwnWhere
<1>4. Child(p[i].node, a) \in Node
  <2>1. /\ TrueAlt(p[i]) = (IF LAO(p[i]) THEN p[i].altMax ELSE p[i].alt)
        /\ p[i].alt \in Nat /\ p[i].altMax \in Nat /\ p[i].altMax < Alternatives[p[i].node]
        /\ Alternatives[p[i].node] \in Nat
    <3>1. /\ p[i].alt \in Nat /\ p[i].altMax \in Nat
          /\ TrueAlt(p[i]) = (IF LAO(p[i]) THEN p[i].altMax ELSE p[i].alt) /\ TrueAlt(p[i]) \in Nat
      BY <1>1, EdgeTyped, TrueAltIs
    <3>3. p[i].altMax < Alternatives[p[i].node]
      BY <1>1 DEF ShapeOK, EdgesOK, EdgeOK
    <3>4. Alternatives[p[i].node] \in Nat
      BY <1>2, TreeIs
    <3> QED BY <3>1, <3>3, <3>4
  <2>2. a \in 0 .. Alternatives[p[i].node] - 1
    BY <2>1 DEF LAO
  <2> QED BY <1>2, <2>2, TreeIs
<1>5. CASE \E b \in Nat : b >= TrueAlt(p[i]) /\ Child(p[i].node, b) \in Node /\ Below(Child(p[i].node, b), n)
  <2>1. PICK b \in Nat : b >= TrueAlt(p[i]) /\ Child(p[i].node, b) \in Node /\ Below(Child(p[i].node, b), n)
    BY <1>5
  <2>2. a # b
    BY <1>2, <2>1
  <2> QED BY <1>1, <1>2, <1>4, <2>1, <2>2, Children
<1>6. CASE \E j \in 1 .. i - 1 : \E b \in p[j].alt + 1 .. p[j].altMax : n = Child(p[j].node, b)
  <2>1. PICK j \in 1 .. i - 1 : \E b \in p[j].alt + 1 .. p[j].altMax : n = Child(p[j].node, b)
    BY <1>6
  <2>2. PICK b \in p[j].alt + 1 .. p[j].altMax : n = Child(p[j].node, b)
    BY <2>1
  <2>3. j \in 1 .. Len(p) /\ j < i
    OBVIOUS
  <2>4. ~Below(p[i].node, n)
    BY <1>1, <2>2, <2>3, Apart
  <2>5. Below(p[i].node, Child(p[i].node, a))
    BY <1>2, <1>4, Children
  <2> QED BY <1>1, <1>2, <1>4, <2>4, <2>5, BelowOrder
<1> QED BY <1>2, <1>5, <1>6

(* what is left to take is right of the current space *)
LEMMA PendingRight ==
  ASSUME NEW Node, NEW Alternatives, NEW EdgeType,
         PathAssumption(Node, Alternatives, EdgeType),
         NEW p, NEW c, NEW x, NEW ng, NEW w, SeqOK(Node, Alternatives, EdgeType, p, c, x, ng, w),
         c # NoSpace, NEW n \in Pending(p)
  PROVE  \E m \in Node : \E a, b \in Nat :
           /\ a < b /\ n = Child(m, b) /\ n \in Node
           /\ Child(m, a) \in Node /\ Below(Child(m, a), c)
<1>1. /\ ng \in Nat /\ ShapeOK(Alternatives, EdgeType, p, ng) /\ PointsOK(p, c, x) /\ Whole(p)
      /\ c \in Node
  BY DEF SeqOK, WorkerOK
<1>2. p \in Seq(EdgeType)
  BY <1>1 DEF ShapeOK
<1>3. PICK i \in 1 .. Len(p) : \E b \in p[i].alt + 1 .. p[i].altMax : n = Child(p[i].node, b)
  BY <1>2, PendingIs
<1>4. PICK b \in p[i].alt + 1 .. p[i].altMax : n = Child(p[i].node, b)
  BY <1>3
<1>5. b \in Nat /\ Child(p[i].node, b) \in Node
  BY <1>1, <1>4, Apart
<1>6. /\ p[i].node \in Node /\ p[i].alt \in Nat /\ p[i].altMax \in Nat /\ p[i].alt < b /\ ~LAO(p[i])
  BY <1>2, <1>4, EdgeTyped DEF LAO
<1>7. Child(p[i].node, p[i].alt) \in Node
  BY <1>1, <1>6, EdgeChild DEF ShapeOK, EdgesOK
<1>8. Below(Child(p[i].node, p[i].alt), c)
  <2> DEFINE o == Len(p)
  <2>0. p # <<>> /\ Last(p) = p[o] /\ o \in 1 .. o /\ o \in Nat
    BY <1>2 DEF Last
  <2>1. CASE i = o
    <3>1. c = Child(p[i].node, p[i].alt)
      BY <1>1, <1>6, <2>0, <2>1 DEF PointsOK
    <3> QED BY <1>1, <3>1, BelowOrder
  <2>2. CASE i # o
    <3>1. i < o
      BY <2>0, <2>2
    <3>2. Below(Child(p[i].node, p[i].alt), p[o].node)
      BY <1>1, <2>0, <3>1 DEF ShapeOK, BelowOK
    <3> DEFINE a == IF LAO(p[o]) THEN p[o].altMax ELSE p[o].alt
    <3>3. c = Child(p[o].node, a) /\ p[o].node \in Node /\ a \in Nat
      BY <1>1, <1>2, <2>0, EdgeTyped DEF PointsOK
    <3> HIDE DEF a, o
    <3>4. Below(p[o].node, c)
      BY <1>1, <3>3, Children
    <3> QED BY <1>1, <1>7, <3>2, <3>3, <3>4, BelowOrder
  <2> QED BY <2>1, <2>2
<1> QED BY <1>4, <1>5, <1>6, <1>7, <1>8

LEMMA NotLeftOf ==
  ASSUME NEW m \in Seq(Nat), NEW a \in Nat, NEW b \in Nat, a < b, NEW c \in Seq(Nat), NEW t \in Seq(Nat),
         Below(Child(m, a), c), Below(Child(m, b), t)
  PROVE  ~LeftOf(t, c)
<1> DEFINE k == Len(m) + 1
<1>0. k \in Nat /\ Len(m) \in Nat /\ Len(c) \in Nat /\ Len(t) \in Nat
  OBVIOUS
<1>1. /\ Child(m, a) \in Seq(Nat) /\ Len(Child(m, a)) = k /\ Child(m, a)[k] = a
      /\ \A i \in 1 .. Len(m) : Child(m, a)[i] = m[i]
  BY ChildIs
<1>2. /\ Child(m, b) \in Seq(Nat) /\ Len(Child(m, b)) = k /\ Child(m, b)[k] = b
      /\ \A i \in 1 .. Len(m) : Child(m, b)[i] = m[i]
  BY ChildIs
<1>3. k <= Len(c) /\ \A i \in 1 .. k : Child(m, a)[i] = c[i]
  BY <1>1, BelowIs
<1>4. k <= Len(t) /\ \A i \in 1 .. k : Child(m, b)[i] = t[i]
  BY <1>2, BelowIs
<1>5. c[k] = a /\ t[k] = b
  BY <1>0, <1>1, <1>2, <1>3, <1>4
<1>6. \A i \in 1 .. Len(m) : c[i] = t[i] /\ c[i] \in Nat /\ i \in 1 .. k
  <2> TAKE i \in 1 .. Len(m)
  <2>1. i \in 1 .. k /\ i \in 1 .. Len(c)
    BY <1>0, <1>3
  <2>2. Child(m, a)[i] = m[i] /\ Child(m, b)[i] = m[i] /\ Child(m, a)[i] = c[i] /\ Child(m, b)[i] = t[i]
    BY <1>1, <1>2, <1>3, <1>4, <2>1
  <2>3. c[i] \in Nat
    BY <2>1
  <2> QED BY <2>1, <2>2, <2>3
<1> SUFFICES ASSUME NEW i \in DOMAIN t \cap DOMAIN c, t[i] < c[i], \A j \in 1 .. i - 1 : t[j] = c[j] PROVE FALSE
  BY DEF LeftOf
<1>7. i \in Nat /\ i >= 1
  OBVIOUS
<1> HIDE DEF k
<1>8. ~(k < i)
  <2>1. ASSUME k < i PROVE FALSE
    <3>1. k \in 1 .. i - 1
      BY <1>0, <1>7, <2>1 DEF k
    <3> QED BY <3>1, <1>5
  <2> QED BY <2>1
<1>9. i # k
  BY <1>5
<1>10. ~(i < k)
  <2>1. ASSUME i < k PROVE FALSE
    <3>1. i \in 1 .. Len(m)
      BY <1>0, <1>7, <2>1 DEF k
    <3>2. c[i] = t[i] /\ c[i] \in Nat
      BY <1>6, <3>1
    <3> QED BY <3>2
  <2> QED BY <2>1
<1> QED BY <1>0, <1>7, <1>8, <1>9, <1>10

LEMMA NotLeftOfItself == \A t \in Seq(Nat) : ~LeftOf(t, t)
BY DEF LeftOf

(***************************************************************************)
(* The solutions below the subtrees that are still to be explored.         *)
(***************************************************************************)
Todo(t, F) == UNION {SolvedBelow(t, n) : n \in F}

LEMMA TodoIs == \A t, F, s : s \in Todo(t, F) <=> s \in t.solved /\ \E n \in F : Below(n, s)
BY DEF Todo, SolvedBelow

LEMMA TreeSolvedIs ==
  ASSUME NEW t, NEW S, IsTree(t, S), NoSpace \notin S, NEW s \in t.solved
  PROVE  /\ s \in Reached(t) /\ s \in S /\ s # NoSpace /\ Offers(t)[s] = 0
         /\ \A n \in Reached(t) : Below(s, n) => s = n
<1> DEFINE E == {}
<1>1. PathAssumption(Reached(t), Offers(t), {})
  BY TreeAssumed DEF PathAssumption, EdgeFacts
<1>2. s \in Reached(t) /\ s \in S /\ s # NoSpace /\ Reached(t) \subseteq S
  BY TreeAssumed
<1>3. Offers(t)[s] = 0
  BY <1>2 DEF IsTree, Offers
<1>4. ASSUME NEW n \in Reached(t), Below(s, n), s # n PROVE FALSE
  <2>1. \E a \in 0 .. Offers(t)[s] - 1 : TRUE
    BY <1>1, <1>2, <1>4, BelowChild
  <2> QED BY <1>3, <2>1
<1> QED BY <1>2, <1>3, <1>4

LEMMA TodoSolved ==
  ASSUME NEW EdgeType, NEW t, NEW S, IsTree(t, S), NoSpace \notin S,
         PathAssumption(Reached(t), Offers(t), EdgeType),
         NEW p, NEW c, NEW x, NEW ng, NEW w, SeqOK(Reached(t), Offers(t), EdgeType, p, c, x, ng, w),
         c \in t.solved
  PROVE  /\ c \in Todo(t, Own(p, c))
         /\ \A s \in Todo(t, Own(p, c)) : ~LeftOf(s, c)
         /\ Todo(t, Pending(p)) = Todo(t, Own(p, c)) \ {c}
<1>1. c # NoSpace /\ c \in Reached(t) /\ Reached(t) \subseteq Seq(Nat) /\ Below(c, c)
  BY TreeSolvedIs, NodeSeq, BelowOrder
<1>2. Own(p, c) = Pending(p) \cup {c}
  BY <1>1 DEF Own
<1>3. \A s \in t.solved : s \in Reached(t) /\ (Below(c, s) => s = c) /\ (Below(s, c) => s = c)
  BY <1>1, TreeSolvedIs
<1>4. ASSUME NEW n \in Pending(p), NEW s \in Reached(t), Below(n, s) PROVE s # c /\ ~LeftOf(s, c)
  <2>1. PICK m \in Reached(t) : \E a, b \in Nat :
           /\ a < b /\ n = Child(m, b) /\ n \in Reached(t)
           /\ Child(m, a) \in Reached(t) /\ Below(Child(m, a), c)
    BY <1>1, PendingRight
  <2>2. PICK a \in Nat, b \in Nat :
           /\ a < b /\ n = Child(m, b) /\ n \in Reached(t)
           /\ Child(m, a) \in Reached(t) /\ Below(Child(m, a), c)
    BY <2>1
  <2>3. m \in Seq(Nat) /\ c \in Seq(Nat) /\ s \in Seq(Nat) /\ a # b
    BY <1>1, <2>2
  <2>4. ~LeftOf(s, c)
    BY <1>4, <2>2, <2>3, NotLeftOf
  <2>5. ~Below(n, c)
    BY <1>1, <2>2, <2>3, Children
  <2> QED BY <1>4, <2>4, <2>5
<1>5. c \in Todo(t, Own(p, c))
  BY <1>1, <1>2, TodoIs
<1>6. \A s \in Todo(t, Own(p, c)) : ~LeftOf(s, c)
  <2> TAKE s \in Todo(t, Own(p, c))
  <2>1. PICK n \in Own(p, c) : s \in t.solved /\ Below(n, s)
    BY TodoIs
  <2>2. CASE n = c
    BY <1>1, <1>3, <2>1, <2>2, NotLeftOfItself
  <2>3. CASE n # c
    BY <1>2, <1>3, <1>4, <2>1, <2>3
  <2> QED BY <2>2, <2>3
<1>7. Todo(t, Pending(p)) = Todo(t, Own(p, c)) \ {c}
  <2>1. \A s : s \in Todo(t, Pending(p)) => s \in Todo(t, Own(p, c)) /\ s # c
    BY <1>2, <1>3, <1>4, TodoIs
  <2>2. \A s : s \in Todo(t, Own(p, c)) /\ s # c => s \in Todo(t, Pending(p))
    BY <1>2, <1>3, TodoIs
  <2> QED BY <2>1, <2>2
<1> QED BY <1>5, <1>6, <1>7

LEMMA TodoFailed ==
  ASSUME NEW EdgeType, NEW t, NEW S, IsTree(t, S), NoSpace \notin S,
         PathAssumption(Reached(t), Offers(t), EdgeType),
         NEW p, NEW c \in Reached(t), SolvedBelow(t, c) = {}
  PROVE  Todo(t, Pending(p)) = Todo(t, Own(p, c))
<1>1. c # NoSpace
  BY NodeSeq
<1>2. Own(p, c) = Pending(p) \cup {c}
  BY <1>1 DEF Own
<1>3. \A s \in t.solved : ~Below(c, s)
  BY DEF SolvedBelow
<1>4. \A s : s \in Todo(t, Pending(p)) <=> s \in Todo(t, Own(p, c))
  BY <1>2, <1>3, TodoIs
<1> QED BY <1>4

LEMMA TreeFailedIs ==
  ASSUME NEW t, NEW S, IsTree(t, S), NoSpace \notin S, NEW c \in Reached(t), FailedIn(t, c)
  PROVE  SolvedBelow(t, c) = {}
<1>1. PathAssumption(Reached(t), Offers(t), {})
  BY TreeAssumed DEF PathAssumption, EdgeFacts
<1>2. Offers(t)[c] = 0 /\ c \notin t.solved
  BY DEF FailedIn, Offers
<1>3. ASSUME NEW s \in t.solved, Below(c, s) PROVE FALSE
  <2>1. s \in Reached(t) /\ s # c
    BY <1>2, TreeSolvedIs
  <2>2. \E a \in 0 .. Offers(t)[c] - 1 : TRUE
    BY <1>1, <1>3, <2>1, BelowChild
  <2> QED BY <1>2, <2>2
<1> QED BY <1>3 DEF SolvedBelow

LEMMA TodoBranch ==
  ASSUME NEW t, NEW S, IsTree(t, S), NoSpace \notin S, NEW F, NEW c \in F, c \in Reached(t), Offers(t)[c] > 0
  PROVE  Todo(t, Split(F, c, Offers(t)[c])) = Todo(t, F)
<1> DEFINE G == (F \ {c}) \cup {Child(c, a) : a \in 0 .. Offers(t)[c] - 1}
<1>0. PathAssumption(Reached(t), Offers(t), {})
  BY TreeAssumed DEF PathAssumption, EdgeFacts
<1>1. PathAssumption(Reached(t), Offers(t), {}) /\ Offers(t)[c] \in Nat
  BY <1>0, TreeIs
<1>2. c \notin t.solved
  BY TreeSolvedIs
<1>3. ASSUME NEW s \in t.solved, Below(c, s) PROVE \E n \in G : Below(n, s)
  <2>1. s \in Reached(t) /\ s # c
    BY <1>2, TreeSolvedIs
  <2>2. PICK a \in 0 .. Offers(t)[c] - 1 : Below(Child(c, a), s)
    BY <1>1, <1>3, <2>1, BelowChild
  <2> QED BY <2>2
<1>4. ASSUME NEW s \in t.solved, NEW a \in 0 .. Offers(t)[c] - 1, Below(Child(c, a), s) PROVE Below(c, s)
  <2>1. s \in Reached(t) /\ Child(c, a) \in Reached(t) /\ a \in Nat
    BY <1>1, TreeSolvedIs, TreeIs
  <2>2. Below(c, Child(c, a))
    BY <1>1, <2>1, Children
  <2> QED BY <1>1, <1>4, <2>1, <2>2, BelowOrder
<1>5. \A s \in t.solved : (\E n \in G : Below(n, s)) <=> \E n \in F : Below(n, s)
  BY <1>3, <1>4
<1> HIDE DEF G
<1>6. Todo(t, G) = Todo(t, F)
  <2>1. \A s : s \in Todo(t, G) <=> s \in Todo(t, F)
    BY Zenon, <1>5, TodoIs
  <2> DEFINE X == Todo(t, G)
             Y == Todo(t, F)
  <2>2. \A s : s \in X <=> s \in Y
    BY <2>1
  <2> HIDE DEF X, Y
  <2>3. X = Y
    BY <2>2
  <2> QED BY <2>3 DEF X, Y
<1> QED BY <1>6 DEF G, Split

LEMMA TodoUnwound ==
  ASSUME NEW EdgeType, NEW t, NEW S, IsTree(t, S), NoSpace \notin S,
         PathAssumption(Reached(t), Offers(t), EdgeType), NEW F, F \subseteq Reached(t), NEW G, G \subseteq F,
         NEW m \in Reached(t), \A n \in F \ G : Below(m, n), NEW s \in t.solved, ~Below(m, s)
  PROVE  s \in Todo(t, G) <=> s \in Todo(t, F)
<1>1. s \in Reached(t)
  BY TreeSolvedIs
<1>2. \A n \in F \ G : ~Below(n, s)
  BY <1>1, BelowOrder
<1> QED BY <1>2, TodoIs

(***************************************************************************)
(* Edges with a bound.                                                     *)
(***************************************************************************)
BoundedEdges(N, B) ==
  [node : N, space : N \cup {NoSpace}, bound : B, alt : Nat, altMax : Nat, alternatives : Nat]

LEMMA BoundedPath ==
  ASSUME NEW t, NEW S, IsTree(t, S), NoSpace \notin S, NEW B
  PROVE  PathAssumption(Reached(t), Offers(t), BoundedEdges(Reached(t), B))
<1>1. TreeFacts(Reached(t), Offers(t))
  BY TreeAssumed
<1> DEFINE N == Reached(t)
<1> HIDE DEF N
<1>2. EdgeFacts(N, BoundedEdges(N, B))
  BY DEF EdgeFacts, BoundedEdges, Changed
<1> QED BY <1>1, <1>2 DEF PathAssumption, N

LEMMA BoundIs ==
  ASSUME NEW N, NEW B, NEW e \in BoundedEdges(N, B)
  PROVE  /\ e.bound \in B
         /\ \A b \in B : /\ [e EXCEPT !.bound = b] \in BoundedEdges(N, B)
                         /\ [e EXCEPT !.bound = b].node = e.node /\ [e EXCEPT !.bound = b].space = e.space
                         /\ [e EXCEPT !.bound = b].alt = e.alt /\ [e EXCEPT !.bound = b].altMax = e.altMax
                         /\ [e EXCEPT !.bound = b].alternatives = e.alternatives
                         /\ [e EXCEPT !.bound = b].bound = b
         /\ \A a, s : /\ [e EXCEPT !.alt = a].bound = e.bound
                      /\ [e EXCEPT !.space = s].bound = e.bound
                      /\ [e EXCEPT !.space = s, !.alt = a].bound = e.bound
BY DEF BoundedEdges

KeptBounds(q, p) ==
  /\ Len(q) <= Len(p)
  /\ \A j \in 1 .. Len(q) : q[j].bound = p[j].bound /\ q[j].space \in {p[j].space, NoSpace}

(* the clones on a path with the mark m, for the best solution b *)
Marked(p, m, b, V) ==
  \A i \in 1 .. Len(p) : p[i].space # NoSpace =>
    /\ i > m => p[i].bound = b
    /\ p[i].bound # NoSpace => b # NoSpace /\ V[b] <= V[p[i].bound]

LEMMA KeptMarked ==
  ASSUME NEW T, NEW p \in Seq(T), NEW q \in Seq(T), KeptBounds(q, p), NEW m, NEW b, NEW V, Marked(p, m, b, V)
  PROVE  Marked(q, m, b, V)
<1>1. \A j \in 1 .. Len(q) : j \in 1 .. Len(p)
  BY DEF KeptBounds
<1> QED BY <1>1 DEF KeptBounds, Marked

LEMMA BoundsKeptTwice ==
  ASSUME NEW T, NEW p \in Seq(T), NEW q \in Seq(T), NEW r \in Seq(T), KeptBounds(q, p), KeptBounds(r, q)
  PROVE  KeptBounds(r, p)
<1>1. Len(p) \in Nat /\ Len(q) \in Nat /\ Len(r) \in Nat /\ \A j \in 1 .. Len(r) : j \in 1 .. Len(q)
  BY DEF KeptBounds
<1> QED BY <1>1 DEF KeptBounds

LEMMA CutKept ==
  ASSUME NEW T, NEW p \in Seq(T), NEW n \in 0 .. Len(p)
  PROVE  SubSeq(p, 1, n) \in Seq(T) /\ KeptBounds(SubSeq(p, 1, n), p)
BY DEF KeptBounds

LEMMA UpdateBounds ==
  ASSUME NEW T, NEW p \in Seq(T), NEW i \in 1 .. Len(p), NEW f \in T,
         f.bound = p[i].bound, f.space \in {p[i].space, NoSpace}, NEW q, q = [p EXCEPT ![i] = f]
  PROVE  q \in Seq(T) /\ KeptBounds(q, p)
<1>1. q \in Seq(T) /\ Len(q) = Len(p) /\ q[i] = f /\ \A j \in 1 .. Len(p) : j # i => q[j] = p[j]
  BY UpdateIs
<1> QED BY <1>1 DEF KeptBounds

LEMMA NextAltBounds ==
  ASSUME NEW Node, NEW Alternatives, NEW B, NEW T, T = BoundedEdges(Node, B),
         PathAssumption(Node, Alternatives, T),
         NEW ng \in Nat, NEW p, ShapeOK(Alternatives, T, p, ng), NEW q, q = NextAlt(p)
  PROVE  q \in Seq(T) /\ KeptBounds(q, p)
<1>1. p \in Seq(T) /\ Len(p) \in Nat
  BY DEF ShapeOK
<1>2. CASE q = <<>>
  <2>1. <<>> \in Seq(T) /\ Len(<<>>) = 0
    OBVIOUS
  <2> QED BY <1>1, <1>2, <2>1 DEF KeptBounds
<1>3. ASSUME NEW i \in 1 .. Len(p), q = MovedOn(p, i) PROVE q \in Seq(T) /\ KeptBounds(q, p)
  <2> DEFINE u == SubSeq(p, 1, i)
             f == [u[i] EXCEPT !.alt = u[i].alt + 1]
  <2>2. /\ u \in Seq(T) /\ Len(u) = i /\ i \in 1 .. Len(u) /\ i \in Nat
        /\ \A j \in 1 .. i : u[j] = p[j]
    BY <1>1
  <2>3. q = [u EXCEPT ![i] = f]
    BY <1>3 DEF MovedOn
  <2>0. i \in 0 .. Len(p) /\ u = SubSeq(p, 1, i)
    BY <1>1
  <2>1. KeptBounds(u, p)
    BY <1>1, <2>0, CutKept
  <2> HIDE DEF u
  <2>4. u[i] \in T /\ u[i].alt + 1 \in Nat
    BY <2>2, EdgeTyped
  <2>5. f \in T /\ f.space = u[i].space /\ f.bound = u[i].bound
    <3>1. f \in T /\ f.space = u[i].space
      BY <2>4, AltChanged
    <3> QED BY <2>4, <3>1, BoundIs
  <2> HIDE DEF f
  <2>6. q \in Seq(T) /\ KeptBounds(q, u)
    BY <2>2, <2>3, <2>5, UpdateBounds
  <2> QED BY <1>1, <2>1, <2>2, <2>6, BoundsKeptTwice
<1> QED
  <2>1. q = <<>> \/ \E i \in 1 .. Len(p) : q = MovedOn(p, i)
    BY NextAltIs
  <2> QED BY <1>2, <1>3, <2>1

LEMMA UnwoundBounds ==
  ASSUME NEW Node, NEW Alternatives, NEW B, NEW T, T = BoundedEdges(Node, B),
         PathAssumption(Node, Alternatives, T),
         NEW ng \in Nat, NEW p, ShapeOK(Alternatives, T, p, ng), NEW i \in 1 .. Len(p),
         NEW q, q = NextAlt(SubSeq(p, 1, i - 1))
  PROVE  q \in Seq(T) /\ KeptBounds(q, p)
<1> DEFINE m == i - 1
           u == SubSeq(p, 1, m)
<1>1. p \in Seq(T) /\ Len(p) \in Nat /\ m \in 0 .. Len(p) /\ m = i - 1 /\ u = SubSeq(p, 1, m)
  BY DEF ShapeOK
<1>2. q = NextAlt(u)
  OBVIOUS
<1> HIDE DEF m, u
<1>3. u \in Seq(T) /\ KeptBounds(u, p)
  BY <1>1, CutKept
<1>4. ShapeOK(Alternatives, T, u, ng)
  BY <1>1, UnwindOK
<1>5. q \in Seq(T) /\ KeptBounds(q, u)
  BY <1>2, <1>4, NextAltBounds
<1> QED BY <1>1, <1>3, <1>5, BoundsKeptTwice

LEMMA ReuseBounds ==
  ASSUME NEW Node, NEW Alternatives, NEW B, NEW T, T = BoundedEdges(Node, B),
         PathAssumption(Node, Alternatives, T),
         NEW p \in Seq(T), p # <<>>, NEW ng \in Nat, NEW q, q = Reuse(p, ng)
  PROVE  q \in Seq(T) /\ KeptBounds(q, p) /\ Len(q) = Len(p) /\ q[Len(p)].space = NoSpace
<1> DEFINE o == Len(p)
           e == p[o]
           x == IF o > ng THEN e.alt + 1 ELSE e.alt
           f == [e EXCEPT !.space = NoSpace, !.alt = x]
<1>1. o \in 1 .. Len(p) /\ Last(p) = e
  BY DEF Last
<1>2. e \in T /\ x \in Nat
  BY <1>1, EdgeTyped
<1>3. Reuse(p, ng) = [p EXCEPT ![o] = f]
  BY <1>1 DEF Reuse
<1> HIDE DEF x
<1>4. f \in T /\ f.space = NoSpace /\ f.bound = e.bound
  <2>1. f \in T /\ f.space = NoSpace
    BY <1>2 DEF BoundedEdges
  <2> QED BY <1>2, <2>1, BoundIs
<1> HIDE DEF f, o
<1>5. f.space \in {p[o].space, NoSpace}
  BY <1>4
<1>6. q \in Seq(T) /\ KeptBounds(q, p)
  BY <1>1, <1>3, <1>4, <1>5, UpdateBounds
<1>7. Len(q) = Len(p) /\ q[o] = f
  BY <1>1, <1>3, <1>4, UpdateIs
<1> QED BY <1>4, <1>6, <1>7 DEF o

(* the same path but for its bounds *)
LEMMA SeqAlike ==
  ASSUME NEW Node, NEW Alternatives, NEW EdgeType,
         PathAssumption(Node, Alternatives, EdgeType),
         NEW p, NEW c, NEW x, NEW ng, NEW w, SeqOK(Node, Alternatives, EdgeType, p, c, x, ng, w),
         NEW q, Alike(EdgeType, q, p)
  PROVE  SeqOK(Node, Alternatives, EdgeType, q, c, x, ng, w) /\ Own(q, c) = Own(p, c)
<1>1. /\ ng \in Nat /\ w \in Nat /\ w > 0 /\ x \in Nat /\ c \in Node \cup {NoSpace}
      /\ ShapeOK(Alternatives, EdgeType, p, ng) /\ Whole(p) /\ Near(p, w) /\ PointsOK(p, c, x)
      /\ (c = NoSpace /\ p # <<>> => CopyNear(p, Len(p), w))
      /\ (c # NoSpace /\ p # <<>> => x \in {0, Distance(p)})
      /\ p \in Seq(EdgeType) /\ Len(p) \in Nat
  BY DEF SeqOK, WorkerOK, ShapeOK
<1>2. /\ ShapeOK(Alternatives, EdgeType, q, ng) /\ Pending(q) = Pending(p) /\ Top(q) = Top(p)
      /\ PointsOK(q, c, x)
  BY <1>1, AlikeOK
<1>3. /\ q \in Seq(EdgeType) /\ Len(q) = Len(p) /\ (q = <<>> <=> p = <<>>)
      /\ \A j \in 1 .. Len(p) : /\ q[j].space = p[j].space /\ q[j].alternatives = p[j].alternatives
                                /\ q[j].alt = p[j].alt /\ q[j].altMax = p[j].altMax
  BY <1>1 DEF Alike
<1>4. \A i \in 1 .. Len(p) : CopyNear(p, i, w) <=> CopyNear(q, i, w)
  <2> TAKE i \in 1 .. Len(p)
  <2>1. \A j \in 1 .. i : j \in 1 .. Len(p)
    BY <1>1
  <2> QED BY <1>3, <2>1 DEF CopyNear
<1>5. Whole(q)
  BY <1>1, <1>3 DEF Whole
<1>6. Near(q, w)
  BY <1>1, <1>3, <1>4 DEF Near, HasWork
<1>7. c = NoSpace /\ q # <<>> => CopyNear(q, Len(q), w)
  <2>1. p # <<>> => Len(p) \in 1 .. Len(p)
    BY <1>1
  <2> QED BY <1>1, <1>3, <1>4, <2>1
<1>8. c # NoSpace /\ q # <<>> => x \in {0, Distance(q)}
  <2>1. CASE x = 0
    BY <2>1
  <2>2. CASE c # NoSpace /\ q # <<>> /\ x # 0
    <3>1. HasCopy(p, Len(p)) /\ x = Distance(p)
      BY <1>1, <1>3, <2>2 DEF PointsOK
    <3>2. LastCopy(q) = LastCopy(p)
      BY <1>1, <3>1, LastCopySame
    <3> QED BY <1>3, <3>1, <3>2 DEF Distance
  <2> QED BY <2>1, <2>2
<1>9. WorkerOK(Node, Alternatives, EdgeType, q, c, x, ng, Cardinality(OpenEdges(q)))
  BY <1>1, <1>2 DEF WorkerOK
<1> QED BY <1>1, <1>2, <1>5, <1>6, <1>7, <1>8, <1>9 DEF SeqOK, Own

LEMMA BoundAlike ==
  ASSUME NEW N, NEW B, NEW T, T = BoundedEdges(N, B), NEW p \in Seq(T), NEW i \in 1 .. Len(p), NEW b \in B,
         NEW q, q = [p EXCEPT ![i].bound = b]
  PROVE  Alike(T, q, p) /\ q[i].bound = b /\ \A j \in 1 .. Len(p) : j # i => q[j] = p[j]
<1> DEFINE f == [p[i] EXCEPT !.bound = b]
<1>1. /\ f \in T /\ f.node = p[i].node /\ f.space = p[i].space /\ f.alt = p[i].alt /\ f.altMax = p[i].altMax
      /\ f.alternatives = p[i].alternatives /\ f.bound = b
  <2>1. p[i] \in T
    OBVIOUS
  <2> QED BY <2>1, BoundIs
<1>2. q = [p EXCEPT ![i] = f]
  OBVIOUS
<1> HIDE DEF f
<1>3. q \in Seq(T) /\ Len(q) = Len(p) /\ q[i] = f /\ \A j \in 1 .. Len(p) : j # i => q[j] = p[j]
  BY <1>1, <1>2, UpdateIs
<1> QED BY <1>1, <1>3 DEF Alike

(***************************************************************************)
(* Discrepancies.                                                          *)
(***************************************************************************)
DiscOK(Node, Alternatives, D) ==
  /\ D[<<>>] = 0
  /\ \A n \in Node : \A a \in 0 .. Alternatives[n] - 1 : D[Child(n, a)] = D[n] + a

LEMMA Parent ==
  ASSUME NEW Node, NEW Alternatives, PathAssumption(Node, Alternatives, {}), NEW s \in Node, s # <<>>
  PROVE  \E p \in Node : \E a \in 0 .. Alternatives[p] - 1 :
           /\ a \in Nat /\ s = Child(p, a) /\ Len(s) = Len(p) + 1
           /\ \A n \in Node : Below(n, s) /\ n # s => Below(n, p)
<1>1. s \in Seq(Nat) /\ Node \subseteq Seq(Nat) /\ Alternatives \in [Node -> Nat]
      /\ \A i \in 1 .. Len(s) : SubSeq(s, 1, i - 1) \in Node /\ s[i] \in 0 .. Alternatives[SubSeq(s, 1, i - 1)] - 1
  BY TreeIs
<1>2. Len(s) \in Nat /\ Len(s) \in 1 .. Len(s) /\ Len(s) \in 1 .. Len(s) + 1
  BY <1>1
<1> DEFINE p == SubSeq(s, 1, Len(s) - 1)
           a == s[Len(s)]
<1>3. p \in Seq(Nat) /\ Len(p) = Len(s) - 1 /\ \A j \in 1 .. Len(s) - 1 : p[j] = s[j]
  BY <1>1, <1>2, PrefixIs
<1>4. p \in Node /\ a \in 0 .. Alternatives[p] - 1
  BY <1>1, <1>2
<1> HIDE DEF p
<1>5. a \in Nat
  BY <1>1, <1>4
<1>6. /\ Child(p, a) \in Seq(Nat) /\ Len(Child(p, a)) = Len(p) + 1
      /\ Child(p, a)[Len(p) + 1] = a /\ \A i \in 1 .. Len(p) : Child(p, a)[i] = p[i]
  BY <1>3, <1>5, ChildIs
<1>7. Len(Child(p, a)) = Len(s) /\ \A i \in 1 .. Len(s) : s[i] = Child(p, a)[i]
  <2>1. Len(p) \in Nat /\ Len(s) = Len(p) + 1
    BY <1>2, <1>3
  <2> SUFFICES ASSUME NEW i \in 1 .. Len(s) PROVE s[i] = Child(p, a)[i]
    BY <1>6, <2>1
  <2>2. CASE i = Len(s)
    BY <1>6, <2>1, <2>2
  <2>3. CASE i # Len(s)
    <3>1. i \in 1 .. Len(p) /\ i \in 1 .. Len(s) - 1
      BY <2>1, <2>3
    <3> QED BY <1>3, <1>6, <3>1
  <2> QED BY <2>2, <2>3
<1> HIDE DEF a
<1>8. s = Child(p, a)
  BY <1>1, <1>6, <1>7, SeqSame
<1>9. \A n \in Node : Below(n, s) /\ n # s => Below(n, p)
  BY <1>4, <1>5, <1>8, Children
<1>10. Len(s) = Len(p) + 1
  BY <1>2, <1>3
<1> QED BY <1>4, <1>5, <1>8, <1>9, <1>10

LEMMA DiscNat ==
  ASSUME NEW Node, NEW Alternatives, PathAssumption(Node, Alternatives, {}), NEW D, DiscOK(Node, Alternatives, D)
  PROVE  \A n \in Node : D[n] \in Nat
<1> DEFINE Bad(i) == \E n \in Node : Len(n) = i /\ D[n] \notin Nat
           S == {i \in Nat : Bad(i)}
<1> SUFFICES ASSUME NEW n \in Node, D[n] \notin Nat PROVE FALSE
  OBVIOUS
<1>1. Node \subseteq Seq(Nat)
  BY TreeIs
<1>2. Len(n) \in S
  BY <1>1
<1>3. Min(S) \in S /\ \A y \in S : Min(S) <= y
  BY <1>2, HasLeast
<1> DEFINE i == Min(S)
<1>4. i \in Nat /\ Bad(i) /\ \A y \in Nat : Bad(y) => i <= y
  BY <1>3
<1> HIDE DEF i, S
<1>5. PICK s \in Node : Len(s) = i /\ D[s] \notin Nat
  BY <1>4
<1>6. s # <<>>
  BY <1>5 DEF DiscOK
<1>7. PICK p \in Node : \E a \in 0 .. Alternatives[p] - 1 : a \in Nat /\ s = Child(p, a) /\ Len(s) = Len(p) + 1
  BY <1>6, Parent
<1>8. PICK a \in 0 .. Alternatives[p] - 1 : a \in Nat /\ s = Child(p, a) /\ Len(s) = Len(p) + 1
  BY <1>7
<1>9. Len(p) \in Nat /\ ~(i <= Len(p))
  BY <1>1, <1>5, <1>8
<1>10. D[p] \in Nat
  BY <1>4, <1>9
<1>11. D[s] = D[p] + a
  BY <1>8 DEF DiscOK
<1> QED BY <1>5, <1>8, <1>10, <1>11

LEMMA DiscBelow ==
  ASSUME NEW Node, NEW Alternatives, PathAssumption(Node, Alternatives, {}), NEW D, DiscOK(Node, Alternatives, D)
  PROVE  \A n, s \in Node : Below(n, s) => D[n] <= D[s]
<1> DEFINE Bad(i) == \E s \in Node : Len(s) = i /\ \E n \in Node : Below(n, s) /\ ~(D[n] <= D[s])
           S == {i \in Nat : Bad(i)}
<1> SUFFICES ASSUME NEW m \in Node, NEW r \in Node, Below(m, r), ~(D[m] <= D[r]) PROVE FALSE
  OBVIOUS
<1>1. Node \subseteq Seq(Nat) /\ \A n \in Node : D[n] \in Nat
  BY TreeIs, DiscNat
<1>2. Len(r) \in S
  BY <1>1
<1>3. Min(S) \in S /\ \A y \in S : Min(S) <= y
  BY <1>2, HasLeast
<1> DEFINE i == Min(S)
<1>4. i \in Nat /\ Bad(i) /\ \A y \in Nat : Bad(y) => i <= y
  BY <1>3
<1> HIDE DEF i, S
<1>5. PICK s \in Node : Len(s) = i /\ \E n \in Node : Below(n, s) /\ ~(D[n] <= D[s])
  BY <1>4
<1>6. PICK n \in Node : Below(n, s) /\ ~(D[n] <= D[s])
  BY <1>5
<1>7. n # s
  BY <1>1, <1>6
<1>8. s # <<>>
  BY <1>6, <1>7, BelowOrder
<1>9. PICK p \in Node : \E a \in 0 .. Alternatives[p] - 1 :
         /\ a \in Nat /\ s = Child(p, a) /\ Len(s) = Len(p) + 1
         /\ \A x \in Node : Below(x, s) /\ x # s => Below(x, p)
  BY <1>8, Parent
<1>10. PICK a \in 0 .. Alternatives[p] - 1 : a \in Nat /\ s = Child(p, a) /\ Len(s) = Len(p) + 1 /\ Below(n, p)
  BY <1>6, <1>7, <1>9
<1>11. Len(p) \in Nat /\ ~(i <= Len(p))
  BY <1>1, <1>5, <1>10
<1>12. D[n] <= D[p]
  BY <1>4, <1>10, <1>11
<1>13. D[s] = D[p] + a
  BY <1>10 DEF DiscOK
<1> QED BY <1>1, <1>6, <1>10, <1>12, <1>13

(***************************************************************************)
(* The stack of a probe: its account of discrepancies, and the solutions   *)
(* that it still comes to.                                                 *)
(***************************************************************************)
Choice(N) == [space : N, alt : Nat]

StackOK(Node, Alternatives, q, c) ==
  /\ q \in Seq(Choice(Node)) /\ c \in Node \cup {NoSpace}
  /\ \A i \in 1 .. Len(q) : q[i].alt + 1 < Alternatives[q[i].space]
  /\ \A i, j \in 1 .. Len(q) : i < j => Below(Child(q[i].space, q[i].alt + 1), q[j].space)
  /\ c # NoSpace => \A i \in 1 .. Len(q) : Below(Child(q[i].space, q[i].alt + 1), c)

AccountOK(D, q, c, x, T) ==
  /\ c # NoSpace => D[c] + x = T
  /\ \A i \in 1 .. Len(q) - 1 : D[q[i + 1].space] = D[q[i].space] + q[i].alt + 1
  /\ q # <<>> => D[q[Len(q)].space] + q[Len(q)].alt + 1 + x = T

On(q, s) == \E i \in 1 .. Len(q) : \E a \in 0 .. q[i].alt : Below(Child(q[i].space, a), s)
StillCovers(q, c, s) == (c # NoSpace /\ Below(c, s)) \/ On(q, s)

FoundOK(S, D, q, c, f, w, T) ==
  \A s \in S :
    /\ D[s] < T => s \in f
    /\ D[s] = T => (s \notin f <=> StillCovers(q, c, s))
    /\ w => s \in f \/ StillCovers(q, c, s)
    /\ s \in f /\ (c # NoSpace \/ q # <<>> \/ ~w) => D[s] <= T

LEMMA StackIs ==
  ASSUME NEW Node, NEW Alternatives, PathAssumption(Node, Alternatives, {}), NEW q, NEW c, StackOK(Node, Alternatives, q, c)
  PROVE  /\ Len(q) \in Nat
         /\ \A i \in 1 .. Len(q) :
              /\ q[i].space \in Node /\ q[i].alt \in Nat /\ Alternatives[q[i].space] \in Nat
              /\ q[i] \in Choice(Node)
              /\ q[i] = [space |-> q[i].space, alt |-> q[i].alt]
              /\ \A a \in 0 .. q[i].alt + 1 : a \in 0 .. Alternatives[q[i].space] - 1 /\ a \in Nat
                                              /\ Child(q[i].space, a) \in Node
<1>1. q \in Seq(Choice(Node)) /\ \A i \in 1 .. Len(q) : q[i].alt + 1 < Alternatives[q[i].space]
  BY DEF StackOK
<1>2. Len(q) \in Nat /\ \A i \in 1 .. Len(q) : q[i] \in Choice(Node)
  BY <1>1
<1> SUFFICES ASSUME NEW i \in 1 .. Len(q)
             PROVE  /\ q[i].space \in Node /\ q[i].alt \in Nat /\ Alternatives[q[i].space] \in Nat
                    /\ q[i] = [space |-> q[i].space, alt |-> q[i].alt]
                    /\ \A a \in 0 .. q[i].alt + 1 : a \in 0 .. Alternatives[q[i].space] - 1 /\ a \in Nat
                                                    /\ Child(q[i].space, a) \in Node
  BY <1>2
<1>3. q[i].space \in Node /\ q[i].alt \in Nat /\ q[i] = [space |-> q[i].space, alt |-> q[i].alt]
  BY <1>2 DEF Choice
<1>4. Alternatives[q[i].space] \in Nat /\ \A a \in 0 .. Alternatives[q[i].space] - 1 : Child(q[i].space, a) \in Node
  BY <1>3, TreeIs
<1>5. q[i].alt + 1 < Alternatives[q[i].space]
  BY <1>1
<1> HIDE DEF Choice
<1>6. \A a \in 0 .. q[i].alt + 1 : a \in 0 .. Alternatives[q[i].space] - 1 /\ a \in Nat
  BY <1>3, <1>4, <1>5
<1> QED BY <1>3, <1>4, <1>6

(* the next alternative to the left of the topmost choice *)
Popped(q) == IF Last(q).alt = 0 THEN Front(q) ELSE [q EXCEPT ![Len(q)].alt = @ - 1]

(* r is q without its topmost choice, or that choice has moved to the left *)
PopIs(q, r) ==
  LET o == Len(q)
  IN  \/ /\ q[o].alt = 0 /\ Len(r) = o - 1
         /\ \A i \in 1 .. o - 1 : r[i] = q[i]
      \/ /\ q[o].alt # 0 /\ Len(r) = o
         /\ r[o].space = q[o].space /\ r[o].alt = q[o].alt - 1
         /\ \A i \in 1 .. o - 1 : r[i] = q[i]

LEMMA PopDone ==
  ASSUME NEW N, NEW q \in Seq(Choice(N)), q # <<>>
  PROVE  /\ Last(q) = q[Len(q)] /\ Len(q) \in 1 .. Len(q) /\ Len(q) \in Nat
         /\ Popped(q) \in Seq(Choice(N)) /\ PopIs(q, Popped(q))
<1> DEFINE o == Len(q)
<1>1. o \in Nat /\ o >= 1 /\ o \in 1 .. o /\ Last(q) = q[o]
  BY DEF Last
<1>2. q[o] \in Choice(N)
  BY <1>1
<1>3. CASE q[o].alt = 0
  <2> DEFINE m == o - 1
  <2>1. Popped(q) = SubSeq(q, 1, m)
    BY <1>1, <1>3 DEF Popped, Front
  <2>2. m \in 0 .. o
    BY <1>1
  <2> HIDE DEF m
  <2>3. SubSeq(q, 1, m) \in Seq(Choice(N)) /\ Len(SubSeq(q, 1, m)) = m /\ \A i \in 1 .. m : SubSeq(q, 1, m)[i] = q[i]
    BY <2>2
  <2>4. Popped(q) \in Seq(Choice(N)) /\ Len(Popped(q)) = m /\ \A i \in 1 .. m : Popped(q)[i] = q[i]
    BY <2>1, <2>3
  <2>5. Popped(q) \in Seq(Choice(N)) /\ Len(Popped(q)) = o - 1 /\ \A i \in 1 .. o - 1 : Popped(q)[i] = q[i]
    BY <2>4 DEF m
  <2> QED BY <1>1, <1>3, <2>5 DEF PopIs
<1>4. CASE q[o].alt # 0
  <2> DEFINE f == [q[o] EXCEPT !.alt = @ - 1]
  <2>1. Popped(q) = [q EXCEPT ![o] = f]
    BY <1>1, <1>4 DEF Popped
  <2>2. f \in Choice(N) /\ f.space = q[o].space /\ f.alt = q[o].alt - 1
    <3>1. q[o].alt \in Nat
      BY <1>2 DEF Choice
    <3>2. q[o].alt - 1 \in Nat
      BY <1>4, <3>1
    <3> QED BY <1>2, <3>2 DEF Choice
  <2> HIDE DEF f
  <2>3. /\ Popped(q) \in Seq(Choice(N)) /\ Len(Popped(q)) = o /\ Popped(q)[o] = f
        /\ \A i \in 1 .. o - 1 : Popped(q)[i] = q[i]
    <3>1. [q EXCEPT ![o] = f] \in Seq(Choice(N)) /\ Len([q EXCEPT ![o] = f]) = o
          /\ \A i \in 1 .. o : [q EXCEPT ![o] = f][i] = IF i = o THEN f ELSE q[i]
      BY <1>1, <2>2
    <3> DEFINE g == [q EXCEPT ![o] = f]
    <3>2. g \in Seq(Choice(N)) /\ Len(g) = o /\ \A i \in 1 .. o : g[i] = IF i = o THEN f ELSE q[i]
      BY <3>1
    <3> HIDE DEF g
    <3>3. \A i \in 1 .. o - 1 : i \in 1 .. o /\ i # o
      BY <1>1
    <3>4. g[o] = f /\ \A i \in 1 .. o - 1 : g[i] = q[i]
      BY <1>1, <3>2, <3>3
    <3> QED BY <2>1, <3>2, <3>4 DEF g
  <2> QED BY <1>1, <1>4, <2>2, <2>3 DEF PopIs
<1> QED BY <1>1, <1>3, <1>4

LEMMA PopStack ==
  ASSUME NEW Node, NEW Alternatives, PathAssumption(Node, Alternatives, {}), NEW q, q # <<>>,
         StackOK(Node, Alternatives, q, NoSpace), NEW r, r = Popped(q)
  PROVE  StackOK(Node, Alternatives, r, Child(Last(q).space, Last(q).alt))
<1> DEFINE o == Len(q)
           n == q[o].space
           a == q[o].alt
           c == Child(n, a)
<1>1. /\ q \in Seq(Choice(Node))
      /\ \A i \in 1 .. Len(q) : q[i].alt + 1 < Alternatives[q[i].space]
      /\ \A i, j \in 1 .. Len(q) : i < j => Below(Child(q[i].space, q[i].alt + 1), q[j].space)
  BY DEF StackOK
<1>2. Last(q) = q[o] /\ o \in 1 .. o /\ o \in Nat /\ r \in Seq(Choice(Node)) /\ PopIs(q, r)
  BY <1>1, PopDone
<1>3. \A i \in 1 .. o :
        /\ q[i].space \in Node /\ q[i].alt \in Nat /\ Alternatives[q[i].space] \in Nat
        /\ \A b \in 0 .. q[i].alt + 1 : b \in Nat /\ Child(q[i].space, b) \in Node
  BY StackIs
<1>4. n \in Node /\ a \in Nat /\ c \in Node /\ Below(n, c) /\ Below(c, c) /\ Below(n, n)
  <2>1. n \in Node /\ a \in Nat /\ a \in 0 .. q[o].alt + 1 /\ c \in Node
    BY <1>2, <1>3
  <2> QED BY <2>1, Children, BelowOrder
<1> HIDE DEF c
<1>5. \A i \in 1 .. o - 1 : Below(Child(q[i].space, q[i].alt + 1), c)
  <2> TAKE i \in 1 .. o - 1
  <2>1. i \in 1 .. o /\ i < o
    BY <1>2
  <2>2. Below(Child(q[i].space, q[i].alt + 1), n)
    BY <1>1, <1>2, <2>1
  <2>3. q[i].alt + 1 \in 0 .. q[i].alt + 1
    BY <1>3, <2>1
  <2>4. Child(q[i].space, q[i].alt + 1) \in Node
    BY <1>3, <2>1, <2>3
  <2> QED BY <1>4, <2>2, <2>4, BelowOrder
<1>6. CASE a = 0
  <2>1. Len(r) = o - 1 /\ \A i \in 1 .. o - 1 : r[i] = q[i]
    BY <1>6, <1>2 DEF PopIs
  <2>2. \A i \in 1 .. o - 1 : i \in 1 .. o
    BY <1>2
  <2>3. \A i \in 1 .. Len(r) : r[i].alt + 1 < Alternatives[r[i].space]
    BY <1>1, <2>1, <2>2
  <2>4. \A i, j \in 1 .. Len(r) : i < j => Below(Child(r[i].space, r[i].alt + 1), r[j].space)
    BY <1>1, <2>1, <2>2
  <2>5. \A i \in 1 .. Len(r) : Below(Child(r[i].space, r[i].alt + 1), c)
    BY <1>5, <2>1
  <2> QED BY <1>2, <1>4, <2>3, <2>4, <2>5 DEF StackOK, c
<1>7. CASE a # 0
  <2>1. Len(r) = o /\ r[o].space = n /\ r[o].alt = a - 1 /\ \A i \in 1 .. o - 1 : r[i] = q[i]
    BY <1>7, <1>2 DEF PopIs
  <2>2. \A i \in 1 .. o : r[i].space = q[i].space /\ (i # o => r[i] = q[i] /\ i \in 1 .. o - 1)
    BY <1>2, <2>1
  <2>3. r[o].alt + 1 = a
    BY <1>4, <2>1
  <2>4. \A i \in 1 .. Len(r) : r[i].alt + 1 < Alternatives[r[i].space]
    <3> TAKE i \in 1 .. Len(r)
    <3>1. CASE i = o
      <4>1. a + 1 < Alternatives[n] /\ Alternatives[n] \in Nat
        BY <1>1, <1>2, <1>3
      <4> QED BY <1>4, <2>1, <2>3, <3>1, <4>1
    <3>2. CASE i # o
      BY <1>1, <2>1, <2>2, <3>2
    <3> QED BY <3>1, <3>2
  <2>5. \A i, j \in 1 .. Len(r) : i < j => Below(Child(r[i].space, r[i].alt + 1), r[j].space)
    <3> SUFFICES ASSUME NEW i \in 1 .. o, NEW j \in 1 .. o, i < j
                 PROVE  Below(Child(r[i].space, r[i].alt + 1), r[j].space)
      BY <2>1
    <3>1. i # o
      BY <1>2
    <3> QED BY <1>1, <2>2, <3>1
  <2>6. \A i \in 1 .. Len(r) : Below(Child(r[i].space, r[i].alt + 1), c)
    <3> TAKE i \in 1 .. Len(r)
    <3>1. CASE i = o
      BY <1>4, <2>1, <2>3, <3>1 DEF c
    <3>2. CASE i # o
      BY <1>5, <2>1, <2>2, <3>2
    <3> QED BY <3>1, <3>2
  <2> QED BY <1>2, <1>4, <2>4, <2>5, <2>6 DEF StackOK, c
<1> QED BY <1>6, <1>7

LEMMA PopAccount ==
  ASSUME NEW Node, NEW Alternatives, PathAssumption(Node, Alternatives, {}), NEW D, DiscOK(Node, Alternatives, D),
         NEW q, q # <<>>, StackOK(Node, Alternatives, q, NoSpace), NEW x \in Nat, NEW T \in Nat,
         AccountOK(D, q, NoSpace, x, T), NEW r, r = Popped(q)
  PROVE  AccountOK(D, r, Child(Last(q).space, Last(q).alt), x + 1, T) /\ x + 1 <= T
<1> DEFINE o == Len(q)
           n == q[o].space
           a == q[o].alt
           c == Child(n, a)
<1>1. q \in Seq(Choice(Node)) /\ \A i \in 1 .. Len(q) : q[i].alt + 1 < Alternatives[q[i].space]
  BY DEF StackOK
<1>2. Last(q) = q[o] /\ o \in 1 .. o /\ o \in Nat /\ r \in Seq(Choice(Node)) /\ PopIs(q, r)
  BY <1>1, PopDone
<1>3. \A i \in 1 .. o : q[i].space \in Node /\ q[i].alt \in Nat /\ D[q[i].space] \in Nat
  BY StackIs, DiscNat
<1>4. n \in Node /\ a \in Nat /\ D[n] \in Nat /\ a \in 0 .. Alternatives[n] - 1
  <2>1. a \in 0 .. q[o].alt + 1
    BY <1>2, <1>3
  <2> QED BY <1>2, <1>3, <2>1, StackIs
<1>5. D[c] = D[n] + a
  BY <1>4 DEF DiscOK
<1>6. D[n] + a + 1 + x = T
  BY DEF AccountOK
<1>7. D[c] + (x + 1) = T /\ x + 1 <= T
  BY <1>4, <1>5, <1>6
<1> HIDE DEF c
<1>8. \A i \in 1 .. o - 1 : D[q[i + 1].space] = D[q[i].space] + q[i].alt + 1
  BY DEF AccountOK
<1>9. CASE a = 0
  <2>1. Len(r) = o - 1 /\ \A i \in 1 .. o - 1 : r[i] = q[i]
    BY <1>9, <1>2 DEF PopIs
  <2>2. \A i \in 1 .. Len(r) - 1 : D[r[i + 1].space] = D[r[i].space] + r[i].alt + 1
    <3> TAKE i \in 1 .. Len(r) - 1
    <3>1. i \in 1 .. o - 1 /\ i + 1 \in 1 .. o - 1
      BY <1>2, <2>1
    <3> QED BY <1>8, <2>1, <3>1
  <2>3. ASSUME r # <<>> PROVE D[r[Len(r)].space] + r[Len(r)].alt + 1 + (x + 1) = T
    <3>1. Len(r) \in 1 .. o - 1 /\ Len(r) \in 1 .. o /\ Len(r) + 1 = o
      BY <1>2, <2>1, <2>3
    <3>2. D[n] = D[q[Len(r)].space] + q[Len(r)].alt + 1
      BY <1>8, <3>1
    <3>3. r[Len(r)] = q[Len(r)]
      BY <2>1, <3>1
    <3>4. D[q[Len(r)].space] \in Nat /\ q[Len(r)].alt \in Nat
      BY <1>3, <3>1
    <3>5. D[n] + 1 + x = T
      BY <1>4, <1>6, <1>9
    <3>6. D[q[Len(r)].space] + q[Len(r)].alt + 1 + (x + 1) = T
      BY <1>4, <3>2, <3>4, <3>5
    <3> QED BY <3>3, <3>6
  <2> QED BY <1>2, <1>7, <2>2, <2>3 DEF AccountOK, c
<1>10. CASE a # 0
  <2>1. Len(r) = o /\ r[o].space = n /\ r[o].alt = a - 1 /\ \A i \in 1 .. o - 1 : r[i] = q[i]
    BY <1>10, <1>2 DEF PopIs
  <2>2. \A i \in 1 .. Len(r) - 1 : D[r[i + 1].space] = D[r[i].space] + r[i].alt + 1
    <3> TAKE i \in 1 .. Len(r) - 1
    <3>1. i \in 1 .. o - 1 /\ i + 1 \in 1 .. o /\ (i + 1 # o => i + 1 \in 1 .. o - 1)
      BY <1>2, <2>1
    <3>2. r[i + 1].space = q[i + 1].space /\ r[i] = q[i]
      BY <2>1, <3>1
    <3> QED BY <1>8, <3>1, <3>2
  <2>3. D[r[Len(r)].space] + r[Len(r)].alt + 1 + (x + 1) = T
    <3>1. D[r[o].space] = D[n] /\ r[o].alt = a - 1 /\ r[Len(r)] = r[o]
      BY <2>1
    <3>2. D[n] + (a - 1) + 1 + (x + 1) = T
      BY <1>4, <1>6
    <3> QED BY <3>1, <3>2
  <2> QED BY <1>2, <1>7, <2>2, <2>3 DEF AccountOK, c
<1> QED BY <1>9, <1>10

LEMMA PopCovers ==
  ASSUME NEW Node, NEW Alternatives, PathAssumption(Node, Alternatives, {}), NEW q, q # <<>>,
         StackOK(Node, Alternatives, q, NoSpace), NEW r, r = Popped(q), NEW s
  PROVE  StillCovers(r, Child(Last(q).space, Last(q).alt), s) <=> StillCovers(q, NoSpace, s)
<1> DEFINE o == Len(q)
           n == q[o].space
           a == q[o].alt
           c == Child(n, a)
<1>1. q \in Seq(Choice(Node))
  BY DEF StackOK
<1>2. Last(q) = q[o] /\ o \in 1 .. o /\ o \in Nat /\ r \in Seq(Choice(Node)) /\ PopIs(q, r)
  BY <1>1, PopDone
<1>3. \A i \in 1 .. o : q[i].space \in Node /\ q[i].alt \in Nat
  BY StackIs
<1>4. a \in Nat /\ c # NoSpace /\ a \in 0 .. a
  <2>1. a \in 0 .. q[o].alt + 1
    BY <1>2, <1>3
  <2>2. c \in Node
    BY <1>2, <2>1, StackIs
  <2> QED BY <1>2, <1>3, <2>2, TreeIs
<1>5. StillCovers(q, NoSpace, s) <=> On(q, s)
  BY DEF StillCovers
<1>6. StillCovers(r, c, s) <=> Below(c, s) \/ On(r, s)
  BY <1>4 DEF StillCovers
<1>7. On(q, s) <=> \/ \E b \in 0 .. a : Below(Child(n, b), s)
                   \/ \E i \in 1 .. o - 1 : \E b \in 0 .. q[i].alt : Below(Child(q[i].space, b), s)
  <2>1. \A i : i \in 1 .. o <=> i = o \/ i \in 1 .. o - 1
    BY <1>2
  <2> QED BY <2>1 DEF On
<1>8. CASE a = 0
  <2>1. Len(r) = o - 1 /\ \A i \in 1 .. o - 1 : r[i] = q[i]
    BY <1>8, <1>2 DEF PopIs
  <2>2. On(r, s) <=> \E i \in 1 .. o - 1 : \E b \in 0 .. q[i].alt : Below(Child(q[i].space, b), s)
    BY <2>1 DEF On
  <2>3. \A b : b \in 0 .. a <=> b = a
    BY <1>8
  <2>4. (\E b \in 0 .. a : Below(Child(n, b), s)) <=> Below(c, s)
    BY <2>3
  <2> QED BY <1>2, <1>5, <1>6, <1>7, <2>2, <2>4
<1>9. CASE a # 0
  <2>1. Len(r) = o /\ r[o].space = n /\ r[o].alt = a - 1 /\ \A i \in 1 .. o - 1 : r[i] = q[i]
    BY <1>9, <1>2 DEF PopIs
  <2>2. On(r, s) <=> \/ \E b \in 0 .. a - 1 : Below(Child(n, b), s)
                     \/ \E i \in 1 .. o - 1 : \E b \in 0 .. q[i].alt : Below(Child(q[i].space, b), s)
    <3>1. \A i : i \in 1 .. o <=> i = o \/ i \in 1 .. o - 1
      BY <1>2
    <3> QED BY <2>1, <3>1 DEF On
  <2>3. \A b : b \in 0 .. a <=> b = a \/ b \in 0 .. a - 1
    BY <1>4
  <2>4. (\E b \in 0 .. a : Below(Child(n, b), s)) <=> Below(c, s) \/ \E b \in 0 .. a - 1 : Below(Child(n, b), s)
    BY <2>3
  <2> QED BY <1>2, <1>5, <1>6, <1>7, <2>2, <2>4
<1> QED BY <1>8, <1>9

(* the choice of a space of which the probe takes alternative a *)
Took(q, c, a) == IF a > 0 THEN Append(q, [space |-> c, alt |-> a - 1]) ELSE q

TookIs(q, c, a, r) ==
  /\ Len(r) = Len(q) + 1 /\ Len(q) \in Nat
  /\ r[Len(q) + 1].space = c /\ r[Len(q) + 1].alt = a - 1
  /\ \A i \in 1 .. Len(q) : r[i] = q[i]

LEMMA TookDone ==
  ASSUME NEW N, NEW q \in Seq(Choice(N)), NEW c \in N, NEW a \in Nat, a > 0
  PROVE  Took(q, c, a) \in Seq(Choice(N)) /\ TookIs(q, c, a, Took(q, c, a))
<1> DEFINE r == Took(q, c, a)
<1> DEFINE f == [space |-> c, alt |-> a - 1]
<1>1. r = Append(q, f)
  BY DEF Took
<1>2. a - 1 \in Nat
  OBVIOUS
<1>3. f \in Choice(N) /\ f.space = c /\ f.alt = a - 1
  BY <1>2 DEF Choice
<1> HIDE DEF f
<1>4. r \in Seq(Choice(N)) /\ Len(q) \in Nat /\ Len(r) = Len(q) + 1 /\ r[Len(q) + 1] = f
      /\ \A i \in 1 .. Len(q) : r[i] = q[i]
  BY <1>1, <1>3
<1> HIDE DEF r
<1>5. TookIs(q, c, a, r)
  BY <1>3, <1>4 DEF TookIs
<1> QED BY <1>4, <1>5 DEF r

LEMMA DescendStack ==
  ASSUME NEW Node, NEW Alternatives, PathAssumption(Node, Alternatives, {}), NEW q, NEW c \in Node,
         StackOK(Node, Alternatives, q, c), NEW a \in 0 .. Alternatives[c] - 1, NEW r, r = Took(q, c, a)
  PROVE  StackOK(Node, Alternatives, r, Child(c, a)) /\ Child(c, a) \in Node
<1> DEFINE o == Len(q)
           x == Child(c, a)
<1>1. /\ q \in Seq(Choice(Node)) /\ c # NoSpace
      /\ \A i \in 1 .. Len(q) : q[i].alt + 1 < Alternatives[q[i].space]
      /\ \A i, j \in 1 .. Len(q) : i < j => Below(Child(q[i].space, q[i].alt + 1), q[j].space)
      /\ \A i \in 1 .. Len(q) : Below(Child(q[i].space, q[i].alt + 1), c)
  BY TreeIs DEF StackOK
<1>2. x \in Node /\ a \in Nat /\ Alternatives[c] \in Nat /\ x # NoSpace
  BY TreeIs
<1>3. Below(c, x) /\ Below(x, x)
  BY <1>2, Children, BelowOrder
<1> HIDE DEF x
<1>4. \A i \in 1 .. o : Below(Child(q[i].space, q[i].alt + 1), x)
  <2> TAKE i \in 1 .. o
  <2>0. q[i].alt \in Nat
    BY StackIs
  <2>1. q[i].alt + 1 \in 0 .. q[i].alt + 1
    BY <2>0
  <2>2. Child(q[i].space, q[i].alt + 1) \in Node
    BY <2>1, StackIs
  <2> QED BY <1>1, <1>2, <1>3, <2>2, BelowOrder
<1>5. CASE a = 0
  <2>1. r = q
    BY <1>5 DEF Took
  <2> QED BY <1>1, <1>2, <1>4, <2>1 DEF StackOK, x
<1>6. CASE a # 0
  <2>1. /\ r \in Seq(Choice(Node)) /\ Len(r) = o + 1 /\ o \in Nat
        /\ r[o + 1].space = c /\ r[o + 1].alt = a - 1
        /\ \A i \in 1 .. o : r[i] = q[i]
    <3>1. a > 0 /\ a \in Nat
      BY <1>2, <1>6
    <3>2. q \in Seq(Choice(Node))
      BY <1>1
    <3>3. r \in Seq(Choice(Node)) /\ TookIs(q, c, a, r)
      BY <3>1, <3>2, TookDone
    <3> QED BY <3>3 DEF TookIs
  <2>2. \A i : i \in 1 .. Len(r) <=> i = o + 1 \/ i \in 1 .. o
    BY <2>1
  <2>3. r[o + 1].alt + 1 = a /\ a < Alternatives[c]
    BY <1>2, <2>1
  <2>4. \A i \in 1 .. Len(r) : r[i].alt + 1 < Alternatives[r[i].space]
    BY <1>1, <2>1, <2>2, <2>3
  <2>5. \A i, j \in 1 .. Len(r) : i < j => Below(Child(r[i].space, r[i].alt + 1), r[j].space)
    <3> SUFFICES ASSUME NEW i \in 1 .. Len(r), NEW j \in 1 .. Len(r), i < j
                 PROVE  Below(Child(r[i].space, r[i].alt + 1), r[j].space)
      OBVIOUS
    <3>1. i \in 1 .. o
      BY <2>1
    <3> QED BY <1>1, <2>1, <2>2, <3>1
  <2>6. \A i \in 1 .. Len(r) : Below(Child(r[i].space, r[i].alt + 1), x)
    <3> TAKE i \in 1 .. Len(r)
    <3>1. CASE i = o + 1
      BY <1>3, <2>1, <2>3, <3>1 DEF x
    <3>2. CASE i \in 1 .. o
      BY <1>4, <2>1, <3>2
    <3> QED BY <2>2, <3>1, <3>2
  <2> QED BY <1>2, <2>1, <2>4, <2>5, <2>6 DEF StackOK, x
<1> QED BY <1>5, <1>6, <1>2 DEF x

LEMMA DescendAccount ==
  ASSUME NEW Node, NEW Alternatives, PathAssumption(Node, Alternatives, {}), NEW D, DiscOK(Node, Alternatives, D),
         NEW q, NEW c \in Node, StackOK(Node, Alternatives, q, c), NEW x \in Nat, NEW T \in Nat,
         AccountOK(D, q, c, x, T), NEW a \in 0 .. Alternatives[c] - 1, a <= x, NEW r, r = Took(q, c, a)
  PROVE  AccountOK(D, r, Child(c, a), x - a, T)
<1> DEFINE o == Len(q)
           y == Child(c, a)
<1>1. q \in Seq(Choice(Node)) /\ c # NoSpace
  BY TreeIs DEF StackOK
<1>2. D[c] \in Nat /\ a \in Nat /\ D[y] = D[c] + a
  <2>1. D[c] \in Nat
    BY DiscNat
  <2>2. Alternatives[c] \in Nat
    BY TreeIs
  <2>3. D[y] = D[c] + a
    BY DEF DiscOK
  <2> QED BY <2>1, <2>2, <2>3
<1>3. D[c] + x = T
  BY <1>1 DEF AccountOK
<1>4. D[y] + (x - a) = T
  BY <1>2, <1>3
<1> HIDE DEF y
<1>5. CASE a = 0
  <2>1. r = q /\ x - a = x
    BY <1>5 DEF Took
  <2> QED BY <1>4, <2>1 DEF AccountOK, y
<1>6. CASE a # 0
  <2>1. /\ r \in Seq(Choice(Node)) /\ Len(r) = o + 1 /\ o \in Nat
        /\ r[o + 1].space = c /\ r[o + 1].alt = a - 1
        /\ \A i \in 1 .. o : r[i] = q[i]
    <3>1. a > 0 /\ a \in Nat
      BY <1>2, <1>6
    <3>2. q \in Seq(Choice(Node))
      BY <1>1
    <3>3. r \in Seq(Choice(Node)) /\ TookIs(q, c, a, r)
      BY <3>1, <3>2, TookDone
    <3> QED BY <3>3 DEF TookIs
  <2>2. D[r[Len(r)].space] + r[Len(r)].alt + 1 + (x - a) = T
    <3>1. D[r[o + 1].space] = D[c] /\ r[o + 1].alt = a - 1 /\ r[Len(r)] = r[o + 1]
      BY <2>1
    <3>2. D[c] + (a - 1) + 1 + (x - a) = T
      BY <1>2, <1>3
    <3> QED BY <3>1, <3>2
  <2>3. \A i \in 1 .. Len(r) - 1 : D[r[i + 1].space] = D[r[i].space] + r[i].alt + 1
    <3> TAKE i \in 1 .. Len(r) - 1
    <3>1. i \in 1 .. o /\ r[i] = q[i]
      BY <2>1
    <3>2. CASE i = o
      <4>1. q # <<>> /\ r[i + 1].space = c
        BY <1>1, <2>1, <3>1, <3>2
      <4>2. D[q[o].space] + q[o].alt + 1 + x = T
        BY <4>1 DEF AccountOK
      <4>3. D[q[o].space] \in Nat /\ q[o].alt \in Nat
        BY <3>1, <3>2, StackIs, DiscNat
      <4>4. D[c] = D[q[o].space] + q[o].alt + 1
        <5> DEFINE u == D[q[o].space]
                   v == q[o].alt
        <5>1. u \in Nat /\ v \in Nat /\ u + v + 1 + x = T /\ D[c] \in Nat /\ D[c] + x = T
          BY <1>2, <1>3, <4>2, <4>3
        <5> HIDE DEF u, v
        <5>2. D[c] = u + v + 1
          BY <5>1
        <5> QED BY <5>2 DEF u, v
      <4> QED BY <3>1, <3>2, <4>1, <4>4
    <3>3. CASE i # o
      <4>1. i \in 1 .. o - 1 /\ i + 1 \in 1 .. o
        BY <2>1, <3>1, <3>3
      <4>2. r[i + 1] = q[i + 1]
        BY <2>1, <4>1
      <4> QED BY <3>1, <4>1, <4>2 DEF AccountOK
    <3> QED BY <3>2, <3>3
  <2> QED BY <1>4, <2>2, <2>3 DEF AccountOK, y
<1> QED BY <1>5, <1>6

LEMMA DescendCovers ==
  ASSUME NEW Node, NEW Alternatives, PathAssumption(Node, Alternatives, {}), NEW q, NEW c \in Node,
         StackOK(Node, Alternatives, q, c), NEW a \in 0 .. Alternatives[c] - 1, NEW r, r = Took(q, c, a),
         NEW s \in Node, Alternatives[s] = 0
  PROVE  /\ StillCovers(r, Child(c, a), s) <=> On(q, s) \/ \E b \in 0 .. a : Below(Child(c, b), s)
         /\ StillCovers(q, c, s) <=> On(q, s) \/ \E b \in 0 .. Alternatives[c] - 1 : Below(Child(c, b), s)
<1> DEFINE o == Len(q)
           x == Child(c, a)
<1>1. q \in Seq(Choice(Node)) /\ c # NoSpace
  BY TreeIs DEF StackOK
<1>2. x # NoSpace /\ a \in Nat /\ Alternatives[c] \in Nat /\ Alternatives[c] > 0
      /\ \A b \in 0 .. Alternatives[c] - 1 : b \in Nat /\ Child(c, b) \in Node
  BY TreeIs
<1>3. StillCovers(q, c, s) <=> Below(c, s) \/ On(q, s)
  BY <1>1 DEF StillCovers
<1>4. StillCovers(r, x, s) <=> Below(x, s) \/ On(r, s)
  BY <1>2 DEF StillCovers
<1>5. Below(c, s) <=> \E b \in 0 .. Alternatives[c] - 1 : Below(Child(c, b), s)
  <2>1. s # c
    BY <1>2
  <2>2. Below(c, s) => \E b \in 0 .. Alternatives[c] - 1 : Below(Child(c, b), s)
    BY <2>1, BelowChild
  <2>3. ASSUME NEW b \in 0 .. Alternatives[c] - 1, Below(Child(c, b), s) PROVE Below(c, s)
    <3>1. Child(c, b) \in Node /\ Below(c, Child(c, b))
      BY <1>2, Children
    <3> QED BY <2>3, <3>1, BelowOrder
  <2> QED BY <2>2, <2>3
<1>6. CASE a = 0
  <2>1. r = q
    BY <1>6 DEF Took
  <2>2. \A b : b \in 0 .. a <=> b = a
    BY <1>6
  <2> QED BY <1>3, <1>4, <1>5, <2>1, <2>2
<1>7. CASE a # 0
  <2>1. /\ r \in Seq(Choice(Node)) /\ Len(r) = o + 1 /\ o \in Nat
        /\ r[o + 1].space = c /\ r[o + 1].alt = a - 1
        /\ \A i \in 1 .. o : r[i] = q[i]
    <3>1. a > 0 /\ a \in Nat
      BY <1>2, <1>7
    <3>2. q \in Seq(Choice(Node))
      BY <1>1
    <3>3. r \in Seq(Choice(Node)) /\ TookIs(q, c, a, r)
      BY <3>1, <3>2, TookDone
    <3> QED BY <3>3 DEF TookIs
  <2>2. \A i : i \in 1 .. Len(r) <=> i = o + 1 \/ i \in 1 .. o
    BY <2>1
  <2>3. On(r, s) <=> On(q, s) \/ \E b \in 0 .. a - 1 : Below(Child(c, b), s)
    BY <2>1, <2>2 DEF On
  <2>4. \A b : b \in 0 .. a <=> b = a \/ b \in 0 .. a - 1
    BY <1>2
  <2> QED BY <1>3, <1>4, <1>5, <2>3, <2>4
<1> QED BY <1>6, <1>7

LEMMA PopFound ==
  ASSUME NEW Node, NEW Alternatives, PathAssumption(Node, Alternatives, {}), NEW q, q # <<>>,
         StackOK(Node, Alternatives, q, NoSpace), NEW r, r = Popped(q),
         NEW S, NEW D, NEW f, NEW w, NEW T, FoundOK(S, D, q, NoSpace, f, w, T)
  PROVE  FoundOK(S, D, r, Child(Last(q).space, Last(q).alt), f, w, T)
<1> DEFINE c == Child(Last(q).space, Last(q).alt)
<1>1. \A s : StillCovers(r, c, s) <=> StillCovers(q, NoSpace, s)
  BY PopCovers
<1> HIDE DEF c
<1>2. FoundOK(S, D, r, c, f, w, T)
  BY <1>1 DEF FoundOK
<1> QED BY <1>2 DEF c

LEMMA DescendFound ==
  ASSUME NEW Node, NEW Alternatives, PathAssumption(Node, Alternatives, {}), NEW D, DiscOK(Node, Alternatives, D),
         NEW q, NEW c \in Node, StackOK(Node, Alternatives, q, c), NEW x \in Nat, NEW T \in Nat, D[c] + x = T,
         NEW a \in 0 .. Alternatives[c] - 1, a = Alternatives[c] - 1 \/ a = x, NEW r, r = Took(q, c, a),
         NEW S \in SUBSET Node, \A s \in S : Alternatives[s] = 0,
         NEW f, NEW w, FoundOK(S, D, q, c, f, w, T), NEW v, v => w /\ a = Alternatives[c] - 1
  PROVE  FoundOK(S, D, r, Child(c, a), f, v, T)
<1> DEFINE n == Alternatives[c]
           y == Child(c, a)
<1>1. n \in Nat /\ a \in Nat /\ c # NoSpace /\ \A b \in 0 .. n - 1 : b \in Nat /\ Child(c, b) \in Node
  <2>1. n \in Nat /\ c # NoSpace
    BY TreeIs
  <2>2. \A b \in 0 .. n - 1 : Child(c, b) \in Node
    BY TreeIs
  <2> HIDE DEF n
  <2> QED BY <2>1, <2>2 DEF n
<1> SUFFICES ASSUME NEW s \in S
             PROVE  /\ D[s] < T => s \in f
                    /\ D[s] = T => (s \notin f <=> StillCovers(r, y, s))
                    /\ v => s \in f \/ StillCovers(r, y, s)
                    /\ s \in f /\ (y # NoSpace \/ r # <<>> \/ ~v) => D[s] <= T
  BY DEF FoundOK
<1>2. /\ D[s] < T => s \in f
      /\ D[s] = T => (s \notin f <=> StillCovers(q, c, s))
      /\ w => s \in f \/ StillCovers(q, c, s)
      /\ s \in f => D[s] <= T
  BY <1>1 DEF FoundOK
<1>3. s \in Node /\ Alternatives[s] = 0
  OBVIOUS
<1>4. /\ StillCovers(r, y, s) <=> On(q, s) \/ \E b \in 0 .. a : Below(Child(c, b), s)
      /\ StillCovers(q, c, s) <=> On(q, s) \/ \E b \in 0 .. n - 1 : Below(Child(c, b), s)
  BY <1>3, DescendCovers
<1> HIDE DEF y
<1>5. CASE a = n - 1
  BY <1>2, <1>4, <1>5
<1>6. CASE a # n - 1
  <2>1. a = x /\ ~v
    BY <1>6
  <2>2. D[s] = T => (StillCovers(r, y, s) <=> StillCovers(q, c, s))
    <3> SUFFICES ASSUME D[s] = T PROVE \A b \in 0 .. n - 1 : Below(Child(c, b), s) => b \in 0 .. a
      <4>1. \A b \in 0 .. a : b \in 0 .. n - 1
        BY <1>1
      <4> QED BY <1>4, <4>1
    <3> TAKE b \in 0 .. n - 1
    <3> HAVE Below(Child(c, b), s)
    <3>1. Child(c, b) \in Node /\ b \in Nat
      BY <1>1
    <3>2. D[Child(c, b)] <= D[s]
      BY <1>3, <3>1, DiscBelow
    <3>3. D[Child(c, b)] = D[c] + b
      BY DEF DiscOK
    <3>4. D[c] \in Nat
      BY DiscNat
    <3>5. D[c] + b <= D[c] + x
      BY <3>2, <3>3
    <3>6. b <= x
      BY <3>1, <3>4, <3>5
    <3> QED BY <2>1, <3>1, <3>6
  <2> QED BY <1>2, <2>1, <2>2
<1> QED BY <1>5, <1>6

(* what is on the stack does not lead to the current space *)
LEMMA NotOn ==
  ASSUME NEW Node, NEW Alternatives, PathAssumption(Node, Alternatives, {}), NEW q, NEW c \in Node,
         StackOK(Node, Alternatives, q, c)
  PROVE  ~On(q, c)
<1> SUFFICES ASSUME NEW i \in 1 .. Len(q), NEW a \in 0 .. q[i].alt, Below(Child(q[i].space, a), c) PROVE FALSE
  BY DEF On
<1> DEFINE n == q[i].space
           b == q[i].alt + 1
<1>1. n \in Node /\ q[i].alt \in Nat
  BY StackIs
<1>2. a \in 0 .. q[i].alt + 1 /\ b \in 0 .. q[i].alt + 1 /\ a # b /\ a \in Nat /\ b \in Nat
  BY <1>1
<1>3. Child(n, a) \in Node /\ Child(n, b) \in Node
  BY <1>2, StackIs
<1>4. Below(Child(n, b), c)
  BY TreeIs DEF StackOK
<1> HIDE DEF n, b
<1> QED BY <1>1, <1>2, <1>3, <1>4, Children DEF n

LEMMA DropFound ==
  ASSUME NEW Node, NEW Alternatives, PathAssumption(Node, Alternatives, {}), NEW D, DiscOK(Node, Alternatives, D),
         NEW q, NEW c \in Node, StackOK(Node, Alternatives, q, c), NEW x \in Nat, NEW T \in Nat, D[c] + x = T,
         Alternatives[c] = 0, NEW S \in SUBSET Node,
         NEW f, NEW w, FoundOK(S, D, q, c, f, w, T), NEW g, \A s \in S : s \in g <=> s \in f \/ s = c
  PROVE  FoundOK(S, D, q, NoSpace, g, w, T)
<1>1. c # NoSpace /\ D[c] \in Nat
  BY TreeIs, DiscNat
<1> SUFFICES ASSUME NEW s \in S
             PROVE  /\ D[s] < T => s \in g
                    /\ D[s] = T => (s \notin g <=> StillCovers(q, NoSpace, s))
                    /\ w => s \in g \/ StillCovers(q, NoSpace, s)
                    /\ s \in g => D[s] <= T
  BY DEF FoundOK
<1>2. /\ D[s] < T => s \in f
      /\ D[s] = T => (s \notin f <=> StillCovers(q, c, s))
      /\ w => s \in f \/ StillCovers(q, c, s)
      /\ s \in f => D[s] <= T
  BY <1>1 DEF FoundOK
<1>3. StillCovers(q, NoSpace, s) <=> On(q, s)
  BY DEF StillCovers
<1>4. CASE s = c
  <2>1. ~On(q, s)
    BY <1>4, NotOn
  <2>2. D[c] <= T
    BY <1>1
  <2> QED BY <1>3, <1>4, <2>1, <2>2
<1>5. CASE s # c
  <2>1. ~Below(c, s)
    <3>1. ASSUME Below(c, s) PROVE FALSE
      <4>1. \E a \in 0 .. Alternatives[c] - 1 : TRUE
        BY <1>5, <3>1, BelowChild
      <4> QED BY <4>1
    <3> QED BY <3>1
  <2>2. StillCovers(q, c, s) <=> On(q, s)
    BY <2>1 DEF StillCovers
  <2> QED BY <1>2, <1>3, <1>5, <2>2
<1> QED BY <1>4, <1>5

LEMMA EndFound ==
  ASSUME NEW S, NEW D, NEW f, NEW w, NEW T, FoundOK(S, D, <<>>, NoSpace, f, w, T)
  PROVE  \A s \in S : /\ ~StillCovers(<<>>, NoSpace, s)
                      /\ D[s] < T \/ D[s] = T \/ w => s \in f
                      /\ s \in f /\ ~w => D[s] <= T
<1>1. \A s : ~StillCovers(<<>>, NoSpace, s)
  BY DEF StillCovers, On
<1> QED BY <1>1 DEF FoundOK

(* the next probe *)
LEMMA NextFound ==
  ASSUME NEW Node, NEW Alternatives, PathAssumption(Node, Alternatives, {}), NEW D, DiscOK(Node, Alternatives, D),
         NEW S \in SUBSET Node, NEW f, NEW w, NEW T \in Nat, FoundOK(S, D, <<>>, NoSpace, f, w, T)
  PROVE  /\ w => FoundOK(S, D, <<>>, NoSpace, f, w, T + 1)
         /\ ~w => FoundOK(S, D, <<>>, <<>>, f, TRUE, T + 1)
<1>1. \A s \in S : /\ ~StillCovers(<<>>, NoSpace, s)
                   /\ D[s] < T \/ D[s] = T \/ w => s \in f
                   /\ s \in f /\ ~w => D[s] <= T
  BY EndFound
<1>2. \A s \in S : D[s] \in Nat /\ Below(<<>>, s)
  BY DiscNat, BelowOrder
<1>3. \A s \in S : StillCovers(<<>>, <<>>, s)
  BY <1>2, TreeIs DEF StillCovers
<1>4. ASSUME w PROVE FoundOK(S, D, <<>>, NoSpace, f, w, T + 1)
  BY <1>1, <1>4 DEF FoundOK
<1>5. ASSUME ~w PROVE FoundOK(S, D, <<>>, <<>>, f, TRUE, T + 1)
  <2>1. \A s \in S : /\ D[s] < T + 1 => s \in f
                     /\ D[s] = T + 1 => s \notin f
                     /\ s \in f => D[s] <= T + 1
    <3> TAKE s \in S
    <3>1. D[s] \in Nat /\ (D[s] < T \/ D[s] = T => s \in f) /\ (s \in f => D[s] <= T)
      BY <1>1, <1>2, <1>5
    <3> QED BY <3>1
  <2> QED BY <1>3, <2>1 DEF FoundOK
<1> QED BY <1>4, <1>5

(* a first probe, or none *)
LEMMA FirstFound ==
  ASSUME NEW Node, NEW Alternatives, PathAssumption(Node, Alternatives, {}), NEW D, DiscOK(Node, Alternatives, D),
         NEW S \in SUBSET Node
  PROVE  /\ FoundOK(S, D, <<>>, <<>>, {}, TRUE, 0)
         /\ FoundOK(S, D, <<>>, NoSpace, S, TRUE, 0)
<1>1. \A s \in S : D[s] \in Nat /\ Below(<<>>, s)
  BY DiscNat, BelowOrder
<1>2. \A s \in S : StillCovers(<<>>, <<>>, s)
  BY <1>1, TreeIs DEF StillCovers
<1>3. \A s : ~StillCovers(<<>>, NoSpace, s)
  BY DEF StillCovers, On
<1> QED BY <1>1, <1>2, <1>3 DEF FoundOK
=============================================================================
