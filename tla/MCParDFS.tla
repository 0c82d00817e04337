------------------------------ MODULE MCParDFS ------------------------------
EXTENDS ParDFS

(* A comb of depth 4, deep enough for a clone to be placed during
   recomputation; to its right a three-way node whose last child branches
   again, so that an edge is reused. *)
CombInner == {<<>>, <<0>>, <<0,0>>, <<0,0,0>>, <<1>>, <<1,2>>}
CombNodes == CombInner \cup {Append(n, a) : n \in CombInner, a \in 0..1}
CombAlternatives ==
  [n \in CombNodes |-> IF n = <<1>> THEN 3 ELSE IF n \in CombInner THEN 2 ELSE 0]
CombSolved == {<<0,1>>, <<1,2,0>>}
CombWeakFail == {<<0,0>>}

(* A longer comb for the configuration that Config has: a path with more than
   three open edges is needed for a steal. *)
LongInner == {<<>>, <<0>>, <<0,0>>, <<0,0,0>>, <<0,0,0,0>>}
LongNodes == LongInner \cup {Append(n, a) : n \in LongInner, a \in 0..1}
LongAlternatives == [n \in LongNodes |-> IF n \in LongInner THEN 2 ELSE 0]
LongSolved == {<<0,1>>}
=============================================================================
