------------------------------ MODULE MCParBAB ------------------------------
EXTENDS ParBAB

(* A comb of depth 3, deep enough for a clone to be placed during
   recomputation, with a solution at its end and a better one next to it.
   At the root there is nothing to choose. *)
Inner == {<<>>, <<0>>, <<0,0>>}
TreeNodes == Inner \cup {<<0,1>>, <<0,0,0>>, <<0,0,1>>}
TreeAlternatives == [n \in TreeNodes |-> IF n = <<>> THEN 1 ELSE IF n \in Inner THEN 2 ELSE 0]
TreeSolved == {<<0,0,1>>, <<0,1>>}
TreeValue == [s \in TreeSolved |-> IF s = <<0,1>> THEN 1 ELSE 2]
Spaces == [node : TreeNodes, bound : TreeSolved \cup {NoSpace}]
=============================================================================
