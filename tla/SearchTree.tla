----------------------------- MODULE SearchTree -----------------------------
(***************************************************************************)
(* A search tree as the engines see it.  A node is the sequence of         *)
(* alternatives that leads to it from the root.  A tree is a record of     *)
(*   alternatives : Node -> Nat, what choice() offers; 0 at a leaf, and    *)
(*                  at every node that is not in the tree                  *)
(*   solved       : the leaves that status() finds SS_SOLVED; the others   *)
(*                  are SS_FAILED.                                         *)
(***************************************************************************)
EXTENDS Nodes

(* n is in the tree *)
InTree(t, n) ==
  \A k \in 1 .. Len(n) :
    LET m == SubSeq(n, 1, k - 1) IN m \in DOMAIN t.alternatives /\ n[k] \in 0 .. t.alternatives[m] - 1

(* t is a tree with nodes from this set *)
IsTree(t, Node) ==
  /\ Node \subseteq Seq(Nat) /\ <<>> \in Node
  /\ t.alternatives \in [Node -> Nat] /\ t.solved \subseteq Node
  /\ \A n \in Node : \A a \in 0 .. t.alternatives[n] - 1 : Child(n, a) \in Node
  /\ \A s \in t.solved : t.alternatives[s] = 0 /\ InTree(t, s)

FailedIn(t, n) == t.alternatives[n] = 0 /\ n \notin t.solved
SolvedBelow(t, n) == {s \in t.solved : Below(n, s)}

(* s is left of t: the first alternative in which they differ is smaller *)
LeftOf(s, t) ==
  \E i \in DOMAIN s \cap DOMAIN t : s[i] < t[i] /\ \A j \in 1 .. i-1 : s[j] = t[j]
=============================================================================
