------------------------------- MODULE Nodes -------------------------------
(***************************************************************************)
(* A node of a search tree, and a space that stands for it, is the         *)
(* sequence of alternatives that leads to it from the root.                *)
(***************************************************************************)
EXTENDS Integers, Sequences, SequencesExt

Child(n, a) == Append(n, a)
Below(n, m) == IsPrefix(n, m)   \* m is n or below it
=============================================================================
