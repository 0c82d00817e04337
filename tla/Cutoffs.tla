-------------------------------- MODULE Cutoffs --------------------------------
(***************************************************************************)
(* The cutoffs of a restart-based engine: it reads its generator with ()   *)
(* first and with ++ at each restart (search/seq/rbs.hpp and rbs.cpp).     *)
(***************************************************************************)
EXTENDS CutoffGenerators

CONSTANTS
  Generator,   \* the generators: constant, linear, geometric, luby and rnd, and
               \* append, merge and repeat of such
  MaxRestarts(_)  \* bound on the restarts with a generator

VARIABLES
  made,    \* the generator as it has been made
  gen,     \* and as it is now
  cutoff,  \* the cutoff that the engine uses
  k        \* history: the number of restarts

vars == <<made, gen, cutoff, k>>

Init ==
  /\ made \in Generator /\ gen = made
  /\ cutoff = Read(gen) /\ k = 0

(* RBS::next() *)
Restart ==
  /\ k < MaxRestarts(made)
  /\ \E n \in Successors(gen) : cutoff' = n[1] /\ gen' = n[2]
  /\ k' = k + 1 /\ UNCHANGED made

Spec == Init /\ [][Restart]_vars

-----------------------------------------------------------------------------
(* Luby's sequence as Luby, Sinclair and Zuckerman define it, term by term: the terms
   so far twice, and the next power of two *)
Terms[x \in Nat] == IF x = 0 THEN <<1>> ELSE Terms[x - 1] \o Terms[x - 1] \o <<bit[x]>>
Luby(n) == Terms[CHOOSE x \in 0 .. n : n <= Len(Terms[x])][n]

(* Generators as they are made that yield what is documented: none that appends or
   repeats, and Luby's sequence only as a part, where nobody uses what its ++ returns *)
SoundPart(g) ==
  \/ g.kind = "constant" /\ g.c \in Nat /\ g = Constant(g.c)
  \/ g.kind = "linear" /\ g.scale \in Nat /\ g = Linear(g.scale)
  \/ g.kind = "geometric" /\ g = Geometric(g.scale, g.num, g.den)
  \/ g.kind = "luby" /\ g = LubyTimes(g.scale)
  \/ /\ g.kind = "rnd" /\ g \in Rnd(g.min, g.max, g.n)
     /\ g.min \in Nat /\ g.max \in Nat /\ g.n \in 1 .. g.max - g.min + 1
Sound(g) ==
  \/ g.kind = "merge" /\ g = Merge(g.c1, g.c2) /\ SoundPart(g.c1) /\ SoundPart(g.c2)
  \/ g.kind # "luby" /\ SoundPart(g)

(* The documented sequence, the i-th of it from 0 on: a set, as rnd is free *)
DocumentedAtom(g, i) ==
  CASE g.kind = "constant"  -> {g.c}
    [] g.kind = "linear"    -> {(i + 1) * g.scale}
    [] g.kind = "geometric" -> {(g.scale * g.num^i) \div g.den^i}
    [] g.kind = "luby"      -> {g.scale * Luby(i + 1)}
    [] g.kind = "rnd"       -> g.min .. g.max

Documented(g, i) ==
  CASE g.kind = "append" ->
         IF i < g.n THEN DocumentedAtom(g.c1, i) ELSE DocumentedAtom(g.c2, i - g.n)
    [] g.kind = "merge"  ->
         IF i % 2 = 0 THEN DocumentedAtom(g.c1, i \div 2) ELSE DocumentedAtom(g.c2, i \div 2)
    [] g.kind = "repeat" -> DocumentedAtom(g.c, i \div g.n)
    [] OTHER             -> DocumentedAtom(g, i)

(* The k-th cutoff that the engine uses is the one that search.hh documents for the
   generator: also when ++ is called on a part whose () is read later, and beyond
   the table of Luby's sequence (operator () and operator ++ in cutoff.cpp). *)
CutoffsDocumented == cutoff \in Documented(made, k)
=============================================================================
